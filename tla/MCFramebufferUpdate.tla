------------------------ MODULE MCFramebufferUpdate ------------------------
(***************************************************************************)
(* Small screens for FramebufferUpdate: a column of three pixels, where a  *)
(* copy has a source, a destination and a bystander, and two colours.      *)
(***************************************************************************)
EXTENDS FramebufferUpdate

Pixel(y) == <<0, y>>
Column == {Pixel(y) : y \in 0 .. Height - 1}

MCDrawRegions == {{Pixel(0)}, {Pixel(1)}}
\* scrolling down by one row, and a copy of one pixel up
MCCopies == {[rgn |-> {Pixel(1), Pixel(2)}, d |-> <<0, 1>>],
             [rgn |-> {Pixel(0)}, d |-> <<0, -1>>]}
MCNoCopies == {[rgn |-> {Pixel(1), Pixel(2)}, d |-> <<0, 1>>]}
MCFrames == {[p \in Column |-> 0]}
MCRequests == {Column, {Pixel(0), Pixel(1)}, {Pixel(2)}}
MCFewRequests == {Column, {Pixel(1), Pixel(2)}}
MCWholeScreen == {Column}
MCCursor == {Pixel(0)}
MCLists == {{"RichCursor"}, {"RichCursor", "CopyRect", "ExtDesktopSize"}}
MCCopyRectLists == {{"RichCursor"}, {"RichCursor", "CopyRect"}}
MCPlainLists == {{"RichCursor"}, {"RichCursor", "NewFBSize"}}
=============================================================================
