--------------------------- MODULE MCSegmentSeams ---------------------------
EXTENDS SegmentSeams

Content(half)  == [kind |-> "content", half |-> half, fade |-> FALSE]
FadeIn(half)   == [kind |-> "content", half |-> half, fade |-> TRUE]
Pad(half)      == [kind |-> "pad", half |-> half, fade |-> FALSE]

\* Content, a pad and content again, a block that opens with a pad, then one of two whose
\* first segment has three frames, so that one of them is not its first frame or a repeat.
MCPlan == <<<<Content(3), Pad(4), Content(3)>>, <<Pad(4), Content(3)>>, <<Content(5), FadeIn(3)>>>>
MCSlow == {<<1, 1>>, <<3, 1>>}
=============================================================================
