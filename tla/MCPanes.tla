------------------------------- MODULE MCPanes -------------------------------
EXTENDS Panes, TLC

CONSTANTS s1, s2, s3

MCContents == {Blank, s1, s2, s3}
MCAreas == {<<9, 3>>, <<5, 5>>}
MCSymmetry == Permutations({s1, s2, s3})
=============================================================================
