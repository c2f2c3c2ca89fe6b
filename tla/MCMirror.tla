------------------------------ MODULE MCMirror ------------------------------
EXTENDS MirrorProperties
MCGoods == {1, 2}
=============================================================================
