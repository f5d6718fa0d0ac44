------------------------- MODULE MCCompilerContext -------------------------
(* Two units in a context small enough that handles are soon recycled.      *)
EXTENDS CompilerContext

CONSTANTS t1, t2
const_Units == {t1, t2}

=============================================================================
