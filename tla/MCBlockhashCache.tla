--------------------------- MODULE MCBlockhashCache ---------------------------
(* Two callers, two connections, one warmer; requests are numbered so that  *)
(* the choice of an unused one is the same in every state.                  *)
EXTENDS BlockhashCache

MCRequest == 1..3
=============================================================================
