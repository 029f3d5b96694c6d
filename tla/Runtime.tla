------------------------------- MODULE Runtime -------------------------------
(***************************************************************************)
(* One program's mutable state is the arena and the dispatch table; what   *)
(* needs both of them is eviction (src/src/runtime/runtime.cpp).           *)
(***************************************************************************)
EXTENDS CodeArena, DispatchTable

(* A body's size is not stored: it reaches to the next body, or to the end
   of the committed code. *)
OccupiedSizeOf(i) == NextResidentAbove(codePtr[i], cursor) - codePtr[i]

\* Faulty form: only the committed code slides, not what is being emitted.
MemAfterEvicting_CommittedOnly(v, end) ==
  Compacted(mem, codePtr[v], codePtr[v] + OccupiedSizeOf(v), cursor)

(* What the arena holds once v is gone and everything above it, up to the
   end of the code being emitted, has slid down; the caller of Evict writes
   the next halfword into it. *)
MemAfterEvicting(v, end) ==
  Compacted(mem, codePtr[v], codePtr[v] + OccupiedSizeOf(v), end)

Evict(v) ==
  LET size == OccupiedSizeOf(v)
  IN  /\ cursor' = cursor - size
      /\ Retire(v, codePtr[v] + size, size)
=============================================================================
