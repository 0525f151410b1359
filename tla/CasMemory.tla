-------------------------------- MODULE CasMemory --------------------------------
(***************************************************************************)
(* What the concepts of an assistant memory promise to the applications    *)
(* that write them: a write names the version it was made from, and takes  *)
(* effect as a whole and only while that version is the current one.       *)
(* Besides writes, only the import of a bundle, its removal, and bytes the *)
(* user put in its files change what the memory holds.                     *)
(***************************************************************************)
CONSTANTS Paths, Bytes, Absent

VARIABLES
  memory,   \* version of every concept, or Absent
  asked,    \* writes begun so far: the version replaced and the new one
  outside,  \* the user has changed files of the bundle
  gone      \* the wiki is deleted or detached

memoryVars == <<memory, asked, outside, gone>>

Write == [path : Paths, prev : Bytes \union {Absent}, repl : Bytes]
Nothing == [p \in Paths |-> Absent]

MemoryInit == memory = Nothing /\ asked = {} /\ outside = FALSE /\ gone = FALSE

Ask(w) ==
  /\ memory[w.path] = w.prev
  /\ asked' = asked \union {w}
  /\ UNCHANGED <<memory, outside, gone>>

TakeEffect(w) ==
  /\ memory[w.path] = w.prev
  /\ memory' = [memory EXCEPT ![w.path] = w.repl]
  /\ UNCHANGED <<asked, outside, gone>>

Import ==
  /\ memory = Nothing /\ asked = {}
  /\ memory' \in [Paths -> Bytes \union {Absent}]
  /\ UNCHANGED <<asked, outside, gone>>

Remove ==
  /\ ~gone /\ gone' = TRUE
  /\ memory' = Nothing
  /\ UNCHANGED <<asked, outside>>

Intrude == outside' = TRUE /\ UNCHANGED <<memory, asked, gone>>

Adopt ==
  /\ outside
  /\ memory' \in [Paths -> Bytes \union {Absent}]
  /\ UNCHANGED <<asked, outside, gone>>

MemoryNext ==
  \/ \E w \in Write : Ask(w)
  \/ \E w \in asked : TakeEffect(w)
  \/ Import \/ Remove \/ Intrude \/ Adopt

MemorySpec == MemoryInit /\ [][MemoryNext]_memoryVars
================================================================================
