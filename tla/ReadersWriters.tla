---------------------------- MODULE ReadersWriters ----------------------------
(***************************************************************************)
(* What SKGCDAdditions promises for its file (the comment above its        *)
(* interface): one writer at a time, several readers at a time, never a    *)
(* writer and a reader at a time.                                          *)
(***************************************************************************)
CONSTANT Actors

VARIABLES reading, writing

rwVars == <<reading, writing>>

RWInit == reading = {} /\ writing = {}

BeginRead(a) ==
  /\ writing = {}
  /\ reading' = reading \cup {a}
  /\ UNCHANGED writing

BeginWrite(a) ==
  /\ reading = {} /\ writing = {}
  /\ writing' = {a}
  /\ UNCHANGED reading

End(a) ==
  /\ reading' = reading \ {a}
  /\ writing' = writing \ {a}

RWNext == \E a \in Actors : BeginRead(a) \/ BeginWrite(a) \/ End(a)

RWSpec == RWInit /\ [][RWNext]_rwVars
=============================================================================
