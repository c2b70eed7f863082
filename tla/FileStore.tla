------------------------------ MODULE FileStore ------------------------------
(***************************************************************************)
(* What writing a file promises whoever asks for it: the file has all of   *)
(* the old contents or all of the new, every other file is as it was, and  *)
(* an answer of success means that the new contents are there. A failure   *)
(* says nothing about which of the two it is.                              *)
(***************************************************************************)
CONSTANTS Names, Texts, Absent, Nothing

VARIABLES files,    \* per name: its contents, or Absent
          writing   \* the write in progress, or Nothing

vars == <<files, writing>>

Init == files \in [Names -> {Absent} \cup Texts] /\ writing = Nothing

Begin(n, c) ==
  /\ writing = Nothing
  /\ writing' = [name |-> n, contents |-> c, stored |-> FALSE]
  /\ UNCHANGED files

Store ==
  /\ writing # Nothing
  /\ ~writing.stored
  /\ files' = [files EXCEPT ![writing.name] = writing.contents]
  /\ writing' = [writing EXCEPT !.stored = TRUE]

Succeed ==
  /\ writing # Nothing
  /\ writing.stored
  /\ writing' = Nothing
  /\ UNCHANGED files

Fail ==
  /\ writing # Nothing
  /\ writing' = Nothing
  /\ UNCHANGED files

Next ==
  \/ \E n \in Names, c \in Texts : Begin(n, c)
  \/ Store
  \/ Succeed
  \/ Fail

Spec == Init /\ [][Next]_vars
==============================================================================
