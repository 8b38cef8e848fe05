---------------------------- MODULE ShellProofs -----------------------------
(***************************************************************************)
(* The line editor of the shell (readline of shell/shell.c), for a buffer  *)
(* of any size and any characters.                                         *)
(***************************************************************************)
EXTENDS Shell, TLAPS

(***************************************************************************)
(* LineEdited as an inductive invariant.  It needs that what is typed is   *)
(* made of ordinary characters: backspace takes the first byte of the      *)
(* buffer to tell an empty line, so that byte must not be one that an      *)
(* earlier control key has left behind.                                    *)
(***************************************************************************)
EditInv ==
  /\ typed \in Seq(Chars)
  /\ DOMAIN cmd_line = 0 .. MAX_PATH_LEN
  /\ LineEdited

(***************************************************************************)
(* An empty line satisfies the invariant: print_prompt and the start of    *)
(* the shell clear the buffer.                                             *)
(***************************************************************************)
LEMMA EmptyLine ==
  ASSUME cmd_line' = empty_line, pos' = 0, typed' = <<>>
  PROVE  EditInv'
BY ShellAssumption DEF EditInv, LineEdited, empty_line

(***************************************************************************)
(* A character of the line is put at pos, behind those that are there      *)
(* (the last case of readline).                                            *)
(***************************************************************************)
LEMMA CharacterKeeps ==
  ASSUME EditInv, NEW c \in Chars, character(c)
  PROVE  EditInv'
<1> USE ShellAssumption
<1>1. /\ cmd_line' = [cmd_line EXCEPT ![pos] = c]
      /\ pos' = pos + 1 /\ typed' = Append(typed, c)
      /\ pos < MAX_PATH_LEN
  BY DEF character, Edit, Stored, Reading
<1>2. /\ typed \in Seq(Chars) /\ Len(typed) \in Nat /\ pos = Len(typed)
      /\ DOMAIN cmd_line = 0 .. MAX_PATH_LEN
      /\ \A i \in 1 .. Len(typed) : cmd_line[i - 1] = typed[i]
  BY DEF EditInv, LineEdited
<1>3. typed' \in Seq(Chars) /\ Len(typed') = Len(typed) + 1
  BY <1>1, <1>2
<1>4. DOMAIN cmd_line' = 0 .. MAX_PATH_LEN  BY <1>1, <1>2
<1>5. ASSUME NEW i \in 1 .. Len(typed') PROVE cmd_line'[i - 1] = typed'[i]
  <2>1. CASE i = Len(typed) + 1
    <3>1. cmd_line'[pos] = c  BY <1>1, <1>2
    <3> QED BY <1>1, <1>2, <2>1, <3>1
  <2>2. CASE i \in 1 .. Len(typed)
    <3>1. i - 1 # pos /\ i - 1 \in 0 .. MAX_PATH_LEN  BY <1>1, <1>2, <2>2
    <3>2. cmd_line'[i - 1] = cmd_line[i - 1]  BY <1>1, <1>2, <3>1
    <3> QED BY <1>1, <1>2, <2>2, <3>2
  <2> QED BY <1>2, <1>3, <2>1, <2>2
<1> QED BY <1>1, <1>2, <1>3, <1>4, <1>5 DEF EditInv, LineEdited

(***************************************************************************)
(* A backspace takes the last character back, and does nothing on an empty *)
(* line (the case '\b' of readline).                                       *)
(***************************************************************************)
LEMMA BackspaceKeeps ==
  ASSUME EditInv, backspace
  PROVE  EditInv'
<1> USE ShellAssumption
<1> DEFINE buf == [cmd_line EXCEPT ![pos] = BS]
<1>1. /\ cmd_line' = buf
      /\ pos' = IF buf[0] # BS THEN pos - 1 ELSE pos
      /\ typed' = IF typed = <<>> THEN typed ELSE Front(typed)
      /\ pos < MAX_PATH_LEN
  BY DEF backspace, Edit, Stored, Reading
<1>2. /\ typed \in Seq(Chars) /\ Len(typed) \in Nat /\ pos = Len(typed)
      /\ DOMAIN cmd_line = 0 .. MAX_PATH_LEN
      /\ \A i \in 1 .. Len(typed) : cmd_line[i - 1] = typed[i]
  BY DEF EditInv, LineEdited
<1>3. DOMAIN buf = 0 .. MAX_PATH_LEN  BY <1>2
<1>4. CASE typed = <<>>
  <2>1. pos = 0  BY <1>2, <1>4
  <2>2. buf[0] = BS  BY <1>2, <2>1
  <2> QED BY <1>1, <1>2, <1>3, <1>4, <2>1, <2>2 DEF EditInv, LineEdited
<1>5. CASE typed # <<>>
  <2>1. Len(typed) > 0  BY <1>2, <1>5
  <2>2. buf[0] = typed[1]
    <3>1. buf[0] = cmd_line[0]  BY <1>1, <1>2, <2>1
    <3> QED BY <1>2, <2>1, <3>1
  <2>3. typed[1] \in Chars  BY <1>2, <2>1
  <2>4. pos' = pos - 1  BY <1>1, <2>2, <2>3
  <2>5. typed' = SubSeq(typed, 1, Len(typed) - 1)  BY <1>1, <1>5 DEF Front
  <2>6. /\ typed' \in Seq(Chars) /\ Len(typed') = Len(typed) - 1
        /\ \A i \in 1 .. Len(typed') : typed'[i] = typed[i]
    BY <1>2, <2>1, <2>5
  <2>7. ASSUME NEW i \in 1 .. Len(typed') PROVE cmd_line'[i - 1] = typed'[i]
    <3>1. i \in 1 .. Len(typed) /\ i - 1 # pos /\ i - 1 \in 0 .. MAX_PATH_LEN
      BY <1>1, <1>2, <2>6
    <3>2. cmd_line'[i - 1] = cmd_line[i - 1]  BY <1>1, <1>2, <3>1
    <3> QED BY <1>2, <2>6, <3>1, <3>2
  <2> QED BY <1>1, <1>2, <1>3, <2>4, <2>6, <2>7 DEF EditInv, LineEdited
<1> QED BY <1>4, <1>5

(***************************************************************************)
(* Clearing the screen leaves the line as it is (ctrl+l of readline).      *)
(***************************************************************************)
LEMMA ClearScreenKeeps ==
  ASSUME EditInv, ctrl_l
  PROVE  EditInv'
<1> USE ShellAssumption
<1>1. /\ cmd_line' = [cmd_line EXCEPT ![pos] = NUL]
      /\ pos' = pos /\ typed' = typed /\ pos < MAX_PATH_LEN
  BY DEF ctrl_l, Edit, Reading
<1>2. /\ typed \in Seq(Chars) /\ Len(typed) \in Nat /\ pos = Len(typed)
      /\ DOMAIN cmd_line = 0 .. MAX_PATH_LEN
      /\ \A i \in 1 .. Len(typed) : cmd_line[i - 1] = typed[i]
  BY DEF EditInv, LineEdited
<1>3. ASSUME NEW i \in 1 .. Len(typed) PROVE cmd_line'[i - 1] = typed[i]
  <2>1. i - 1 # pos /\ i - 1 \in 0 .. MAX_PATH_LEN  BY <1>1, <1>2
  <2> QED BY <1>1, <1>2, <2>1
<1> QED BY <1>1, <1>2, <1>3 DEF EditInv, LineEdited

(***************************************************************************)
(* Wiping the line empties it, whatever it leaves in the first byte        *)
(* (ctrl+u of readline).                                                   *)
(***************************************************************************)
LEMMA WipeKeeps ==
  ASSUME EditInv, ctrl_u
  PROVE  EditInv'
<1>1. /\ DOMAIN cmd_line' = DOMAIN cmd_line
      /\ pos' = 0 /\ typed' = <<>>
  BY DEF ctrl_u, Edit, Reading
<1> QED BY <1>1, ShellAssumption DEF EditInv, LineEdited

(***************************************************************************)
(* For every size of the buffer and every set of characters, the bytes of  *)
(* cmd_line before pos are what the user typed and did not take back, and  *)
(* pos stays in the buffer.                                                *)
(***************************************************************************)
THEOREM LineIsEdited == Spec => []LineEdited
<1>1. Init => EditInv
  BY ShellAssumption DEF Init, EditInv, LineEdited, empty_line
<1>2. EditInv /\ [Next]_vars => EditInv'
  <2> SUFFICES ASSUME EditInv, [Next]_vars PROVE EditInv'  OBVIOUS
  <2>1. CASE print_prompt  BY <2>1, EmptyLine DEF print_prompt
  <2>2. CASE enter  BY <2>2, EmptyLine DEF enter, Return
  <2>3. CASE backspace  BY <2>3, BackspaceKeeps
  <2>4. CASE ctrl_l  BY <2>4, ClearScreenKeeps
  <2>5. CASE ctrl_u  BY <2>5, WipeKeeps
  <2>6. CASE \E c \in Chars : character(c)  BY <2>6, CharacterKeeps
  <2>7. CASE \E key \in Chars \cup {BS, ENTER} : line_full(key)
    BY <2>7, EmptyLine DEF line_full, Return
  <2>8. CASE UNCHANGED <<cmd_line, pos, typed>>
    BY <2>8 DEF EditInv, LineEdited
  <2>9. CASE \E path \in PathArgs : buildin_cd(path)
    BY <2>8, <2>9 DEF buildin_cd
  <2>10. CASE UNCHANGED vars  BY <2>8, <2>10 DEF vars
  <2> QED BY <2>1, <2>2, <2>3, <2>4, <2>5, <2>6, <2>7, <2>9, <2>10 DEF Next
<1>3. EditInv => LineEdited  BY DEF EditInv
<1> QED BY <1>1, <1>2, <1>3, PTL DEF Spec
=============================================================================
