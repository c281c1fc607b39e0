----------------------------- MODULE Statusline -----------------------------
(***************************************************************************)
(* ccb statusline on | off | --install: edits of two files that belong to  *)
(* the user, the statusLine command in settings.json and the script it may *)
(* name, while the user edits them too and other sessions run the same     *)
(* commands.                                                               *)
(*                                                                         *)
(* A script is a sequence of lines' texts, newlines and the three lines of *)
(* the marker block; a statusLine command is one of the kinds the code     *)
(* tells apart.                                                            *)
(***************************************************************************)
EXTENDS Naturals, Sequences

CONSTANTS
    Text,           \* texts of the user's lines
    Cmds,           \* ccb processes
    Idle,           \* a process without a pending write
    MaxEdits        \* bound: edits of the user

NL == "newline"
Begin == "begin"
Body == "body"
End == "end"
Markers == {Begin, Body, End}

Content == Text \cup {NL} \cup Markers

\* No statusLine; `ccb statusline --all` by the path of the binary; another
\* command the code takes for one of ccb; one that names a script; any other.
Kinds == {"none", "target", "ccb", "script", "foreign"}

\* What a process writes to one of the files.
Writable == ({"settings"} \X Kinds) \cup ({"script"} \X Seq(Content))

ASSUME StatuslineAssumption ==
    /\ Text \cap ({NL} \cup Markers) = {}
    /\ Idle \notin Writable
    /\ MaxEdits \in Nat

-----------------------------------------------------------------------------
(* The marker block.                                                       *)

Block == <<Begin, NL, Body, NL, End, NL>>

HasBlock(s) == \E i, j \in 1..Len(s) : i < j /\ s[i] = Begin /\ s[j] = End

\* blockBounds: the first begin marker, the first end marker behind it, and
\* the newline behind that.
BlockStart(s) == CHOOSE i \in 1..Len(s) : s[i] = Begin /\ \A k \in 1..(i - 1) : s[k] # Begin
EndMarker(s) ==
    LET b == BlockStart(s)
    IN  CHOOSE j \in (b + 1)..Len(s) : s[j] = End /\ \A k \in (b + 1)..(j - 1) : s[k] # End
BlockEnd(s) ==
    LET e == EndMarker(s) IN IF e < Len(s) /\ s[e + 1] = NL THEN e + 1 ELSE e

Before(s) == SubSeq(s, 1, BlockStart(s) - 1)
AfterDropped(s) == <<>>
After(s) == SubSeq(s, BlockEnd(s) + 1, Len(s))

AppendAlways(s) == s \o <<NL>> \o Block
\* blockUpsert: replaced in place, or appended behind a newline.
BlockUpsert(s) == IF HasBlock(s) THEN Before(s) \o Block \o After(s) ELSE s \o <<NL>> \o Block

LastIsNL(s) == s # <<>> /\ s[Len(s)] = NL

\* blockRemove: the newline of an appended block goes with it.
TrimAlways(s) ==
    IF ~HasBlock(s) THEN s
    ELSE (IF LastIsNL(Before(s)) THEN SubSeq(Before(s), 1, Len(Before(s)) - 1) ELSE Before(s)) \o After(s)
TrimNever(s) == IF HasBlock(s) THEN Before(s) \o After(s) ELSE s
BlockRemove(s) ==
    IF ~HasBlock(s) THEN s
    ELSE LET pre == Before(s) IN
         IF After(s) = <<>> /\ LastIsNL(pre) THEN SubSeq(pre, 1, Len(pre) - 1) ELSE pre \o After(s)

-----------------------------------------------------------------------------

VARIABLES
    cmd,        \* the kind of the statusLine in settings.json
    script,     \* the statusline script
    pending,    \* what each process is about to write: <<file, value>>
    edits,
    own,        \* history: the user's lines, in order
    undo        \* history: <<cmd, script>> before an `on` that nothing followed yet

vars == <<cmd, script, pending, edits, own, undo>>

TypeOK ==
    /\ cmd \in Kinds
    /\ script \in Seq(Content)
    /\ pending \in [Cmds -> Writable \cup {Idle}]
    /\ edits \in Nat /\ own \in Seq(Text)

\* A script may or may not end in a newline.
Init ==
    /\ cmd \in Kinds
    /\ \E t \in Text : own = <<t>> /\ script \in {<<t>>, <<t, NL>>}
    /\ pending = [p \in Cmds |-> Idle]
    /\ edits = 0
    /\ undo = <<>>

Writes(p, file, value) == pending' = [pending EXCEPT ![p] = <<file, value>>]

\* isCcbStatuslineCommand
IsCcb(k) == k \in {"target", "ccb"}

-----------------------------------------------------------------------------
(* The commands: read both files, then write one or neither.               *)

\* statuslineOn
On(p) ==
    /\ pending[p] = Idle
    /\ \/ cmd \in {"none", "ccb"} /\ Writes(p, "settings", "target")
       \/ cmd = "script" /\ BlockUpsert(script) # script /\ Writes(p, "script", BlockUpsert(script))
    /\ undo' = IF cmd = "ccb" \/ HasBlock(script) \/ (\E q \in Cmds : pending[q] # Idle)
               THEN <<>> ELSE <<cmd, script>>
    /\ UNCHANGED <<cmd, script, edits, own>>

\* statuslineOff
Off(p) ==
    /\ pending[p] = Idle
    /\ \/ IsCcb(cmd) /\ Writes(p, "settings", "none")
       \/ cmd = "script" /\ BlockRemove(script) # script /\ Writes(p, "script", BlockRemove(script))
    /\ UNCHANGED <<cmd, script, edits, own, undo>>

\* installStatusline: without --all, and never over an existing statusLine.
Install(p) ==
    /\ pending[p] = Idle
    /\ cmd = "none"
    /\ Writes(p, "settings", "ccb")
    /\ undo' = <<>>
    /\ UNCHANGED <<cmd, script, edits, own>>

Write(p) ==
    /\ pending[p] # Idle
    /\ cmd' = IF pending[p][1] = "settings" THEN pending[p][2] ELSE cmd
    /\ script' = IF pending[p][1] = "script" THEN pending[p][2] ELSE script
    /\ pending' = [pending EXCEPT ![p] = Idle]
    /\ UNCHANGED <<edits, own, undo>>

-----------------------------------------------------------------------------
(* The user, who does not hit the moment between a read and a write.       *)

Edit ==
    /\ edits < MaxEdits
    /\ \A p \in Cmds : pending[p] = Idle
    /\ edits' = edits + 1
    /\ undo' = <<>>
    /\ UNCHANGED pending

SetCommand ==
    /\ Edit
    /\ cmd' \in {"none", "ccb", "script", "foreign"} \ {cmd}
    /\ UNCHANGED <<script, own>>

\* An editor keeps lines apart.
AppendLine ==
    /\ Edit
    /\ \E t \in Text :
        /\ script' = (IF script = <<>> \/ LastIsNL(script) THEN script ELSE Append(script, NL)) \o <<t, NL>>
        /\ own' = Append(own, t)
    /\ UNCHANGED cmd

PrependLine ==
    /\ Edit
    /\ \E t \in Text : script' = <<t, NL>> \o script /\ own' = <<t>> \o own
    /\ UNCHANGED cmd

\* A line inside the block, which the next `on` restores, or the last newline
\* of the file.  The two marker lines are left alone.
Tamper ==
    /\ Edit
    /\ \/ HasBlock(script) /\ script' = [script EXCEPT ![BlockStart(script) + 2] = NL]
       \/ LastIsNL(script) /\ script' = SubSeq(script, 1, Len(script) - 1)
    /\ UNCHANGED <<cmd, own>>

Next ==
    \/ \E p \in Cmds : On(p) \/ Off(p) \/ Install(p) \/ Write(p)
    \/ SetCommand \/ AppendLine \/ PrependLine \/ Tamper

Spec == Init /\ [][Next]_vars

-----------------------------------------------------------------------------
(* Properties.                                                             *)

\* The texts among the lines of a script.
OwnText(s) ==
    LET f[n \in 0..Len(s)] == IF n = 0 THEN <<>>
                              ELSE IF s[n] \in Text THEN Append(f[n - 1], s[n]) ELSE f[n - 1]
    IN  f[Len(s)]

\* The user's own lines survive every mix of on, off and edits, in their
\* order.
OwnTextKept == OwnText(script) = own

\* However often `on` runs, in one session or in two at a time, and whatever
\* stands around the block, the script holds one block.
OneBlock ==
    \A i, j \in 1..Len(script) : script[i] = script[j] /\ script[i] \in {Begin, End} => i = j

\* No edit of ccb glues two lines of the script together, also when the script
\* had no last newline or the user appended lines behind the block.
LinesApart == \A i \in 1..(Len(script) - 1) : script[i] # NL => script[i + 1] = NL

\* "`off` removes exactly whatever `on` added": when nothing happened in
\* between, both files are as they were.
OffUndoesOn ==
    [][\A p \in Cmds : undo # <<>> /\ pending[p] # Idle /\ pending'[p] = Idle
            /\ pending[p] \in {<<"settings", "none">>, <<"script", BlockRemove(script)>>}
            /\ (\A q \in Cmds : q # p => pending[q] = Idle)
            => <<cmd', script'>> = undo]_vars
=============================================================================
