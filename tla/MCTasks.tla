------------------------------- MODULE MCTasks -------------------------------
(***************************************************************************)
(* What sqail-ui does in the background, for TLC.  The parts of Background *)
(* share no state, so that whatever they do together, each goes through    *)
(* states it has alone: here one acts, `part`, and the others stay as they *)
(* began.                                                                  *)
(*                                                                         *)
(* A conversation is checked twice: several turns of short answers         *)
(* ("turns"), and one turn of several messages, with tools and errors.     *)
(***************************************************************************)
EXTENDS Background

VARIABLE part

-----------------------------------------------------------------------------
InitPart ==
  /\ part \in {"tools", "import", "export", "turns", "one turn"}
  /\ Init /\ Import!Init /\ Export!Init /\ Chat!Init
  /\ part = "export" \/ connection = "c"

importVars ==
  <<dialog, openings, asking, started, importPc, target, importAsk, left, batch,
    importDone, importVerdict, told, importSession, importRunning, importReply,
    importTx, written, importCommitted>>
exportVars ==
  <<connection, run, runs, task, what, sheets, exportLeft, outcome>>
chatVars ==
  <<chat, open, entries, turnRunning, turns, turn, turnPc, stopped, cli, plan, at,
    parser, turnDone, inbox, folders>>

\* Bound: answers that are a result only, which is no error.
ShortAnswers == \A t \in Chat!Turns : plan'[t].messages = <<>> /\ ~plan'[t].error

NextPart ==
  /\ UNCHANGED part
  /\ \/ /\ part = "tools" /\ Next
        /\ UNCHANGED <<importVars, exportVars, chatVars>>
     \/ /\ part = "import" /\ Import!Next
        /\ UNCHANGED <<vars, exportVars, chatVars>>
     \/ /\ part = "export" /\ Export!Next
        /\ UNCHANGED <<vars, importVars, chatVars>>
     \/ /\ part = "turns" /\ Chat!Next /\ ShortAnswers
        /\ UNCHANGED <<vars, importVars, exportVars>>
     \/ /\ part = "one turn" /\ Chat!Next /\ turns' <= 1
        /\ UNCHANGED <<vars, importVars, exportVars>>

SpecPart == InitPart /\ [][NextPart]_<<part, vars, importVars, exportVars, chatVars>>

=============================================================================
