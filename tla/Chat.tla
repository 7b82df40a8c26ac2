-------------------------------- MODULE Chat --------------------------------
(***************************************************************************)
(* The assistant of sqail-ui: the conversation (Assistant in               *)
(* assistant/mod.rs), the task that runs the CLI for one turn (run in      *)
(* cli.rs) and the parser of what the CLI prints (Parser in stream.rs).    *)
(*                                                                         *)
(* Each turn has a task and a CLI process of its own.  Events reach the UI *)
(* through its one channel, also those of a turn that was stopped.  The    *)
(* CLI is external: it prints its session, some messages, as they are      *)
(* generated or whole, and a result, and exits; or it exits earlier.       *)
(***************************************************************************)
EXTENDS Integers, Sequences, SequencesExt

CONSTANTS
  MaxTurns,     \* bound: questions asked
  MaxMessages,  \* bound: messages of a turn
  Tools,        \* the tools a message may call, "none" among them
  Errors        \* whether a result may be an error

VARIABLES
  chat,      \* the conversation: its number, and the CLI session it has
  open,      \* there is one
  entries,   \* what the panel shows
  running,   \* the turn in progress, or 0
  turns,     \* how many there were
  turn,      \* what each was asked with
  pc,        \* where its task is
  stopped,   \* it was told to stop
  cli,       \* its process
  plan,      \* what the CLI has to say
  at,        \* how many lines of that it printed
  parser,    \* the parser's state
  done,      \* the task saw the result
  inbox,     \* messages to the UI
  folders    \* the working directories there are

uiVars == <<chat, open, entries, running, turns, turn>>
taskVars == <<pc, parser, done>>
cliVars == <<cli, plan, at>>
vars == <<uiVars, taskVars, cliVars, stopped, inbox, folders>>

Turns == 1 .. MaxTurns

\* A message has a text of two parts or none, streamed or not, and calls a
\* tool or none.  The result after them may be an error.
Messages == [text : BOOLEAN, streamed : BOOLEAN, tool : Tools]
Plans == [messages : SeqOf(Messages, MaxMessages), error : Errors]

Line(kind, m, part) == [kind |-> kind, message |-> m, part |-> part]

\* What the CLI prints of its m-th message: with partial messages its parts
\* come before it, and the tool's answer after.
Printed(message, m) ==
  (IF message.text /\ message.streamed
   THEN <<Line("start", m, 0), Line("delta", m, 1), Line("delta", m, 2)>>
   ELSE <<>>)
  \o <<Line("assistant", m, 0)>>
  \o (IF message.tool # "none" THEN <<Line("tool result", m, 0)>> ELSE <<>>)

Lines(p) ==
  <<Line("init", 0, 0)>>
  \o FlattenSeq([m \in DOMAIN p.messages |-> Printed(p.messages[m], m)])
  \o <<Line("result", 0, 0)>>

PartsOf(message, m) == IF message.text THEN <<<<m, 1>>, <<m, 2>>>> ELSE <<>>

\* The texts, in order; without any the result has one of its own.
Texts(p) ==
  LET parts == FlattenSeq([m \in DOMAIN p.messages |->
                             PartsOf(p.messages[m], m)])
  IN  IF parts = <<>> THEN <<<<0, 0>>>> ELSE parts

NewParser == [streamed |-> {}, current |-> 0, hidden |-> {}]

Entry(kind, t, about) == [kind |-> kind, turn |-> t, about |-> about]
Event(t, kind, about) == [turn |-> t, kind |-> kind, about |-> about]

\* Type correctness.
TypeOK ==
  /\ chat.number \in 0 .. MaxTurns + 1 /\ chat.session \in 0 .. MaxTurns
  /\ open \in BOOLEAN
  /\ \A i \in DOMAIN entries :
       /\ entries[i].kind \in {"user", "answer", "tool", "error", "note"}
       /\ entries[i].turn \in 0 .. turns
  /\ running \in 0 .. turns /\ turns \in 0 .. MaxTurns
  /\ turn \in [Turns -> [chat : 0 .. MaxTurns, resume : 0 .. MaxTurns]]
  /\ pc \in [Turns -> {"none", "preparing", "spawning", "writing", "reading",
                       "waiting", "over"}]
  /\ stopped \in [Turns -> BOOLEAN]
  /\ cli \in [Turns -> {"none", "alive", "closed", "dead", "failed"}]
  /\ plan \in [Turns -> Plans]
  /\ \A t \in Turns : at[t] \in 0 .. Len(Lines(plan[t]))
  /\ \A t \in Turns : parser[t].streamed \cup parser[t].hidden
                        \subseteq 1 .. MaxMessages
  /\ done \in [Turns -> BOOLEAN]
  /\ \A i \in DOMAIN inbox : inbox[i].turn \in 1 .. turns
  /\ folders \subseteq 0 .. MaxTurns

Init ==
  /\ chat = [number |-> 0, session |-> 0]
  /\ open = FALSE
  /\ entries = <<>>
  /\ running = 0
  /\ turns = 0
  /\ turn = [t \in Turns |-> [chat |-> 0, resume |-> 0]]
  /\ pc = [t \in Turns |-> "none"]
  /\ stopped = [t \in Turns |-> FALSE]
  /\ cli = [t \in Turns |-> "none"]
  /\ plan = [t \in Turns |-> [messages |-> <<>>, error |-> FALSE]]
  /\ at = [t \in Turns |-> 0]
  /\ parser = [t \in Turns |-> NewParser]
  /\ done = [t \in Turns |-> FALSE]
  /\ inbox = <<>>
  /\ folders = {}

-----------------------------------------------------------------------------
(* The panel *)

\* assistant_send without a connection, a service or its token.  Bound: once
\* in what is shown.
Refuse ==
  /\ running = 0
  /\ \A i \in DOMAIN entries : entries[i].turn # 0
  /\ entries' = Append(entries, Entry("error", 0, 0))
  /\ UNCHANGED <<chat, open, running, turns, turn, taskVars, cliVars, stopped,
                 inbox, folders>>

\* The turn in progress is the one the task is given.
Run(t) == running' = t

\* assistant_send: a chat, and its folder's name, begin with a question.
Ask ==
  /\ turns < MaxTurns /\ running = 0
  /\ turns' = turns + 1
  /\ Run(turns')
  /\ open' = TRUE
  /\ chat' = IF open THEN chat
             ELSE [number |-> chat.number + 1, session |-> 0]
  /\ turn' = [turn EXCEPT ![turns'] =
                [chat |-> chat'.number, resume |-> chat'.session]]
  /\ entries' = Append(entries, Entry("user", turns', 0))
  /\ pc' = [pc EXCEPT ![turns'] = "preparing"]
  /\ UNCHANGED <<parser, done, cliVars, stopped, inbox, folders>>

Stop ==
  /\ running # 0
  /\ stopped' = [stopped EXCEPT ![running] = TRUE]
  /\ entries' = Append(entries, Entry("note", running, 0))
  /\ running' = 0
  /\ UNCHANGED <<chat, open, turns, turn, taskVars, cliVars, inbox, folders>>

\* new_chat, which stops the turn first.
NewChat ==
  /\ open
  /\ open' = FALSE
  /\ stopped' = [t \in Turns |-> stopped[t] \/ t = running]
  /\ running' = 0
  /\ entries' = <<>>
  /\ folders' = folders \ {chat.number}
  /\ UNCHANGED <<chat, turns, turn, taskVars, cliVars, inbox>>

\* The answers since the last question.
AnsweredSince(es) ==
  \E i \in DOMAIN es :
    /\ es[i].kind = "answer"
    /\ \A j \in i + 1 .. Len(es) : es[j].kind # "user"

\* Assistant::apply, for an event of the turn in progress.
Shown(ev) ==
  CASE ev.kind = "text" ->
         entries \o [k \in DOMAIN ev.about |->
                       Entry("answer", ev.turn, ev.about[k])]
    [] ev.kind = "tool" -> Append(entries, Entry("tool", ev.turn, ev.about))
    [] ev.kind = "done" /\ ~AnsweredSince(entries) ->
         entries \o [k \in DOMAIN ev.about |->
                       Entry("answer", ev.turn, ev.about[k])]
    [] ev.kind \in {"failed", "error"} ->
         Append(entries, Entry("error", ev.turn, 0))
    [] OTHER -> entries

Apply(ev) ==
  /\ entries' = Shown(ev)
  /\ chat' = IF ev.kind \in {"session", "done", "error"} /\ open
             THEN [chat EXCEPT !.session = ev.turn] ELSE chat
  /\ running' = IF ev.kind \in {"finished", "failed"} THEN 0 ELSE running

\* Mutant: events of a stopped turn are shown.
HandleLate ==
  /\ inbox # <<>>
  /\ inbox' = Tail(inbox)
  /\ Apply(Head(inbox))
  /\ UNCHANGED <<open, turns, turn, taskVars, cliVars, stopped, folders>>

Handle ==
  /\ inbox # <<>>
  /\ inbox' = Tail(inbox)
  /\ IF Head(inbox).turn = running THEN Apply(Head(inbox))
     ELSE UNCHANGED <<entries, chat, running>>
  /\ UNCHANGED <<open, turns, turn, taskVars, cliVars, stopped, folders>>

-----------------------------------------------------------------------------
(* The task *)

Goto(t, phase) == pc' = [pc EXCEPT ![t] = phase]

\* The task ends, and says so.
Finish(t, how) ==
  /\ Goto(t, "over")
  /\ inbox' = Append(inbox, Event(t, how, <<>>))

\* create_dir_all.
MakeFolder(t) ==
  /\ pc[t] = "preparing"
  /\ \/ Goto(t, "spawning")
        /\ folders' = folders \cup {turn[t].chat}
        /\ UNCHANGED inbox
     \/ Finish(t, "failed") /\ UNCHANGED folders
  /\ UNCHANGED <<uiVars, parser, done, cliVars, stopped>>

\* arguments, which writes into the folder, and spawn.
Spawn(t) ==
  /\ pc[t] = "spawning"
  /\ \/ /\ turn[t].chat \in folders
        /\ Goto(t, "writing")
        /\ cli' = [cli EXCEPT ![t] = "alive"]
        /\ \E p \in Plans : plan' = [plan EXCEPT ![t] = p]
        /\ UNCHANGED inbox
     \/ Finish(t, "failed") /\ UNCHANGED <<cli, plan>>
  /\ UNCHANGED <<uiVars, parser, done, at, stopped, folders>>

\* write_all of the prompt, which the CLI reads or not.
WritePrompt(t) ==
  /\ pc[t] = "writing"
  /\ \/ Goto(t, "reading") /\ UNCHANGED inbox
        /\ UNCHANGED cli
     \/ /\ cli[t] # "alive"
        /\ Finish(t, "failed")
        /\ cli' = [cli EXCEPT ![t] = "dead"]
  /\ UNCHANGED <<uiVars, parser, done, plan, at, stopped, folders>>

TextOf(t, m) == PartsOf(plan[t].messages[m], m)
ToolOf(t, m) == plan[t].messages[m].tool

ResultOf(t) ==
  Event(t, IF plan[t].error THEN "error" ELSE "done", Texts(plan[t]))

\* Mutant: takes the whole message as well as its parts.
EventsTwice(t, line) ==
  CASE line.kind = "init" -> <<Event(t, "session", <<>>)>>
    [] line.kind = "delta" ->
         <<Event(t, "text", <<<<line.message, line.part>>>>)>>
    [] line.kind = "assistant" ->
         <<Event(t, "text", TextOf(t, line.message))>>
    [] line.kind = "result" -> <<ResultOf(t)>>
    [] OTHER -> <<>>

\* Parser::line: a message whose parts came is not shown again, a call of a
\* tool that looks for tools is not shown at all.
Events(t, line) ==
  CASE line.kind = "init" -> <<Event(t, "session", <<>>)>>
    [] line.kind = "delta" ->
         <<Event(t, "text", <<<<line.message, line.part>>>>)>>
    [] line.kind = "assistant" ->
         LET m == line.message
         IN  (IF TextOf(t, m) # <<>> /\ m \notin parser[t].streamed
              THEN <<Event(t, "text", TextOf(t, m))>> ELSE <<>>)
             \o (IF ToolOf(t, m) = "shown"
                 THEN <<Event(t, "tool", m)>> ELSE <<>>)
    [] line.kind = "tool result" /\ line.message \notin parser[t].hidden ->
         <<Event(t, "tool result", line.message)>>
    [] line.kind = "result" -> <<ResultOf(t)>>
    [] OTHER -> <<>>

\* message_start, a delta or a hidden call: what the parser remembers.
Parsed(t, line) ==
  CASE line.kind = "start" -> [parser[t] EXCEPT !.current = line.message]
    [] line.kind = "delta" ->
         [parser[t] EXCEPT !.streamed = @ \cup {parser[t].current}]
    [] line.kind = "assistant" /\ ToolOf(t, line.message) = "hidden" ->
         [parser[t] EXCEPT !.hidden = @ \cup {line.message}]
    [] OTHER -> parser[t]

\* The next line of the CLI, printed and read.
ReadLine(t) ==
  /\ pc[t] = "reading"
  /\ cli[t] = "alive" /\ at[t] < Len(Lines(plan[t]))
  /\ at' = [at EXCEPT ![t] = @ + 1]
  /\ LET line == Lines(plan[t])[at'[t]]
     IN  /\ parser' = [parser EXCEPT ![t] = Parsed(t, line)]
         /\ inbox' = inbox \o Events(t, line)
         /\ done' = [done EXCEPT ![t] = @ \/ line.kind = "result"]
  /\ UNCHANGED <<uiVars, pc, cli, plan, stopped, folders>>

\* A line that is not UTF-8: the task ends and its process with it.
ReadFails(t) ==
  /\ pc[t] = "reading" /\ cli[t] = "alive"
  /\ cli' = [cli EXCEPT ![t] = "dead"]
  /\ Finish(t, "failed")
  /\ UNCHANGED <<uiVars, parser, done, plan, at, stopped, folders>>

EndOfOutput(t) ==
  /\ pc[t] = "reading" /\ cli[t] # "alive"
  /\ Goto(t, "waiting")
  /\ UNCHANGED <<uiVars, parser, done, cliVars, stopped, inbox, folders>>

\* child.wait.
Exited(t) ==
  /\ pc[t] = "waiting" /\ cli[t] \in {"dead", "failed"}
  /\ Finish(t, IF cli[t] = "failed" /\ ~done[t] THEN "failed" ELSE "finished")
  /\ UNCHANGED <<uiVars, parser, done, cliVars, stopped, folders>>

\* The stop signal is looked at while lines are read, only.
Kill(t) ==
  /\ pc[t] = "reading" /\ stopped[t]
  /\ cli' = [cli EXCEPT ![t] = "dead"]
  /\ Finish(t, "finished")
  /\ UNCHANGED <<uiVars, parser, done, plan, at, stopped, folders>>

-----------------------------------------------------------------------------
(* The CLI, besides what it prints *)

\* It closes its output, at its end or before.
CloseOutput(t) ==
  /\ cli[t] = "alive"
  /\ cli' = [cli EXCEPT ![t] = "closed"]
  /\ UNCHANGED <<uiVars, taskVars, plan, at, stopped, inbox, folders>>

Exit(t) ==
  /\ cli[t] = "closed"
  /\ cli' \in {[cli EXCEPT ![t] = "dead"], [cli EXCEPT ![t] = "failed"]}
  /\ UNCHANGED <<uiVars, taskVars, plan, at, stopped, inbox, folders>>

-----------------------------------------------------------------------------
Task(t) ==
  \/ MakeFolder(t) \/ Spawn(t) \/ WritePrompt(t)
  \/ ReadLine(t) \/ EndOfOutput(t) \/ Exited(t) \/ Kill(t)

\* What the CLI does to the task, and by itself.
Cli(t) == ReadFails(t) \/ CloseOutput(t) \/ Exit(t)

Next ==
  \/ Refuse \/ Ask \/ Stop \/ NewChat \/ Handle
  \/ \E t \in Turns : Task(t) \/ Cli(t)

Spec == Init /\ [][Next]_vars

\* The task is polled, the UI handles its messages, a CLI reads its prompt and
\* exits when it closed its output.  That it ever closes it is not assumed.
FairSpec ==
  /\ Spec
  /\ WF_vars(Handle)
  /\ \A t \in Turns : WF_vars(Task(t)) /\ WF_vars(Exit(t))

-----------------------------------------------------------------------------
(* Properties *)

\* What the panel shows as the answer to turn t.
AnswersOf(t) ==
  FlattenSeq([i \in DOMAIN entries |->
                IF entries[i].kind = "answer" /\ entries[i].turn = t
                THEN <<entries[i].about>> ELSE <<>>])

\* "The answer streams in" (docs/user-guide.md): of what the CLI says in
\* parts, whole and in its result, the panel shows each text once and in
\* order, and all of it when the turn ended of itself (Parser, apply).
EachTextOnce ==
  \A t \in Turns :
    LET kinds == {entries[i].kind : i \in {j \in DOMAIN entries :
                                             entries[j].turn = t}}
    IN  /\ IsPrefix(AnswersOf(t), Texts(plan[t]))
        /\ /\ done[t] /\ pc[t] = "over" /\ ~stopped[t] /\ running # t
           /\ "user" \in kinds /\ "error" \notin kinds
           => AnswersOf(t) = Texts(plan[t])

\* "A stopped turn still delivering" (mod.rs) delivers nothing: what follows a
\* question is its own answer.
OwnAnswersOnly ==
  \A i \in DOMAIN entries : entries[i].turn # 0 =>
    \E j \in 1 .. i : /\ entries[j].kind = "user"
                      /\ entries[j].turn = entries[i].turn
                      /\ \A k \in j + 1 .. i : entries[k].kind # "user"

\* The session a chat continues with is its own, in its own folder
\* (Conversation).
OwnSession == open /\ chat.session # 0 => turn[chat.session].chat = chat.number

\* "Until the CLI exits or stop fires (then the CLI is killed)" (cli.rs): a
\* CLI that read its prompt and does not end is killed, whenever the stop came.
StopKills == \A t \in Turns : (stopped[t] /\ cli[t] = "alive") ~> cli[t] # "alive"

\* A turn whose CLI closed its output ends, however it exits (run).
TurnEnds == \A t \in Turns : (running = t /\ cli[t] = "closed") ~> running # t

\* "Follow-up questions continue the same conversation" (docs/user-guide.md):
\* a question of a chat whose CLI has said its session resumes one.
FollowUpsContinue ==
  [][ /\ turns' # turns /\ open
      /\ \E t \in 1 .. turns : turn[t].chat = chat.number /\ at[t] > 0
      => turn'[turns'].resume # 0 ]_vars

\* "Forget the conversation (and its CLI session folder)" (new_chat).
ForgottenIsGone ==
  (\A t \in 1 .. turns : pc[t] = "over" /\ ~(open /\ turn[t].chat = chat.number))
    => folders = {}

=============================================================================
