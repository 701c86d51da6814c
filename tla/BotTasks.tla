------------------------------ MODULE BotTasks ------------------------------
(***************************************************************************)
(* The chat-bot commands of openqti that schedule work (command.c):        *)
(* schedule_reminder, schedule_wakeup, suspend_call_notifications (do not  *)
(* disturb), delete_task, command 48, and the schedule_call thread, with   *)
(* the task queue they feed.  The task queue, its scheduler thread and     *)
(* set_pending_call_flag are outside src/ and are modelled from what the   *)
(* commands expect of them.                                                *)
(*                                                                          *)
(* A command is the sequence of its words (single spaces).  A word is      *)
(* abstracted to what the parsers ask of it: which of the probe strings    *)
(* strstr finds in it, its strlen, whether strchr finds ':', the lengths   *)
(* before and from the ':', and the values atoi / get_int_from_str give.   *)
(***************************************************************************)
EXTENDS Integers, Sequences, SequencesExt, FiniteSets

CONSTANTS
  MaxTasks,      \* bound: slots of the task queue (add_task fails when full)
  MaxCmds,       \* bound: commands the user sends
  StackValues,   \* what an uninitialised hh / mm on the stack may hold
  HistorySize    \* bound: entries of cmd_runtime.cmd_history (1024 in the code)

Undef == -1          \* a field of scheduler_task that no case assigned

-----------------------------------------------------------------------------
(* Words                                                                   *)

Plain(p, n)  == [probes |-> p, len |-> n, colon |-> FALSE, pre |-> 0, post |-> 0,
                 hh |-> 0, mm |-> 0]
Hours(v, n)  == [Plain({}, n) EXCEPT !.hh = v]
\* "h:m": pre is the offset of ':', post is strlen from ':' on.
Clock(h, ph, m, pm) == [probes |-> {}, len |-> ph + 1 + pm, colon |-> TRUE,
                        pre |-> ph, post |-> pm + 1, hh |-> h, mm |-> m]

Word ==
  ("remind" :> Plain({"remind", "in"}, 6)) @@ ("me" :> Plain({"me"}, 2))
  @@ ("at" :> Plain({"at"}, 2)) @@ ("in" :> Plain({"in"}, 2))
  @@ ("on" :> Plain({}, 2)) @@ ("wake" :> Plain({"wake"}, 4))
  @@ ("up" :> Plain({"up"}, 2)) @@ ("leave" :> Plain({}, 5))
  @@ ("alone" :> Plain({}, 5)) @@ ("for" :> Plain({}, 3))
  @@ ("dinner" :> Plain({"in"}, 6))
  @@ ("0" :> Hours(0, 1)) @@ ("7" :> Hours(7, 1)) @@ ("24" :> Hours(24, 2))
  @@ ("99" :> Hours(99, 2)) @@ ("100" :> Hours(100, 3))
  @@ ("7:05" :> Clock(7, 1, 5, 2)) @@ ("25:75" :> Clock(25, 2, 75, 2))
  @@ ("7:75" :> Clock(7, 1, 75, 2)) @@ ("7:100" :> Clock(7, 1, 100, 3))

Times == {"0", "7", "24", "99", "100", "7:05", "25:75", "7:75", "7:100"}
Hows  == {"at", "in", "on"}

\* A command cut after its k-th word or later.  parse_command dispatches on
\* the leading words (partial_commands, whose texts are outside src/), so
\* every command has at least those.
Cut(s, k) == {SubSeq(s, 1, n) : n \in k .. Len(s)}

ReminderCmds == UNION {Cut(<<"remind", "me", h, t, "dinner">>, 2) : h \in Hows, t \in Times}
WakeupCmds   == UNION {Cut(<<"wake", "me", "up", h, t, "dinner">>, 3) : h \in Hows, t \in Times}
DndCmds      == UNION {Cut(<<"leave", "me", "alone", "for", t>>, 3)
                       \cup Cut(<<"leave", "me", "alone", t>>, 3) : t \in Times}

\* strstr((char *)command, p): the probe occurs in some word.
CmdHas(cmd, p) == \E i \in 1 .. Len(cmd) : p \in Word[cmd[i]].probes

-----------------------------------------------------------------------------
(* The parsers: one step per word, as the for loop over phrase_size runs   *)
(* its switch (i); an early return ends the scan.                          *)

Start(mode) == [err |-> FALSE, mode |-> mode, hh |-> Undef, mm |-> Undef]
Fail(st) == [st EXCEPT !.err = TRUE]
SetTime(st, h, m) == [st EXCEPT !.hh = h, !.mm = m]

\* schedule_reminder, cases 0-3 (case 4 only copies the text).
ReminderStep(cmd, st, i) ==
  LET w == Word[cmd[i]] IN
  IF st.err THEN st ELSE
  CASE i = 1 -> IF "remind" \in w.probes THEN st ELSE Fail(st)
    [] i = 2 -> IF "me" \in w.probes THEN st ELSE Fail(st)
    [] i = 3 -> IF "at" \in w.probes THEN st
                ELSE IF CmdHas(cmd, "in") THEN [st EXCEPT !.mode = "in"]
                ELSE Fail(st)
    [] i = 4 -> IF w.colon
                THEN IF /\ st.mode = "at"
                        /\ w.hh > 23 \/ w.mm > 59
                        /\ ~(w.hh > 23 /\ w.mm > 59)
                     THEN Fail(st) ELSE SetTime(st, w.hh, w.mm)
                ELSE IF w.len > 2 THEN Fail(st) ELSE SetTime(st, w.hh, 0)
    [] OTHER -> st

\* schedule_wakeup, cases 0-4.
WakeupStep(cmd, st, i) ==
  LET w == Word[cmd[i]] IN
  IF st.err THEN st ELSE
  CASE i = 1 -> IF "wake" \in w.probes THEN st ELSE Fail(st)
    [] i = 2 -> IF "me" \in w.probes THEN st ELSE Fail(st)
    [] i = 3 -> IF "up" \in w.probes THEN st ELSE Fail(st)
    [] i = 4 -> IF "at" \in w.probes THEN st
                ELSE IF CmdHas(cmd, "in") THEN [st EXCEPT !.mode = "in"]
                ELSE Fail(st)
    [] i = 5 -> IF w.colon
                THEN IF \/ w.pre > 2 \/ w.post > 3
                        \/ /\ st.mode = "at"
                           /\ w.hh > 23 \/ w.mm > 59
                           /\ ~(w.hh > 23 /\ w.mm > 59)
                     THEN Fail(st) ELSE SetTime(st, w.hh, w.mm)
                ELSE IF w.len > 2 \/ (st.mode = "at" /\ w.hh > 24)
                     THEN Fail(st) ELSE SetTime(st, w.hh, 0)
    [] OTHER -> st

\* suspend_call_notifications: words 0-2 are not looked at; case 3.
DndStep(cmd, st, i) ==
  LET w == Word[cmd[i]] IN
  IF st.err \/ i # 4 THEN st
  ELSE IF w.colon
       THEN IF w.pre > 2 \/ w.post > 3 THEN Fail(st) ELSE SetTime(st, w.hh, w.mm)
       ELSE IF w.len > 2 \/ w.hh = 0 THEN Fail(st) ELSE SetTime(st, w.hh, 0)

\* The word loop: phrase_size words, each through the switch.
ScanReminder(cmd) == FoldLeft(LAMBDA st, i : ReminderStep(cmd, st, i), Start("at"), [i \in 1 .. Len(cmd) |-> i])
ScanWakeup(cmd)   == FoldLeft(LAMBDA st, i : WakeupStep(cmd, st, i), Start("at"), [i \in 1 .. Len(cmd) |-> i])
ScanDnd(cmd)      == FoldLeft(LAMBDA st, i : DndStep(cmd, st, i), Start("in"), [i \in 1 .. Len(cmd) |-> i])

\* A field no case assigned holds whatever the stack held.
Realize(x) == IF x = Undef THEN StackValues ELSE {x}

-----------------------------------------------------------------------------
(* The state                                                               *)

Slots    == 1 .. MaxTasks
None     == [type |-> "none"]
CallPcs  == {"none", "spawned", "sleeping"}
Delays   == {0, 5}                    \* what strtol reads after the command

\* The bot_commands / partial_commands ids parse_command dispatches on.
CmdId == [reminder |-> 103, wakeup |-> 104, delete |-> 105, dnd |-> 106,
          undnd |-> 48, call |-> 102]

VARIABLES
  history,      \* cmd_runtime.cmd_history
  pos,          \* cmd_runtime.cmd_position
  warned,       \* the last reply began with a repeated_cmd answer
  tasks,        \* the task queue: per slot a task_p or None
  dnd,          \* set_do_not_disturb
  pendingCall,  \* set_pending_call_flag
  callPc,       \* the schedule_call thread
  buf,          \* the command buffer parse_command was handed
  cmds          \* commands sent so far

histVars == <<history, pos, warned>>
vars == <<histVars, tasks, dnd, pendingCall, callPc, buf, cmds>>

\* find_cmd_history_match: the entries from cmd_position down to
\* cmd_position - 5 that equal the id, once more than five are stored.
HistoryMatch(id) ==
  IF pos > 5 THEN Cardinality({i \in (pos - 5) .. pos : history[i] = id}) ELSE 0

\* add_to_history: wrap to 0 at 1023 (HistorySize - 1), store, advance.
AddToHistory(id) ==
  LET p == IF pos >= HistorySize - 1 THEN 0 ELSE pos IN
  /\ history' = [history EXCEPT ![p] = id]
  /\ pos' = p + 1

\* parse_command around the dispatch: the repeat check, then the history.
ParseCommand(id) ==
  /\ warned' = (HistoryMatch(id) >= 5)
  /\ AddToHistory(id)

Free == {s \in Slots : tasks[s] = None}

\* add_task: the first free slot, or a failure when the queue is full.
AddTask(t) == IF Free = {} THEN UNCHANGED tasks
              ELSE tasks' = [tasks EXCEPT ![CHOOSE s \in Free : \A o \in Free : s <= o] = t]

\* remove_all_tasks_by_type
WithoutType(ty) == [s \in Slots |-> IF tasks[s] # None /\ tasks[s].type = ty
                                    THEN None ELSE tasks[s]]

Task(ty, st) == {[type |-> ty, mode |-> st.mode, hh |-> h, mm |-> m] :
                   h \in Realize(st.hh), m \in Realize(st.mm)}

Send(kind, c) == /\ cmds < MaxCmds /\ cmds' = cmds + 1
                 /\ buf' = [kind |-> kind, words |-> c, delay |-> 0]
                 /\ ParseCommand(CmdId[kind])

-----------------------------------------------------------------------------
(* The command thread                                                      *)

\* Queue the task a scan yields, unless a case returned early; a full queue
\* only changes the reply.
Schedule(st) == IF st.err THEN UNCHANGED tasks
                ELSE \E t \in Task("call", st) : AddTask(t)

\* schedule_reminder
ScheduleReminder ==
  /\ \E c \in ReminderCmds : Send("reminder", c) /\ Schedule(ScanReminder(c))
  /\ UNCHANGED <<dnd, pendingCall, callPc>>

\* schedule_wakeup
ScheduleWakeup ==
  /\ \E c \in WakeupCmds : Send("wakeup", c) /\ Schedule(ScanWakeup(c))
  /\ UNCHANGED <<dnd, pendingCall, callPc>>

\* suspend_call_notifications: DND on, earlier DND_CLEAR tasks removed, the
\* new one added; DND off again when the queue is full.
SuspendCallNotifications ==
  /\ \E c \in DndCmds :
       LET st   == ScanDnd(c)
           rest == WithoutType("dnd_clear")
           free == {s \in Slots : rest[s] = None}
       IN /\ Send("dnd", c)
          /\ IF st.err THEN UNCHANGED <<tasks, dnd>>
             ELSE \E t \in Task("dnd_clear", st) :
                    IF free = {} THEN tasks' = rest /\ dnd' = FALSE
                    ELSE /\ tasks' = [rest EXCEPT ![CHOOSE s \in free : \A o \in free : s <= o] = t]
                         /\ dnd' = TRUE
  /\ UNCHANGED <<pendingCall, callPc>>

\* delete_task: remove_task(taskID); an unknown id only changes the reply.
DeleteTask ==
  /\ Send("delete", <<>>)
  /\ \E s \in Slots : tasks' = [tasks EXCEPT ![s] = None]
  /\ UNCHANGED <<dnd, pendingCall, callPc>>

\* Command 48: DND off and its timers removed.
ClearDnd ==
  /\ Send("undnd", <<>>)
  /\ dnd' = FALSE /\ tasks' = WithoutType("dnd_clear")
  /\ UNCHANGED <<pendingCall, callPc>>

\* Command 102: schedule_call runs on its own thread over the same buffer;
\* parse_command sleeps 2 s and returns, and the next command reuses it.
SpawnScheduleCall ==
  /\ callPc = "none" /\ cmds < MaxCmds /\ cmds' = cmds + 1
  /\ ParseCommand(CmdId["call"])
  /\ \E d \in Delays : buf' = [kind |-> "call", words |-> <<>>, delay |-> d]
  /\ callPc' = "spawned"
  /\ UNCHANGED <<tasks, dnd, pendingCall>>

-----------------------------------------------------------------------------
(* The schedule_call thread                                                *)

\* It looks for the command in the buffer and reads the delay; no command
\* or no positive delay is only a reply.
ScheduleCallRead ==
  /\ callPc = "spawned"
  /\ callPc' = IF buf.kind = "call" /\ buf.delay > 0 THEN "sleeping" ELSE "none"
  /\ UNCHANGED <<tasks, dnd, pendingCall, buf, cmds>>
  /\ UNCHANGED histVars

\* After sleep(delaysec): set_pending_call_flag(true).
ScheduleCallWake ==
  /\ callPc = "sleeping"
  /\ pendingCall' = TRUE /\ callPc' = "none"
  /\ UNCHANGED <<tasks, dnd, buf, cmds>>
  /\ UNCHANGED histVars

-----------------------------------------------------------------------------
(* The environment: the task scheduler and the rmnet injector              *)

TaskDue ==
  /\ \E s \in Slots :
       /\ tasks[s] # None
       /\ tasks' = [tasks EXCEPT ![s] = None]
       /\ IF tasks[s].type = "call" THEN pendingCall' = TRUE /\ UNCHANGED dnd
          ELSE dnd' = FALSE /\ UNCHANGED pendingCall
  /\ UNCHANGED <<callPc, buf, cmds>>
  /\ UNCHANGED histVars

CallPlaced ==
  /\ pendingCall /\ pendingCall' = FALSE
  /\ UNCHANGED <<tasks, dnd, callPc, buf, cmds>>
  /\ UNCHANGED histVars

-----------------------------------------------------------------------------
Init ==
  /\ history = [i \in 0 .. HistorySize - 1 |-> 0]
  /\ pos = 0 /\ warned = FALSE
  /\ tasks = [s \in Slots |-> None]
  /\ dnd = FALSE /\ pendingCall = FALSE
  /\ callPc = "none"
  /\ buf = [kind |-> "none", words |-> <<>>, delay |-> 0]
  /\ cmds = 0

Next ==
  \/ ScheduleReminder \/ ScheduleWakeup \/ SuspendCallNotifications
  \/ DeleteTask \/ ClearDnd \/ SpawnScheduleCall
  \/ ScheduleCallRead \/ ScheduleCallWake
  \/ TaskDue \/ CallPlaced

Spec == Init /\ [][Next]_vars

-----------------------------------------------------------------------------
(* Properties                                                              *)

TaskTimes == {"at", "in"}

TypeOK ==
  /\ \A s \in Slots : tasks[s].type \in {"none", "call", "dnd_clear"}
  /\ dnd \in BOOLEAN /\ pendingCall \in BOOLEAN
  /\ callPc \in CallPcs
  /\ cmds \in 0 .. MaxCmds

\* A task set to run at a time of day is at a time the day has: the
\* parsers' own replies reject an hour past 23 and a minute past 59
\* ("there's enough hours in a day"), so none such is ever queued.
TasksAtRealTimes ==
  \A s \in Slots : tasks[s] # None /\ tasks[s].mode = "at"
                     => tasks[s].hh \in 0 .. 23 /\ tasks[s].mm \in 0 .. 59

=============================================================================
