------------------------------ MODULE CallAudio ------------------------------
(***************************************************************************)
(* The call-audio state machine of openqti (src/.../audio.c) with the       *)
(* threads it spawns and the bot commands that steer it.                    *)
(*                                                                          *)
(*  - handle_call_pkt runs on the rmnet proxy thread, one voice indication *)
(*    at a time; the modem's call lifecycle that produces the indications  *)
(*    is part of the same step (Indication).                               *)
(*  - incall_recording_tread and play_alerting_tone are fire-and-forget    *)
(*    pthreads; each is a per-thread pc over the points where it reads or  *)
(*    writes audio_runtime_state.                                           *)
(*  - parse_command cases 36..43 run on the command thread.                *)
(* Mixer controls, sample rates, file names and message texts are left out:*)
(* no property here tells them apart.                                       *)
(***************************************************************************)
EXTENDS Naturals, FiniteSets

CONSTANTS
  CallIds,          \* call ids the baseband puts in a call-status indication
  MaxActiveCalls,   \* MAX_ACTIVE_CALLS, the size of audio_runtime_state.calls
  ModeCodes,        \* call_mode codes the modem reports (GSM, VOLTE, ...)
  RecThreads,       \* bound: recording threads alive at once
  ToneThreads,      \* bound: alert-tone threads alive at once
  ExternalCodec,    \* use_external_codec()
  IoCanFail,        \* pcm_open / set_params / fopen may fail
  StorageCanRunOut, \* watch_storage() may report the disk full
  AutoRecModes,     \* automatic-recording modes the user may select
  ToneSettings,     \* custom-alert-tone settings the user may select
  UserRecords       \* the user sends the record commands 41..43

\* Slots of the table; an id outside them is memory past the array.
Slots == 0 .. MaxActiveCalls - 1
Cells == Slots \cup CallIds

\* The call_state codes handle_call_pkt switches on; "OTHER" is a code it
\* has no case for.
SetupStates == {"PREPARING", "ATTEMPT", "ORIGINATING", "RINGING"}
EndStates   == {"DISCONNECTING", "HANGUP"}
CallStates  == SetupStates \cup EndStates \cup
               {"ESTABLISHED", "ON_HOLD", "WAITING", "ALERTING", "OTHER"}

\* current_call_state: CALL_STATUS_IDLE, CALL_STATUS_CS, CALL_STATUS_VOLTE
AudioStates == {"IDLE", "CS", "VOLTE"}
RecPcs  == {"none", "check", "claim", "loop", "chunk", "fault"}
TonePcs == {"none", "loop", "play"}

NoCall == [state |-> "NONE", mode |-> "NONE"]

VARIABLES
  calls,        \* audio_runtime_state.calls[]: state and call_type per cell
  audio,        \* audio_runtime_state.current_call_state
  activeCall,   \* audio_runtime_state.current_active_call_id
  route,        \* profiles whose voice TX/RX mixer controls are set to 1
  alerting,     \* audio_runtime_state.is_alerting
  recordNext,   \* audio_runtime_state.record_next_call
  recording,    \* audio_runtime_state.is_recording
  autoRec,      \* is_automatic_call_recording_enabled(): 0, 1 or 2
  customTone,   \* use_custom_alert_tone()
  recPc,        \* where each recording thread is
  recFile,      \* its file_rx: "none", "open", "null" or "closed"
  recWanted,    \* history: the user asked for this recording
  tonePc        \* where each alert-tone thread is

recVars  == <<recPc, recFile, recWanted>>
userVars == <<autoRec, customTone>>
vars == <<calls, audio, activeCall, route, alerting, recordNext, recording,
          userVars, recVars, tonePc>>

IoResults == IF IoCanFail THEN BOOLEAN ELSE {TRUE}

\* A recording thread that reaches "fault" has used a closed FILE and a
\* freed header: glibc aborts the daemon, and no thread takes a step after.
Crashed == \E t \in RecThreads : recPc[t] = "fault"

-----------------------------------------------------------------------------
(* start_audio / stop_audio, as functions of [audio, active, route].      *)

\* stop_audio: the active id is zeroed first; with no call in progress it
\* returns there, else it sets the controls of current_call_state to 0.
StopAudio(a) ==
  IF a.audio = "IDLE" THEN [a EXCEPT !.active = 0]
  ELSE [audio |-> "IDLE", active |-> 0, route |-> a.route \ {a.audio}]

\* start_audio(type): same profile -> nothing; another profile -> stop_audio
\* first; the controls of type are set before the PCMs open, and a PCM setup
\* failure returns -EINVAL with the state left IDLE.
StartAudio(a, type, ok) ==
  IF a.audio # "IDLE" /\ a.audio = type THEN a
  ELSE LET s == IF a.audio # "IDLE" THEN StopAudio(a) ELSE a
           b == [s EXCEPT !.route = @ \cup {type}]
       IN  IF ok THEN [b EXCEPT !.audio = type] ELSE b

\* Mutant: the modem's call_mode code handed to start_audio unmapped.
AudioModeRaw(code) == code

\* The mode switch of handle_call_pkt: only VoLTE is not circuit switched.
AudioMode(code) == IF code = "VOLTE" THEN "VOLTE" ELSE "CS"

SetAudio(a) == audio' = a.audio /\ activeCall' = a.active /\ route' = a.route

Cur == [audio |-> audio, active |-> activeCall, route |-> route]

\* pthread_create of incall_recording_tread into a free thread slot.
SpawnRecorder(wanted) ==
  \E t \in RecThreads :
    /\ recPc[t] = "none"
    /\ recPc' = [recPc EXCEPT ![t] = "check"]
    /\ recFile' = [recFile EXCEPT ![t] = "none"]
    /\ recWanted' = [recWanted EXCEPT ![t] = wanted]

SpawnTone ==
  \E t \in ToneThreads :
    /\ tonePc[t] = "none"
    /\ tonePc' = [tonePc EXCEPT ![t] = "loop"]

-----------------------------------------------------------------------------
(* handle_call_pkt: one case per branch of its switch on call_state.      *)

OnSetup(code, ok) ==
  /\ alerting' = FALSE
  /\ SetAudio(StartAudio(Cur,
                         AudioMode(code), ok))
  /\ UNCHANGED <<recordNext, recVars, tonePc>>

OnEstablished(id, code, ok) ==
  LET a0 == Cur
      a1 == IF ExternalCodec THEN StopAudio(a0) ELSE a0
  IN /\ alerting' = FALSE
     /\ SetAudio(StartAudio([a1 EXCEPT !.active = id], AudioMode(code), ok))
     /\ IF recordNext \/ autoRec > 0
          THEN SpawnRecorder(recordNext) /\ recordNext' = FALSE
          ELSE UNCHANGED <<recordNext, recVars>>
     /\ UNCHANGED tonePc

OnHoldOrWaiting ==
  /\ alerting' = FALSE
  /\ UNCHANGED <<audio, activeCall, route, recordNext, recVars, tonePc>>

\* CALL_STATE_ALERTING: start audio, or stop it and spawn the tone thread,
\* or (already alerting) only log.
OnAlerting(code, ok) ==
  \/ /\ ~customTone
     /\ SetAudio(StartAudio(Cur,
                            AudioMode(code), ok))
     /\ UNCHANGED <<alerting, tonePc>>
  \/ /\ customTone /\ ~alerting
     /\ alerting' = TRUE
     /\ SetAudio(StopAudio(Cur))
     /\ SpawnTone
  \/ /\ customTone /\ alerting
     /\ UNCHANGED <<alerting, audio, activeCall, route, tonePc>>

\* Mutant: audio torn down at every hangup, whatever calls_active says.
OnDisconnectAlways(n) ==
  /\ SetAudio(StopAudio(Cur))
  /\ alerting' = FALSE
  /\ UNCHANGED <<recordNext, recVars, tonePc>>

\* DISCONNECTING / HANGUP: audio is torn down only when calls_active < 2.
OnDisconnect(n) ==
  /\ IF n < 2 THEN SetAudio(StopAudio(Cur))
              ELSE UNCHANGED <<audio, activeCall, route>>
  /\ alerting' = FALSE
  /\ UNCHANGED <<recordNext, recVars, tonePc>>

HandleCallPkt(id, st, code, n) ==
  /\ calls' = [calls EXCEPT ![id] = [state |-> st, mode |-> code]]
  /\ \E ok \in IoResults :
       \/ st \in SetupStates /\ OnSetup(code, ok)
       \/ st = "ESTABLISHED" /\ OnEstablished(id, code, ok)
       \/ st \in {"ON_HOLD", "WAITING"} /\ OnHoldOrWaiting
       \/ st = "ALERTING" /\ OnAlerting(code, ok)
                          /\ UNCHANGED <<recordNext, recVars>>
       \/ st \in EndStates /\ OnDisconnect(n)
       \/ st = "OTHER" /\ OnHoldOrWaiting
  /\ UNCHANGED <<recording, userVars>>

-----------------------------------------------------------------------------
(* The modem: the call lifecycle that produces the indications.  At most  *)
(* one call is being set up, ringing or talking; the others are held,     *)
(* waiting or ending.  An indication may repeat a call's current state.   *)

Live(id) == calls[id].state \notin {"NONE", "HANGUP"}
Others(id) == {j \in CallIds \ {id} : Live(j)}
Foreground == {"ORIGINATING", "OTHER", "ALERTING", "RINGING", "ESTABLISHED"}
NoOtherIn(id, S) == \A j \in Others(id) : calls[j].state \notin S

\* The states the modem may report next for call id.
NextStates(id) ==
  LET cur == calls[id].state IN
  IF ~Live(id)
  THEN (IF NoOtherIn(id, Foreground) THEN {"ORIGINATING"} ELSE {})
       \cup (IF Others(id) = {} THEN {"RINGING"} ELSE {})
       \cup (IF Others(id) # {} /\ NoOtherIn(id, {"RINGING", "WAITING"})
               THEN {"WAITING"} ELSE {})
  ELSE {cur, "HANGUP"}
       \cup (IF cur # "DISCONNECTING" THEN {"DISCONNECTING"} ELSE {})
       \cup (CASE cur \in {"ORIGINATING", "OTHER"} ->
                    {"OTHER", "ALERTING", "ESTABLISHED"}
               [] cur = "ALERTING" -> {"ESTABLISHED"}
               [] cur = "ESTABLISHED" -> {"ON_HOLD"}
               [] cur \in {"RINGING", "WAITING", "ON_HOLD"}
                    /\ NoOtherIn(id, Foreground) -> {"ESTABLISHED"}
               [] OTHER -> {})

\* The mode code of the report: a new call has any; a talking VoLTE call
\* may be handed over to the circuit-switched network (SRVCC).
NextModes(id, st) ==
  IF ~Live(id) THEN ModeCodes
  ELSE IF calls[id].state = "ESTABLISHED" /\ st = "ESTABLISHED"
               /\ calls[id].mode = "VOLTE"
       THEN ModeCodes
       ELSE {calls[id].mode}

\* calls_active: the calls the indication lists, the reported one included.
CallsActive(id) == Cardinality(Others(id)) + 1

Indication ==
  /\ ~Crashed
  /\ \E id \in CallIds :
       \E st \in NextStates(id) :
         \E code \in NextModes(id, st) :
           HandleCallPkt(id, st, code, CallsActive(id))

-----------------------------------------------------------------------------
(* incall_recording_tread                                                  *)

\* A thread returns: its slot is free again.
RecExit(t) ==
  /\ recPc' = [recPc EXCEPT ![t] = "none"]
  /\ recFile' = [recFile EXCEPT ![t] = "none"]
  /\ recWanted' = [recWanted EXCEPT ![t] = FALSE]

\* Lines 311-316: refuse to start when is_recording is already set.
RecCheck(t) ==
  /\ ~Crashed
  /\ recPc[t] = "check"
  /\ IF recording
       THEN RecExit(t)
       ELSE /\ recPc' = [recPc EXCEPT ![t] = "claim"]
            /\ UNCHANGED <<recFile, recWanted>>
  /\ UNCHANGED <<calls, audio, activeCall, route, alerting, recordNext, recording,
                 userVars, tonePc>>

\* Lines 324-356: set is_recording, open the capture PCM and the file.  A
\* pcm_open or set_params failure returns with is_recording still set.
RecClaim(t) ==
  /\ ~Crashed
  /\ recPc[t] = "claim"
  /\ recording' = TRUE
  /\ \E pcmOk \in IoResults, fileOk \in IoResults :
       IF pcmOk
         THEN /\ recPc' = [recPc EXCEPT ![t] = "loop"]
              /\ recFile' = [recFile EXCEPT ![t] = IF fileOk THEN "open" ELSE "null"]
              /\ UNCHANGED recWanted
         ELSE RecExit(t)
  /\ UNCHANGED <<calls, audio, activeCall, route, alerting, recordNext, userVars,
                 tonePc>>

\* Mutant: the thread returns without clearing is_recording.
RecLoopKeepsFlag(t) ==
  /\ ~Crashed
  /\ recPc[t] = "loop"
  /\ IF audio = "IDLE" \/ recFile[t] = "null"
       THEN RecExit(t) /\ UNCHANGED <<recording, recordNext>>
       ELSE /\ recPc' = [recPc EXCEPT ![t] =
                           IF recFile[t] = "closed" THEN "fault" ELSE "chunk"]
            /\ UNCHANGED <<recording, recordNext, recFile, recWanted>>
  /\ UNCHANGED <<calls, audio, activeCall, route, alerting, userVars, tonePc>>

\* The outer loop head (line 382) and the file_rx NULL check (383-389).
\* A second turn runs on the file closed and the header freed by the first.
RecLoop(t) ==
  /\ ~Crashed
  /\ recPc[t] = "loop"
  /\ IF audio = "IDLE" \/ recFile[t] = "null"
       THEN /\ RecExit(t)
            /\ recording' = FALSE
            /\ recordNext' = FALSE
       ELSE /\ recPc' = [recPc EXCEPT ![t] =
                           IF recFile[t] = "closed" THEN "fault" ELSE "chunk"]
            /\ UNCHANGED <<recording, recordNext, recFile, recWanted>>
  /\ UNCHANGED <<calls, audio, activeCall, route, alerting, userVars, tonePc>>

\* What lines 452-479 do with the file: rename it, remove it or keep it.
Fate == IF autoRec > 0 /\ recordNext THEN "renamed"
        ELSE IF autoRec = 2 THEN "discarded" ELSE "kept"

\* Mutant: the chunk loop tests only the storage watcher, not the call.
RecChunkNoCallCheck(t) ==
  /\ ~Crashed
  /\ recPc[t] = "chunk"
  /\ StorageCanRunOut
  /\ recPc' = [recPc EXCEPT ![t] = "loop"]
  /\ recFile' = [recFile EXCEPT ![t] = "closed"]
  /\ UNCHANGED <<calls, audio, activeCall, route, alerting, recordNext, recording,
                 userVars, recWanted, tonePc>>

\* The do-while of lines 407-432 leaves when the call is over or storage
\* runs out; lines 436-479 close the file and rename, remove or keep it
\* (Fate).
RecChunk(t) ==
  /\ ~Crashed
  /\ recPc[t] = "chunk"
  /\ \E kill \in IF StorageCanRunOut THEN BOOLEAN ELSE {FALSE} :
       audio = "IDLE" \/ kill
  /\ recPc' = [recPc EXCEPT ![t] = "loop"]
  /\ recFile' = [recFile EXCEPT ![t] = "closed"]
  /\ UNCHANGED <<calls, audio, activeCall, route, alerting, recordNext, recording,
                 userVars, recWanted, tonePc>>

-----------------------------------------------------------------------------
(* play_alerting_tone                                                      *)

\* Mutant: the outer loop does not test is_alerting.
ToneLoopIgnoresFlag(t) ==
  /\ ~Crashed
  /\ tonePc[t] = "loop"
  /\ \E ok \in IoResults :
       tonePc' = [tonePc EXCEPT ![t] = IF ok THEN "play" ELSE "none"]
  /\ UNCHANGED <<calls, audio, activeCall, route, alerting, recordNext, recording,
                 userVars, recVars>>

\* Line 154: loop while is_alerting; the PCM or the tone file may not open.
ToneLoop(t) ==
  /\ ~Crashed
  /\ tonePc[t] = "loop"
  /\ \E ok \in IoResults :
       tonePc' = [tonePc EXCEPT ![t] =
                    IF alerting /\ ok THEN "play" ELSE "none"]
  /\ UNCHANGED <<calls, audio, activeCall, route, alerting, recordNext, recording,
                 userVars, recVars>>

\* Lines 208-227: chunks play until the file ends or is_alerting drops;
\* either way the thread closes the PCM and goes back to line 154.
TonePlay(t) ==
  /\ ~Crashed
  /\ tonePc[t] = "play"
  /\ \E ok \in IoResults :
       tonePc' = [tonePc EXCEPT ![t] = IF ok THEN "loop" ELSE "none"]
  /\ UNCHANGED <<calls, audio, activeCall, route, alerting, recordNext, recording,
                 userVars, recVars>>

-----------------------------------------------------------------------------
(* parse_command, on the command thread                                    *)

\* Cases 42 and 43: record_next_call(true / false).
CmdRecordNext(b) ==
  /\ ~Crashed
  /\ recordNext' = b
  /\ UNCHANGED <<calls, audio, activeCall, route, alerting, recording, userVars,
                 recVars, tonePc>>

\* Case 41: record_current_call(), refused with -EINVAL when idle.
CmdRecordCurrent ==
  /\ ~Crashed
  /\ audio # "IDLE"
  /\ recordNext' = TRUE
  /\ SpawnRecorder(TRUE)
  /\ UNCHANGED <<calls, audio, activeCall, route, alerting, recording, userVars,
                 tonePc>>

\* Cases 38, 39, 40: set_automatic_call_recording(2 / 1 / 0).
CmdAutoRecord(m) ==
  /\ ~Crashed
  /\ autoRec' = m
  /\ UNCHANGED <<calls, audio, activeCall, route, alerting, recordNext, recording,
                 customTone, recVars, tonePc>>

\* Cases 36 and 37: set_custom_alert_tone(true / false).
CmdCustomTone(b) ==
  /\ ~Crashed
  /\ customTone' = b
  /\ UNCHANGED <<calls, audio, activeCall, route, alerting, recordNext, recording,
                 autoRec, recVars, tonePc>>

-----------------------------------------------------------------------------
(* set_audio_runtime_default and the static zero of the table.            *)
Init ==
  /\ calls = [c \in Cells |-> NoCall]
  /\ audio = "IDLE"
  /\ activeCall = 0
  /\ route = {}
  /\ alerting = FALSE
  /\ recordNext = FALSE
  /\ recording = FALSE
  /\ autoRec \in AutoRecModes
  /\ customTone \in ToneSettings
  /\ recPc = [t \in RecThreads |-> "none"]
  /\ recFile = [t \in RecThreads |-> "none"]
  /\ recWanted = [t \in RecThreads |-> FALSE]
  /\ tonePc = [t \in ToneThreads |-> "none"]

Threads ==
  \E t \in RecThreads : RecCheck(t) \/ RecClaim(t) \/ RecLoop(t) \/ RecChunk(t)

Tones == \E t \in ToneThreads : ToneLoop(t) \/ TonePlay(t)

User ==
  \/ UserRecords /\ \E b \in BOOLEAN : CmdRecordNext(b)
  \/ UserRecords /\ CmdRecordCurrent
  \/ \E b \in ToneSettings : CmdCustomTone(b)
  \/ \E m \in AutoRecModes : CmdAutoRecord(m)

Next == Indication \/ Threads \/ Tones \/ User

\* The spawned threads are scheduled; the modem and the user need not act.
Fairness ==
  /\ \A t \in RecThreads :
       WF_vars(RecCheck(t) \/ RecClaim(t) \/ RecLoop(t) \/ RecChunk(t))
  /\ \A t \in ToneThreads : WF_vars(ToneLoop(t) \/ TonePlay(t))

Spec == Init /\ [][Next]_vars /\ Fairness

-----------------------------------------------------------------------------
(* Properties                                                              *)

TypeOK ==
  /\ calls \in [Cells -> [state : CallStates \cup {"NONE"},
                          mode : ModeCodes \cup {"NONE"}]]
  /\ audio \in AudioStates
  /\ activeCall \in Cells
  /\ route \subseteq {"CS", "VOLTE"}
  /\ {alerting, recordNext, recording, customTone} \subseteq BOOLEAN
  /\ autoRec \in {0, 1, 2}
  /\ recPc \in [RecThreads -> RecPcs]
  /\ recFile \in [RecThreads -> {"none", "open", "null", "closed"}]
  /\ recWanted \in [RecThreads -> BOOLEAN]
  /\ tonePc \in [ToneThreads -> TonePcs]

\* While a call is established the voice path is up in that call's profile:
\* start_audio's profile switch, the external-codec reset, the custom tone's
\* stop_audio and the calls_active < 2 rule at hangup never leave a talking
\* call without audio or in the wrong profile (spec: call-waiting must not
\* tear down audio prematurely).
AudioFollowsCall ==
  \A c \in CallIds :
    calls[c].state = "ESTABLISHED" => audio = AudioMode(calls[c].mode)

\* The voice mixer controls are on for exactly the profile current_call_state
\* names, and for none when it is idle: stop_audio turns off the controls of
\* the profile it leaves before start_audio turns on the next, through the
\* SRVCC profile switch, the external-codec reset and the custom tone's
\* stop_audio, so the codec is never routed into a voice session that is
\* not running.  No run checks it: with IoCanFail TRUE a failed start_audio
\* breaks it in one step (controls set at 813-851, then -EINVAL, and
\* stop_audio returns at 719), and with IoCanFail FALSE it holds by the shape
\* of StartAudio and StopAudio.
RouteFollowsAudio == route = IF audio = "IDLE" THEN {} ELSE {audio}

\* current_active_call_id names the established call (spec: on Established
\* "mark this slot as the active call id"); recordings take their file name
\* from it.
ActiveCallIsEstablished ==
  \A c \in CallIds : calls[c].state = "ESTABLISHED" => activeCall = c

\* Once no call is up, is_recording is eventually cleared (or a call comes
\* up again, or the daemon has aborted): the flag incall_recording_tread sets at line 324 does not
\* outlive the thread, so a later call can still be recorded.
RecordingFlagReleased ==
  (recording /\ audio = "IDLE") ~> (~recording \/ audio # "IDLE" \/ Crashed)

\* A recording thread whose call has ended leaves its loop: the checks of
\* current_call_state at lines 382 and 431 stop it.
RecorderStopsAfterCall ==
  \A t \in RecThreads :
    (recPc[t] \in {"loop", "chunk"} /\ audio = "IDLE")
      ~> (recPc[t] \notin {"loop", "chunk"} \/ audio # "IDLE")

\* Once is_alerting is cleared every alert-tone thread eventually exits
\* (line 154 and the chunk loop of line 217), unless alerting starts again.
ToneStopsAfterAlerting ==
  \A t \in ToneThreads :
    (tonePc[t] # "none" /\ ~alerting) ~> (tonePc[t] = "none" \/ alerting)

\* A recording never touches a file it has already closed: the outer loop
\* of incall_recording_tread runs again only on a fresh file.
NoRecorderUseAfterClose == \A t \in RecThreads : recPc[t] # "fault"

\* A recording the user asked for (record_next_call, or record_current_call)
\* is never removed by the automatic-recording cleanup of lines 452-479.
RequestedRecordingKept ==
  [][\A t \in RecThreads :
       (recPc[t] = "chunk" /\ recFile'[t] = "closed" /\ recWanted[t])
         => Fate # "discarded"]_vars

=============================================================================
