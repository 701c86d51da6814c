----------------------------- MODULE RmnetProxy -----------------------------
(***************************************************************************)
(* The rmnet proxy thread of openqti (src/.../proxy.c): the select loop of *)
(* rmnet_proxy, the classifier process_packet, and the injector            *)
(* is_inject_needed / process_simulated_packet.                             *)
(*                                                                          *)
(* A frame is abstracted to its position and the service that decides its *)
(* fate; "RUNT" is a frame shorter than the QMUX and control QMI headers.  *)
(* The collaborators outside src/ (the WMS checks of sms.c, the voice      *)
(* handler of call.c, the message queue) are nondeterministic choices over *)
(* the verdicts and flag changes they can return.                          *)
(***************************************************************************)
EXTENDS Naturals, Sequences, FiniteSets

CONSTANTS
  Svcs,          \* services of the frames the endpoints produce
  MaxFrames,     \* bound: frames each endpoint produces
  StatCap,       \* bound: a counter that reaches it stays there
  CanClose,      \* endpoints whose read() may start returning 0 for good
  WriteCanFail,  \* write() to the other endpoint may return 0 or -1
  ReadCanFail,   \* read() on a ready endpoint may return -1
  SysfsCanFail,  \* the USB suspend-state sysfs file may fail to open or read
  Collaborators  \* the SMS code, scheduler and commands raise injector flags

Dirs == {"DSP", "HOST"}                        \* FROM_DSP, FROM_HOST
Frames == [seq : 1 .. MaxFrames, svc : Svcs]
\* The memset-zeroed buffer: service 0, message 0.
ZeroFrame == [seq |-> 0, svc |-> "CTL"]
Sources == {"NONE", "INTERNAL", "EXTERNAL"}    \* get_notification_source()
StatNames == {"empty", "allowed", "failed", "discarded", "bypassed"}

VARIABLES
  arrived,       \* per endpoint, the frames it has made readable, in order
  rd,            \* per endpoint, how many of them read() has returned
  out,           \* per endpoint, its frames written to the other endpoint
  eof,           \* the endpoint is closed: read() returns 0
  usbSuspended,  \* the value in msm_hsusb/isr_suspend_state
  stats,         \* proxy_rt.rmnet_packet_stats
  gpsOther,      \* proxy_rt.gps_packet_stats.other
  inj,           \* the flags is_inject_needed reads
  lastTick       \* synthetic frames the last injector tick wrote

vars == <<arrived, rd, out, eof, usbSuspended, stats, gpsOther, inj, lastTick>>

Bump(n) == IF n < StatCap THEN n + 1 ELSE n
Count(s, name) == [s EXCEPT ![name] = Bump(@)]

-----------------------------------------------------------------------------
(* process_packet (lines 268-378): the verdicts a frame can get.           *)

Classify(src, f) ==
  CASE f.svc = "RUNT" -> {"EMPTY"}
    [] f.svc = "NAS_SIG" ->
         IF inj.simMode THEN {"BYPASS"} ELSE {"PASS_THRU"}
    [] f.svc = "WMS" ->
         \* check_wms_message and the other sms.c checks decide.
         {"BYPASS", "FORCED_PT"}
    [] f.svc = "VOICE" ->
         \* call_service_handler decides.
         {"PASS_THRU", "FORCED_PT", "BYPASS"}
    [] OTHER -> {"PASS_THRU"}

\* get_transceiver_suspend_state: the sysfs value, or 0 when it cannot be read.
SuspendReads == IF SysfsCanFail THEN {usbSuspended, FALSE} ELSE {usbSuspended}
\* write() returns the length, 0, or -1, which bytes_written (a size_t)
\* holds as SIZE_MAX.
WriteResults == IF WriteCanFail THEN {"ok", "zero", "error"} ELSE {"ok"}

\* Mutant: a frame written once and then written again.
ForwardTwice(d, f, wr) ==
  /\ out' = [out EXCEPT ![d] = @ \o <<f, f>>]
  /\ stats' = Count(stats, "allowed")

\* The write of a frame to the other endpoint (lines 468-474, 478-484): only
\* a result that is < 1 as a size_t is counted as failed.
Forward(d, f, wr) ==
  /\ out' = IF wr = "ok" THEN [out EXCEPT ![d] = Append(@, f)] ELSE out
  /\ stats' = IF wr = "zero" THEN Count(Count(stats, "allowed"), "failed")
                             ELSE Count(stats, "allowed")

\* The switch of rmnet_proxy on the verdict (lines 462-503).
Act(d, f, v, susp, wr) ==
  CASE v = "EMPTY" -> stats' = Count(stats, "empty") /\ out' = out
    [] v = "PASS_THRU" ->
         IF ~susp \/ d = "HOST" THEN Forward(d, f, wr)
         ELSE stats' = Count(stats, "discarded") /\ out' = out
    [] v = "FORCED_PT" -> Forward(d, f, wr)
    [] v = "BYPASS" -> stats' = Count(stats, "bypassed") /\ out' = out

Readable(d) == rd[d] < Len(arrived[d]) \/ eof[d]

\* One turn of the loop that select() gave to endpoint d: the baseband
\* (node2) is always looked at first.
Serve(d) ==
  /\ Readable(d)
  /\ d = "HOST" => ~Readable("DSP")
  /\ \E readOk \in IF ReadCanFail THEN BOOLEAN ELSE {TRUE} :
     CASE ~readOk ->
            \* read() returned -1: bytes_read is SIZE_MAX, the zeroed buffer
            \* is a control frame that passes through, and write() is asked
            \* for SIZE_MAX bytes: garbage reaches the peer or the write fails.
            /\ \E susp \in SuspendReads, wr \in {"ok", "error"} :
                 Act(d, ZeroFrame, "PASS_THRU", susp, wr)
            /\ UNCHANGED <<rd, gpsOther>>
       [] rd[d] = Len(arrived[d]) ->
            \* read() returned 0: PACKET_EMPTY, counted, nothing else.
            /\ stats' = Count(stats, "empty")
            /\ UNCHANGED <<rd, out, gpsOther>>
       [] OTHER ->
            LET f == arrived[d][rd[d] + 1] IN
            /\ rd' = [rd EXCEPT ![d] = @ + 1]
            /\ gpsOther' = IF f.svc = "LOC" THEN Bump(gpsOther) ELSE gpsOther
            /\ \E v \in Classify(d, f), susp \in SuspendReads,
                  wr \in WriteResults :
                 Act(d, f, v, susp, wr)
  /\ UNCHANGED <<arrived, eof, usbSuspended, inj, lastTick>>

ServeDsp == Serve("DSP")
ServeHost == Serve("HOST")

-----------------------------------------------------------------------------
(* The injector                                                            *)

InternalMsg == inj.msgPending /\ inj.source = "INTERNAL"
ExternalMsg == inj.msgPending /\ inj.source = "EXTERNAL"

\* is_inject_needed (lines 386-411)
InjectNeeded ==
  InternalMsg \/ ExternalMsg \/ inj.callPending \/ inj.simMode
    \/ inj.cb \/ inj.stuck

\* process_simulated_packet (lines 205-249), one operator per early return.
\* process_message_queue sends one message; more may remain queued.
SendInternal ==
  /\ InternalMsg
  /\ \E more \in BOOLEAN :
       inj' = [inj EXCEPT !.msgPending = more,
                          !.source = IF more THEN "INTERNAL" ELSE "NONE"]
  /\ lastTick' = 1

SendExternal ==
  /\ ~InternalMsg /\ ExternalMsg
  /\ inj' = [inj EXCEPT !.msgPending = FALSE, !.source = "NONE"]
  /\ lastTick' = 1

RetrieveStuck ==
  /\ ~InternalMsg /\ ~ExternalMsg /\ inj.stuck
  /\ inj' = [inj EXCEPT !.stuck = FALSE]
  /\ lastTick' = 1

\* Mutant: the pending call is served ahead of the queued messages.
StartCallFirst ==
  /\ ~inj.stuck /\ inj.callPending
  /\ inj' = [inj EXCEPT !.callPending = FALSE, !.simMode = TRUE]
  /\ lastTick' = 1

\* Mutant: no return after start_simulated_call, which falls through to the
\* heartbeat and the CB frames.
StartCallNoReturn ==
  /\ ~InternalMsg /\ ~ExternalMsg /\ ~inj.stuck /\ inj.callPending
  /\ inj' = [inj EXCEPT !.callPending = FALSE, !.simMode = TRUE, !.cb = FALSE]
  /\ lastTick' = 2 + (IF inj.cb THEN 1 ELSE 0)

StartCall ==
  /\ ~InternalMsg /\ ~ExternalMsg /\ ~inj.stuck /\ inj.callPending
  /\ inj' = [inj EXCEPT !.callPending = FALSE, !.simMode = TRUE]
  /\ lastTick' = 1

\* No early return: the simulated-call heartbeat, then the CB debug frames.
Heartbeat ==
  /\ ~InternalMsg /\ ~ExternalMsg /\ ~inj.stuck /\ ~inj.callPending
  /\ inj' = [inj EXCEPT !.cb = FALSE]
  /\ lastTick' = (IF inj.simMode THEN 1 ELSE 0) + (IF inj.cb THEN 1 ELSE 0)

\* The injector's turn of the loop, when select() timed out.
Inject ==
  /\ ~Readable("DSP") /\ ~Readable("HOST")
  /\ InjectNeeded
  /\ SendInternal \/ SendExternal \/ RetrieveStuck \/ StartCall \/ Heartbeat
  /\ UNCHANGED <<arrived, rd, out, eof, usbSuspended, stats, gpsOther>>

-----------------------------------------------------------------------------
(* The endpoints and the collaborators that set the injector's flags.     *)

Arrive(d) ==
  /\ ~eof[d]
  /\ Len(arrived[d]) < MaxFrames
  /\ \E s \in Svcs :
       arrived' = [arrived EXCEPT ![d] = Append(@, [seq |-> Len(@) + 1, svc |-> s])]
  /\ UNCHANGED <<rd, out, eof, usbSuspended, stats, gpsOther, inj, lastTick>>

Close(d) ==
  /\ d \in CanClose /\ ~eof[d]
  /\ eof' = [eof EXCEPT ![d] = TRUE]
  /\ UNCHANGED <<arrived, rd, out, usbSuspended, stats, gpsOther, inj, lastTick>>

Suspend ==
  /\ usbSuspended' = ~usbSuspended
  /\ UNCHANGED <<arrived, rd, out, eof, stats, gpsOther, inj, lastTick>>

\* A message is queued for the host (add_message_to_queue) or an SMS
\* notification arrives from the baseband side.
MessageQueued ==
  /\ Collaborators
  /\ ~inj.msgPending
  /\ \E s \in {"INTERNAL", "EXTERNAL"} :
       inj' = [inj EXCEPT !.msgPending = TRUE, !.source = s]
  /\ UNCHANGED <<arrived, rd, out, eof, usbSuspended, stats, gpsOther, lastTick>>

\* The flags the command thread, the scheduler and the SMS code raise:
\* set_pending_call_flag(true), a stuck-message retrieval, a CB debug
\* request; and the host hanging up the simulated call.
FlagRaised ==
  /\ Collaborators
  /\ \/ inj' = [inj EXCEPT !.callPending = TRUE]
     \/ inj' = [inj EXCEPT !.stuck = TRUE]
     \/ inj' = [inj EXCEPT !.cb = TRUE]
     \/ inj' = [inj EXCEPT !.simMode = FALSE]
  /\ inj' # inj
  /\ UNCHANGED <<arrived, rd, out, eof, usbSuspended, stats, gpsOther, lastTick>>

-----------------------------------------------------------------------------
Init ==
  /\ arrived = [d \in Dirs |-> <<>>]
  /\ rd = [d \in Dirs |-> 0]
  /\ out = [d \in Dirs |-> <<>>]
  /\ eof = [d \in Dirs |-> FALSE]
  /\ usbSuspended = FALSE
  /\ stats = [n \in StatNames |-> 0]
  /\ gpsOther = 0
  /\ inj = [msgPending |-> FALSE, source |-> "NONE", stuck |-> FALSE,
            callPending |-> FALSE, simMode |-> FALSE, cb |-> FALSE]
  /\ lastTick = 0

Next ==
  \/ ServeDsp \/ ServeHost \/ Inject
  \/ \E d \in Dirs : Arrive(d) \/ Close(d)
  \/ Suspend \/ MessageQueued \/ FlagRaised

\* The proxy thread loops for ever; the endpoints and the user need not act.
Spec == Init /\ [][Next]_vars
          /\ WF_vars(ServeDsp) /\ WF_vars(ServeHost) /\ WF_vars(Inject)

-----------------------------------------------------------------------------
(* Properties                                                              *)

TypeOK ==
  /\ \A d \in Dirs : arrived[d] \in Seq(Frames) /\ out[d] \in Seq(Frames)
  /\ rd \in [Dirs -> 0 .. MaxFrames]
  /\ eof \in [Dirs -> BOOLEAN]
  /\ usbSuspended \in BOOLEAN
  /\ stats \in [StatNames -> 0 .. StatCap]
  /\ gpsOther \in 0 .. StatCap
  /\ inj \in [msgPending : BOOLEAN, source : Sources, stuck : BOOLEAN,
              callPending : BOOLEAN, simMode : BOOLEAN, cb : BOOLEAN]
  /\ lastTick \in 0 .. 2

\* Frames taken from endpoint d that are long enough to be classified.
Classified(d) == {i \in 1 .. rd[d] : arrived[d][i].svc # "RUNT"}

\* The packet statistics account for the traffic: every classified frame
\* is counted once as allowed, bypassed or discarded, and every allowed
\* frame was either written to the other endpoint or counted as failed.
\* (rmnet_proxy's switch on the verdict of process_packet.)  No run checks
\* it: with ReadCanFail or WriteCanFail TRUE the size_t results of lines
\* 461 and 474 break it in two steps, and with both FALSE it holds by the
\* shape of Act.
StatsMatchTraffic ==
  /\ stats.allowed + stats.bypassed + stats.discarded
       = Cardinality(Classified("DSP")) + Cardinality(Classified("HOST"))
  /\ stats.allowed = stats.failed + Len(out["DSP"]) + Len(out["HOST"])

\* The injector writes at most one synthetic frame per idle tick (spec,
\* section 4.4); process_simulated_packet has no return after the
\* simulated-call heartbeat.
AtMostOneSyntheticFramePerTick == lastTick <= 1

\* An idle tick with an internal message queued sends that message and
\* nothing else: a pending simulated call, a stuck-message retrieval and
\* a CB request wait for later ticks, their flags intact (spec, section 8:
\* the internal message goes first and the call flag is retained).
InjectorPriority ==
  [][Inject /\ InternalMsg =>
       /\ lastTick' = 1
       /\ inj'.callPending = inj.callPending
       /\ inj'.stuck = inj.stuck
       /\ inj'.cb = inj.cb]_vars

\* The loop relays each direction as Relay specifies: in order, at most
\* once, nothing invented, and every frame eventually taken.
R == INSTANCE Relay WITH delivered <- out
RelaySpec == R!Spec

=============================================================================
