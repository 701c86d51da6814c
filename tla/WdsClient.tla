------------------------------ MODULE WdsClient ------------------------------
(***************************************************************************)
(* The internal WDS client of openqti (wds_client.c) and the bot commands  *)
(* that drive it (parse_command cases 46 and 47, command.c).               *)
(*                                                                          *)
(* The command thread runs command 46: it enables internal connectivity    *)
(* and calls init_internal_networking, which sleeps until the network is   *)
(* registered and then calls wds_attempt_to_connect.  That function puts   *)
(* the requests it builds on the pending-message queue of the rmnet loop   *)
(* (add_pending_message, outside src/).  The modem answers them in order,  *)
(* and the rmnet thread hands each answer to handle_incoming_wds_message.  *)
(* A request is its message id; an answer its message id and QMI result.  *)
(***************************************************************************)
EXTENDS Naturals, Sequences

CONSTANTS
  MaxCmds,         \* bound: commands 46 and 47 the user sends
  ReplyCanBeLost   \* the answer to a request may never come back

Requests == {"bind", "start"}        \* WDS_BIND_MUX_DATA_PORT, WDS_START_NETWORK
Results  == {"success", "failure", "unknown"}   \* QMI_RESULT_*
CmdPcs   == {"idle", "wait"}

VARIABLES
  enabled,     \* is_internal_connect_enabled()
  muxState,    \* wds_runtime.mux_state: 0 none, 1 waiting, 2 bound
  cmdPc,       \* the command thread: idle, or sleeping in init_internal_networking
  netReady,    \* get_network_type() is non-zero
  cmds,        \* commands sent so far
  pending,     \* requests queued for the modem, in order
  replies,     \* answers from the modem not yet handled, in order
  modemBound   \* the modem has bound the mux data port

vars == <<enabled, muxState, cmdPc, netReady, cmds, pending, replies, modemBound>>

-----------------------------------------------------------------------------
(* The command thread                                                      *)

\* Command 46: set_internal_connectivity(true), then init_internal_networking.
\* Its early return on a disabled setting cannot be taken right after the
\* setting was enabled by the same thread, so the thread goes to sleep in
\* the wait loop of line 158.
Cmd46 ==
  /\ cmdPc = "idle" /\ cmds < MaxCmds
  /\ cmds' = cmds + 1
  /\ enabled' = TRUE
  /\ cmdPc' = "wait"
  /\ UNCHANGED <<muxState, netReady, pending, replies, modemBound>>

\* Command 47: set_internal_connectivity(false).
Cmd47 ==
  /\ cmdPc = "idle" /\ cmds < MaxCmds
  /\ cmds' = cmds + 1
  /\ enabled' = FALSE
  /\ UNCHANGED <<muxState, cmdPc, netReady, pending, replies, modemBound>>

\* wds_attempt_to_connect: a bind request first when mux_state is 0
\* (wds_bind_mux_data_port, which checks the setting again), then the
\* START_NETWORK request in every case; nothing when the setting is off.
AttemptToConnect ==
  IF ~enabled THEN UNCHANGED pending
  ELSE pending' = pending \o (IF muxState = 0 THEN <<"bind", "start">>
                                               ELSE <<"start">>)

\* The wait loop ends once the network type is known; the thread then
\* connects and returns to the command loop.
InitInternalNetworking ==
  /\ cmdPc = "wait" /\ netReady
  /\ AttemptToConnect
  /\ cmdPc' = "idle"
  /\ UNCHANGED <<enabled, muxState, netReady, cmds, replies, modemBound>>

-----------------------------------------------------------------------------
(* The rmnet thread: handle_incoming_wds_message                           *)

\* The answer to a bind sets mux_state by its result: 0 on failure, 2 on
\* success, unchanged when the response carries no result.  The answer to
\* START_NETWORK is only logged.
MuxAfter(r) ==
  CASE r.msg = "bind" /\ r.res = "failure" -> 0
    [] r.msg = "bind" /\ r.res = "success" -> 2
    [] OTHER                               -> muxState

HandleIncomingWdsMessage ==
  /\ replies # <<>>
  /\ muxState' = MuxAfter(Head(replies))
  /\ replies' = Tail(replies)
  /\ UNCHANGED <<enabled, cmdPc, netReady, cmds, pending, modemBound>>

-----------------------------------------------------------------------------
(* The environment: the network, the modem and the transport               *)

NetChange ==
  /\ netReady' = ~netReady
  /\ UNCHANGED <<enabled, muxState, cmdPc, cmds, pending, replies, modemBound>>

\* The modem takes the oldest request.  A bind succeeds, fails, or is
\* answered without a result (and may or may not have been done); a
\* START_NETWORK is answered.
ModemBind ==
  /\ pending # <<>> /\ Head(pending) = "bind"
  /\ \E r \in Results :
       /\ modemBound' \in CASE r = "success" -> {TRUE}
                            [] r = "failure" -> {modemBound}
                            [] OTHER         -> BOOLEAN
       /\ replies' = Append(replies, [msg |-> "bind", res |-> r])
  /\ pending' = Tail(pending)
  /\ UNCHANGED <<enabled, muxState, cmdPc, netReady, cmds>>

ModemStart ==
  /\ pending # <<>> /\ Head(pending) = "start"
  /\ \E r \in Results : replies' = Append(replies, [msg |-> "start", res |-> r])
  /\ pending' = Tail(pending)
  /\ UNCHANGED <<enabled, muxState, cmdPc, netReady, cmds, modemBound>>

LoseReply ==
  /\ ReplyCanBeLost /\ replies # <<>>
  /\ replies' = Tail(replies)
  /\ UNCHANGED <<enabled, muxState, cmdPc, netReady, cmds, pending, modemBound>>

-----------------------------------------------------------------------------
\* reset_wds_runtime at start-up; the setting comes from the configuration.
Init ==
  /\ enabled \in BOOLEAN
  /\ muxState = 0
  /\ cmdPc = "idle"
  /\ netReady \in BOOLEAN
  /\ cmds = 0
  /\ pending = <<>> /\ replies = <<>>
  /\ modemBound = FALSE

Next ==
  \/ Cmd46 \/ Cmd47 \/ InitInternalNetworking
  \/ HandleIncomingWdsMessage
  \/ NetChange \/ ModemBind \/ ModemStart \/ LoseReply

Spec == Init /\ [][Next]_vars

-----------------------------------------------------------------------------
(* Properties                                                              *)

TypeOK ==
  /\ enabled \in BOOLEAN /\ netReady \in BOOLEAN /\ modemBound \in BOOLEAN
  /\ muxState \in 0 .. 2
  /\ cmdPc \in CmdPcs
  /\ cmds \in 0 .. MaxCmds
  /\ pending \in Seq(Requests)
  /\ replies \in Seq([msg : Requests, res : Results])

\* The modem is asked to start the network only on a bound mux data port:
\* wds_attempt_to_connect's branch for mux_state 1 ("Waiting for mux
\* ready...") and its "Mux was already setup" say START_NETWORK is meant to
\* follow a completed bind.
StartNeedsBoundMux ==
  [][pending # <<>> /\ Head(pending) = "start" /\ pending' = Tail(pending)
       => modemBound]_vars

=============================================================================
