------------------------------ MODULE GpsProxy ------------------------------
(***************************************************************************)
(* The GPS proxy thread of openqti (gps_proxy, proxy.c) and the USB        *)
(* suspend-state reader it shares with the rmnet thread                    *)
(* (get_transceiver_suspend_state).                                         *)
(*                                                                          *)
(* The reader is cut at the points where it touches the shared             *)
(* proxy_rt.is_usb_suspended: the zeroing at line 61, the sysfs read with   *)
(* the update of lines 77-84, and the return of line 85.  The rmnet thread *)
(* is a second caller of the reader; its own frames are RmnetProxy's.      *)
(* A frame is its position in the stream of its side.                      *)
(***************************************************************************)
EXTENDS Naturals, Sequences

CONSTANTS
  GpsMax,          \* bound: frames each side produces
  MaxCloses,       \* bound: reads that return 0, over both sides
  SysfsCanFail,    \* the sysfs file may fail to open or read
  UsbOpenCanFail,  \* open(USB_GPS) may fail
  RmnetCalls       \* the rmnet thread calls the reader (baseband traffic)

Sides   == {"SMD", "USB"}               \* node1 (SMD_GPS), node2 (USB_GPS)
Callers == {"gps", "rmnet"}
GPcs    == {"top", "usbOpen", "sel", "fwd", "usbChk"}
RPcs    == {"none", "zero", "read", "ret"}

VARIABLES
  hostSuspended, \* the value in msm_hsusb/isr_suspend_state
  flag,          \* proxy_rt.is_usb_suspended
  rpc,           \* per caller, where it is inside the reader
  seen,          \* per caller, what the sysfs read of its current call gave
  res,           \* per caller, what its last call returned
  gpc,           \* where gps_proxy is in its loop
  open,          \* per side, its descriptor is valid
  arrived,       \* per side, the frames it has made readable, in order
  rd,            \* per side, how many of them read() has returned
  out,           \* per side, its frames written to the other side
  eofPend,       \* per side, its next read() returns 0
  closes,        \* reads that have returned 0
  stats          \* proxy_rt.gps_packet_stats

readerVars == <<flag, rpc, seen, res>>
streamVars == <<arrived, rd, out, eofPend, closes>>
vars == <<hostSuspended, readerVars, gpc, open, streamVars, stats>>

-----------------------------------------------------------------------------
(* get_transceiver_suspend_state (lines 58-85), one step per access to the *)
(* shared flag.                                                            *)

Call(c) == rpc' = [rpc EXCEPT ![c] = "zero"]
Returned(c) == rpc[c] = "none"

SusZero(c) ==
  /\ rpc[c] = "zero"
  /\ flag' = FALSE
  /\ rpc' = [rpc EXCEPT ![c] = "read"]
  /\ UNCHANGED <<hostSuspended, seen, res, gpc, open, streamVars, stats>>

\* A read of the file; lines 77-84 then leave the flag equal to the value
\* read.  A failed open or read skips them.
SusRead(c) ==
  /\ rpc[c] = "read"
  /\ \E ok \in IF SysfsCanFail THEN BOOLEAN ELSE {TRUE} :
       IF ok THEN /\ seen' = [seen EXCEPT ![c] =
                                IF hostSuspended THEN "asleep" ELSE "awake"]
                  /\ flag' = hostSuspended
             ELSE /\ seen' = [seen EXCEPT ![c] = "none"]
                  /\ UNCHANGED flag
  /\ rpc' = [rpc EXCEPT ![c] = "ret"]
  /\ UNCHANGED <<hostSuspended, res, gpc, open, streamVars, stats>>

SusReturn(c) ==
  /\ rpc[c] = "ret"
  /\ res' = [res EXCEPT ![c] = flag]
  /\ rpc' = [rpc EXCEPT ![c] = "none"]
  /\ UNCHANGED <<hostSuspended, flag, seen, gpc, open, streamVars, stats>>

Reader(c) == SusZero(c) \/ SusRead(c) \/ SusReturn(c)

\* rmnet_proxy asks for the suspend state before it passes a baseband frame
\* to the host (proxy.c line 471).
RmnetCall ==
  /\ RmnetCalls
  /\ Returned("rmnet")
  /\ Call("rmnet")
  /\ UNCHANGED <<hostSuspended, flag, seen, res, gpc, open, streamVars, stats>>

-----------------------------------------------------------------------------
(* gps_proxy (lines 115-203)                                               *)

Count(name) == stats' = [stats EXCEPT ![name] = @ + 1]
Readable(s) == open[s] /\ (rd[s] < Len(arrived[s]) \/ eofPend[s])

\* Lines 130-141: reopen the baseband side if it is closed, then ask for the
\* suspend state.
Top ==
  /\ gpc = "top" /\ Returned("gps")
  /\ open' = [open EXCEPT !["SMD"] = TRUE]
  /\ Call("gps")
  /\ gpc' = "usbOpen"
  /\ UNCHANGED <<hostSuspended, flag, seen, res, streamVars, stats>>

\* Lines 141-148: open the host side only when it is closed and not suspended.
UsbOpen ==
  /\ gpc = "usbOpen" /\ Returned("gps")
  /\ IF ~res["gps"] /\ ~open["USB"]
       THEN \E ok \in IF UsbOpenCanFail THEN BOOLEAN ELSE {TRUE} :
              open' = [open EXCEPT !["USB"] = ok]
       ELSE UNCHANGED open
  /\ gpc' = "sel"
  /\ UNCHANGED <<hostSuspended, readerVars, streamVars, stats>>

\* Mutant: the baseband side is read only while the host side is open.
SelectNeedsUsb ==
  /\ gpc = "sel" /\ Returned("gps")
  /\ IF Readable("SMD") /\ open["USB"]
       THEN IF eofPend["SMD"]
              THEN /\ Count("empty")
                   /\ open' = [open EXCEPT !["SMD"] = FALSE]
                   /\ eofPend' = [eofPend EXCEPT !["SMD"] = FALSE]
                   /\ gpc' = "top"
                   /\ UNCHANGED <<rpc, rd>>
              ELSE /\ rd' = [rd EXCEPT !["SMD"] = @ + 1]
                   /\ Call("gps")
                   /\ gpc' = "fwd"
                   /\ UNCHANGED <<open, eofPend, stats>>
       ELSE /\ Call("gps")
            /\ gpc' = "usbChk"
            /\ UNCHANGED <<open, rd, eofPend, stats>>
  /\ UNCHANGED <<hostSuspended, flag, seen, res, arrived, out, closes>>

\* Mutant: the result of select() is not tested; the baseband side is read
\* whenever it is open and a timeout is taken for a frame.
SelectNoReadyCheck ==
  /\ gpc = "sel" /\ Returned("gps")
  /\ IF open["SMD"] /\ ~eofPend["SMD"]
       THEN /\ rd' = [rd EXCEPT !["SMD"] = @ + 1]
            /\ Call("gps")
            /\ gpc' = "fwd"
            /\ UNCHANGED <<open, eofPend, stats>>
       ELSE /\ Call("gps")
            /\ gpc' = "usbChk"
            /\ UNCHANGED <<open, rd, eofPend, stats>>
  /\ UNCHANGED <<hostSuspended, flag, seen, res, arrived, out, closes>>

\* Lines 150-161, 177-182: select(); a ready baseband side is read first.  A
\* frame is held for the suspend check; a read of 0 closes the side.  When
\* the baseband side is not ready, the else-if asks for the suspend state.
Select ==
  /\ gpc = "sel" /\ Returned("gps")
  /\ IF Readable("SMD")
       THEN IF eofPend["SMD"]
              THEN /\ Count("empty")
                   /\ open' = [open EXCEPT !["SMD"] = FALSE]
                   /\ eofPend' = [eofPend EXCEPT !["SMD"] = FALSE]
                   /\ gpc' = "top"
                   /\ UNCHANGED <<rpc, rd>>
              ELSE /\ rd' = [rd EXCEPT !["SMD"] = @ + 1]
                   /\ Call("gps")
                   /\ gpc' = "fwd"
                   /\ UNCHANGED <<open, eofPend, stats>>
       ELSE /\ Call("gps")
            /\ gpc' = "usbChk"
            /\ UNCHANGED <<open, rd, eofPend, stats>>
  /\ UNCHANGED <<hostSuspended, flag, seen, res, arrived, out, closes>>

\* Lines 161-176: pass the held frame to the host unless it is suspended or
\* its side is closed; then it is discarded.
Fwd ==
  /\ gpc = "fwd" /\ Returned("gps")
  /\ IF ~res["gps"] /\ open["USB"]
       THEN /\ Count("allowed")
            /\ out' = [out EXCEPT !["SMD"] = Append(@, arrived["SMD"][rd["SMD"]])]
       ELSE Count("discarded") /\ UNCHANGED out
  /\ gpc' = "top"
  /\ UNCHANGED <<hostSuspended, readerVars, open, arrived, rd, eofPend, closes>>

\* Lines 177-199: the host side is read only when not suspended; a frame goes
\* to the baseband, a read of 0 closes the side.
UsbChk ==
  /\ gpc = "usbChk" /\ Returned("gps")
  /\ IF ~res["gps"] /\ Readable("USB")
       THEN IF eofPend["USB"]
              THEN /\ Count("empty")
                   /\ open' = [open EXCEPT !["USB"] = FALSE]
                   /\ eofPend' = [eofPend EXCEPT !["USB"] = FALSE]
                   /\ UNCHANGED <<rd, out>>
              ELSE /\ Count("allowed")
                   /\ rd' = [rd EXCEPT !["USB"] = @ + 1]
                   /\ out' = [out EXCEPT !["USB"] =
                                Append(@, arrived["USB"][rd["USB"] + 1])]
                   /\ UNCHANGED <<open, eofPend>>
       ELSE UNCHANGED <<open, rd, out, eofPend, stats>>
  /\ gpc' = "top"
  /\ UNCHANGED <<hostSuspended, readerVars, arrived, closes>>

GpsThread ==
  Top \/ UsbOpen \/ Select \/ Fwd \/ UsbChk \/ Reader("gps")

-----------------------------------------------------------------------------
(* The devices: frames arrive, a side is closed, the host suspends.  A    *)
(* suspended host sends nothing.                                           *)

Arrive(s) ==
  /\ s = "USB" => ~hostSuspended
  /\ Len(arrived[s]) < GpsMax
  /\ arrived' = [arrived EXCEPT ![s] = Append(@, Len(@) + 1)]
  /\ UNCHANGED <<hostSuspended, readerVars, gpc, open, rd, out, eofPend,
                 closes, stats>>

Close(s) ==
  /\ open[s] /\ ~eofPend[s] /\ closes < MaxCloses
  /\ eofPend' = [eofPend EXCEPT ![s] = TRUE]
  /\ closes' = closes + 1
  /\ UNCHANGED <<hostSuspended, readerVars, gpc, open, arrived, rd, out, stats>>

Suspend ==
  /\ hostSuspended' = ~hostSuspended
  /\ UNCHANGED <<readerVars, gpc, open, streamVars, stats>>

Init ==
  /\ hostSuspended \in BOOLEAN
  /\ flag = FALSE
  /\ rpc = [c \in Callers |-> "none"]
  /\ seen = [c \in Callers |-> "none"]
  /\ res = [c \in Callers |-> FALSE]
  /\ gpc = "top"
  /\ open = [s \in Sides |-> FALSE]
  /\ arrived = [s \in Sides |-> <<>>]
  /\ rd = [s \in Sides |-> 0]
  /\ out = [s \in Sides |-> <<>>]
  /\ eofPend = [s \in Sides |-> FALSE]
  /\ closes = 0
  /\ stats = [n \in {"allowed", "discarded", "empty"} |-> 0]

Next ==
  \/ GpsThread
  \/ RmnetCall \/ Reader("rmnet")
  \/ \E s \in Sides : Arrive(s) \/ Close(s)
  \/ Suspend

\* Both threads loop for ever and return from the reader; the devices and
\* the host need not act.
Spec == Init /\ [][Next]_vars
          /\ WF_vars(GpsThread) /\ WF_vars(Reader("rmnet"))

-----------------------------------------------------------------------------
(* Properties                                                              *)

TypeOK ==
  /\ hostSuspended \in BOOLEAN /\ flag \in BOOLEAN
  /\ rpc \in [Callers -> RPcs]
  /\ seen \in [Callers -> {"none", "awake", "asleep"}]
  /\ res \in [Callers -> BOOLEAN]
  /\ gpc \in GPcs
  /\ open \in [Sides -> BOOLEAN]
  /\ \A s \in Sides : /\ arrived[s] \in Seq(1 .. GpsMax)
                      /\ rd[s] \in 0 .. Len(arrived[s])
                      /\ out[s] \in Seq(1 .. GpsMax)
  /\ eofPend \in [Sides -> BOOLEAN]
  /\ closes \in 0 .. MaxCloses
  /\ stats \in [{"allowed", "discarded", "empty"} -> Nat]

\* The baseband side is drained also while the host is suspended: the
\* comment above gps_proxy says a full NMEA buffer panics the kernel, so
\* every baseband frame is eventually read (and discarded if need be).
SmdDrained ==
  \A n \in 1 .. GpsMax : (Len(arrived["SMD"]) >= n) ~> (rd["SMD"] >= n)

\* A GPS frame reaches the host only if the sysfs read of the suspend check
\* that let it through said the host was awake (spec, section 4.5: bytes
\* are discarded while the host is suspended).
GateFollowsSysfs ==
  [][Len(out'["SMD"]) > Len(out["SMD"]) => seen["gps"] = "awake"]_vars

=============================================================================
