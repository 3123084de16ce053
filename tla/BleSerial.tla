----------------------------- MODULE BleSerial -----------------------------
(***************************************************************************)
(* The receiving side of the firmware, ble_serial.c: bytes that the BLE    *)
(* stack hands to a callback are collected in rx_buf and cut into frames,  *)
(* which are put on the frame queue of the application (FapApp.tla).       *)
(*                                                                         *)
(* External: the host, which writes one frame at a time; the link, which   *)
(* may carry a write in several pieces and may drop at any byte; and the   *)
(* firmware's own BtSrv service, which on every connection takes the bytes *)
(* for its RPC dispatcher until this module takes them back.               *)
(***************************************************************************)
EXTENDS Protocol

CONSTANTS
  Frames  \* frames the host sends

ASSUME BleSerialAssumption == Frames \subseteq PyFrames

\* FAI_RX_BUF_CAP
CAP == (4 + MaxText) * 2

VARIABLES
  connected,  \* the link is up (external)
  sending,    \* the last frame the host began to write: none or one (external)
  air,        \* bytes of that write not yet arrived (external)
  owner,      \* who gets the bytes: "app" (rx callback) or "rpc" (BtSrv)
  rx_buf,     \* rx_buf[0 .. rx_len-1]
  got,        \* frames parsed since that write began, oldest first
  torn        \* it began behind a rest in rx_buf, or has lost a piece

vars == <<connected, sending, air, owner, rx_buf, got, torn>>

\* After ble_serial_init.
Init ==
  /\ connected = FALSE
  /\ sending = <<>>
  /\ air = <<>>
  /\ owner = "app"
  /\ rx_buf = <<>>
  /\ got = <<>>
  /\ torn = FALSE

-----------------------------------------------------------------------------
(* The parser.                                                             *)

\* fai_ble_try_parse: the frames it takes off a buffer and what it leaves.
try_parse[buf \in Seq(Byte)] ==
  IF CDecodable(buf)
  THEN LET frame == CDecode(buf)
           n     == Consumed(frame)
           more  == try_parse[SubSeq(buf, n + 1, Len(buf))]
       IN  IF n > Len(buf)
           THEN [frames |-> <<>>, rest |-> <<>>]
           ELSE [frames |-> <<frame>> \o more.frames, rest |-> more.rest]
  ELSE [frames |-> <<>>, rest |-> IF Len(buf) >= CAP THEN <<>> ELSE buf]

\* (Mutant: the length of the piece is not bounded, and nothing flushed.)
rx_callback_unbounded(data) ==
  LET all == rx_buf \o data
      out == try_parse[all]
  IN  /\ rx_buf' = IF CDecodable(all) THEN out.rest ELSE all
      /\ got' = got \o out.frames

\* (Mutant: bytes that cannot be parsed are never flushed.)
rx_callback_unflushed(data) ==
  LET space == CAP - Len(rx_buf)
      taken == SubSeq(data, 1, IF Len(data) < space THEN Len(data) ELSE space)
      out   == try_parse[rx_buf \o taken]
  IN  /\ rx_buf' = IF CDecodable(rx_buf \o taken) THEN out.rest
                   ELSE rx_buf \o taken
      /\ got' = got \o out.frames

\* fai_ble_rx_callback on a piece of data.
rx_callback(data) ==
  LET space == CAP - Len(rx_buf)
      taken == SubSeq(data, 1, IF Len(data) < space THEN Len(data) ELSE space)
      out   == try_parse[rx_buf \o taken]
  IN  IF space = 0
      THEN /\ rx_buf' = <<>>
           /\ UNCHANGED got
      ELSE /\ rx_buf' = out.rest
           /\ got' = got \o out.frames

-----------------------------------------------------------------------------
(* The firmware.                                                           *)

\* A piece of the write arrives and is handed to whoever has the callback.
Arrive(n) ==
  /\ connected
  /\ n \in 1..Len(air)
  /\ air' = SubSeq(air, n + 1, Len(air))
  /\ IF owner = "app"
     THEN rx_callback(SubSeq(air, 1, n)) /\ UNCHANGED torn
     ELSE torn' = TRUE /\ UNCHANGED <<rx_buf, got>>
  /\ UNCHANGED <<connected, sending, owner>>

\* fai_rpc_guard_tick, every 200 ms.
GuardTick ==
  /\ owner = "rpc"
  /\ owner' = "app"
  /\ UNCHANGED <<connected, sending, air, rx_buf, got, torn>>

-----------------------------------------------------------------------------
(* The link and the host (external, but for fai_bt_status_cb).             *)

\* The host connects.  BtSrv opens its RPC session and fai_bt_status_cb takes
\* the bytes back, in either order.
Connect ==
  /\ ~connected
  /\ connected' = TRUE
  /\ owner' \in {"rpc", "app"}
  /\ UNCHANGED <<sending, air, rx_buf, got, torn>>

\* The link drops, with the rest of the write.  Nothing resets rx_len.
LinkDrop ==
  /\ connected
  /\ connected' = FALSE
  /\ air' = <<>>
  /\ torn' = (torn \/ air # <<>>)
  /\ UNCHANGED <<sending, owner, rx_buf, got>>

\* The host writes a frame.
Write(f) ==
  /\ connected
  /\ air = <<>>
  /\ sending' = <<f>>
  /\ air' = PyEncode(f)
  /\ got' = <<>>
  /\ torn' = (rx_buf # <<>>)
  /\ UNCHANGED <<connected, owner, rx_buf>>

Next ==
  \/ \E n \in 1..(4 + MaxText) : Arrive(n)
  \/ GuardTick
  \/ Connect
  \/ LinkDrop
  \/ \E f \in Frames : Write(f)

Spec == Init /\ [][Next]_vars

-----------------------------------------------------------------------------
(* Properties.                                                             *)

TypeOK ==
  /\ connected \in BOOLEAN
  /\ sending \in Seq(Frames)
  /\ air \in Seq(Byte)
  /\ owner \in {"app", "rpc"}
  /\ rx_buf \in Seq(Byte)
  /\ Len(rx_buf) <= CAP
  /\ got \in Seq(CFrames)
  /\ torn \in BOOLEAN

\* The callback always returns with room in the buffer, whatever garbage a
\* torn write has left there: its branch for a full buffer never runs
\* (ble_serial.c:108-113).
RoomLeft == Len(rx_buf) < CAP

\* The frame that a frame of the host is in the firmware.
Received(f) ==
  IF f.kind = "notify" THEN Notify(f.agent, f.state, PyTextBytes(f.text)) ELSE f

\* A write that begins with the buffer empty and is not torn, in however
\* many pieces it comes, yields its own frame, once and no other, and just
\* when its last byte is there (ble_serial.c:45-84).
StreamIntact ==
  ~torn /\ sending # <<>> =>
    IF air = <<>>
    THEN got = <<Received(sending[1])>> /\ rx_buf = <<>>
    ELSE got = <<>> /\ rx_buf \o air = PyEncode(sending[1])
=============================================================================
