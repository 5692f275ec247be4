----------------------------- MODULE ReceiveBuffer -----------------------------
(***************************************************************************)
(* How large buffer_ of Input is (input.cpp, with the switches of          *)
(* platform.h): a datagram longer than it would be cut off silently, so it *)
(* must hold whatever the sockets of the command accept.                   *)
(*                                                                         *)
(* The kernel has limits for what a program may ask for.  Linux doubles    *)
(* what is asked for, has a least size, and tells the doubled value, which *)
(* Boost.Asio halves again; elsewhere asking for too much is an error.     *)
(***************************************************************************)
EXTENDS Integers

CONSTANTS
  MINIMUM_RCVBUF_SIZE, \* at least PIPE_BUF and BUFSIZ
  Least,               \* the least size of a buffer in the kernel
  INT_MAX,
  Sizes                \* sizes and limits the kernel may be configured for

ASSUME ReceiveBufferAssumption ==
  /\ MINIMUM_RCVBUF_SIZE \in Nat /\ INT_MAX \in Nat /\ 2 * MINIMUM_RCVBUF_SIZE <= INT_MAX
  /\ Least \in 0..MINIMUM_RCVBUF_SIZE
  /\ Sizes \subseteq 0..INT_MAX

VARIABLES
  platform,   \* doubled: hack::socket_buffer_size_doubled;
              \* have_size: have::so_rcvbuf, have::so_sndbuf
  step,       \* the call that comes next, "ready" or "failed" at the end
  limit,      \* what the kernel allows to ask for, of either kind
  rcvbuf,     \* the kernel's size of the receive buffer of the input socket
  sndbuf,     \* and of the send buffers of the command's sockets
  so_rcvbuf,  \* what dtee has been told, or has decided
  buffer      \* buffer_.size()

vars == <<platform, step, limit, rcvbuf, sndbuf, so_rcvbuf, buffer>>

Init ==
  /\ platform \in [doubled : BOOLEAN, have_size : BOOLEAN]
  /\ step = "open_input"
  /\ limit \in [{"rcv", "snd"} -> Sizes]
  /\ rcvbuf \in Sizes /\ sndbuf \in Sizes
  /\ so_rcvbuf = 0 /\ buffer = 0

Larger(m, n) == IF m > n THEN m ELSE n
Smaller(m, n) == IF m < n THEN m ELSE n

(* get_option() and set_option() *)
Told(size) == IF platform.doubled THEN size \div 2 ELSE size
Granted(size, most) == IF platform.doubled THEN Larger(2 * Smaller(size, most), Least) ELSE size
Refused(size, most) == ~platform.doubled /\ size > most

(* Mutant: a small receive buffer is left as it is.                        *)
OpenInputAsIs ==
  /\ step = "open_input"
  /\ step' = "open_outputs"
  /\ so_rcvbuf' = IF platform.have_size THEN Told(rcvbuf) ELSE MINIMUM_RCVBUF_SIZE
  /\ UNCHANGED <<platform, limit, rcvbuf, sndbuf, buffer>>

(* Input::open_input() *)
OpenInput ==
  /\ step = "open_input"
  /\ IF ~platform.have_size
     THEN step' = "open_outputs" /\ so_rcvbuf' = MINIMUM_RCVBUF_SIZE /\ UNCHANGED rcvbuf
     ELSE IF Told(rcvbuf) >= MINIMUM_RCVBUF_SIZE
     THEN step' = "open_outputs" /\ so_rcvbuf' = Told(rcvbuf) /\ UNCHANGED rcvbuf
     ELSE IF Refused(MINIMUM_RCVBUF_SIZE, limit["rcv"])
     THEN step' = "failed" /\ UNCHANGED <<so_rcvbuf, rcvbuf>>
     ELSE /\ step' = "open_outputs"
          /\ rcvbuf' = Granted(MINIMUM_RCVBUF_SIZE, limit["rcv"])
          /\ so_rcvbuf' = Told(rcvbuf')
  /\ UNCHANGED <<platform, limit, sndbuf, buffer>>

(* Mutant: the send buffers are left as they are.                          *)
OpenOutputsDefault ==
  /\ step = "open_outputs"
  /\ step' = "prepare_buffer"
  /\ UNCHANGED <<platform, limit, rcvbuf, sndbuf, so_rcvbuf, buffer>>

(* Input::open_outputs(): open_output() sets SO_SNDBUF of both sockets.    *)
OpenOutputs ==
  /\ step = "open_outputs"
  /\ IF platform.have_size /\ Refused(so_rcvbuf, limit["snd"])
     THEN step' = "failed" /\ UNCHANGED sndbuf
     ELSE /\ step' = "prepare_buffer"
          /\ sndbuf' = IF platform.have_size THEN Granted(so_rcvbuf, limit["snd"]) ELSE sndbuf
  /\ UNCHANGED <<platform, limit, rcvbuf, so_rcvbuf, buffer>>

(* Mutant: what Boost.Asio tells is taken to be the size.                  *)
PrepareBufferAsTold ==
  /\ step = "prepare_buffer"
  /\ buffer' = Larger(so_rcvbuf, MINIMUM_RCVBUF_SIZE)
  /\ step' = "ready"
  /\ UNCHANGED <<platform, limit, rcvbuf, sndbuf, so_rcvbuf>>

(* Mutant: the size is doubled after it was raised to the minimum, if any. *)
PrepareBufferTwice ==
  /\ step = "prepare_buffer"
  /\ buffer' = 2 * Larger(2 * so_rcvbuf, MINIMUM_RCVBUF_SIZE)
  /\ step' = "ready"
  /\ UNCHANGED <<platform, limit, rcvbuf, sndbuf, so_rcvbuf>>

(* Input::prepare_buffer() *)
PrepareBuffer ==
  /\ step = "prepare_buffer"
  /\ buffer' = Larger(IF platform.doubled THEN 2 * so_rcvbuf ELSE so_rcvbuf, MINIMUM_RCVBUF_SIZE)
  /\ step' = "ready"
  /\ UNCHANGED <<platform, limit, rcvbuf, sndbuf, so_rcvbuf>>

Done == step \in {"ready", "failed"} /\ UNCHANGED vars

Next == OpenInput \/ OpenOutputs \/ PrepareBuffer \/ Done

Spec == Init /\ [][Next]_vars
------------------------------------------------------------------------------
(* A socket accepts no datagram larger than its send buffer: each fits in  *)
(* buffer_ and is received whole, whatever the kernel's defaults and       *)
(* limits, also where the kernel grants more than it was asked for.        *)
WholeDatagrams == step = "ready" /\ platform.have_size => sndbuf <= buffer

(* buffer_size *= 2 does not overflow the int it is computed in, nor is    *)
(* the buffer ever smaller than a write to a pipe or of stdio.             *)
BufferInRange == step = "ready" => buffer \in MINIMUM_RCVBUF_SIZE..INT_MAX

(* "the socket buffer size will be increased to at least PIPE_BUF and      *)
(* BUFSIZ if the default is smaller": the command can send that much in    *)
(* one write as far as the kernel's limits permit.                         *)
MinimumAccepted ==
  step = "ready" /\ platform.have_size =>
    sndbuf >= Smaller(MINIMUM_RCVBUF_SIZE, Smaller(limit["rcv"], limit["snd"]))
==============================================================================
