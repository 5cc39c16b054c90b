---------------------------- MODULE TlsConnection -----------------------------
(***************************************************************************)
(* TlsConnection: the receiving and the sending state of one TLS           *)
(* connection, as operators on a record.  What a peer wrote is a length:   *)
(* a frame takes FrameSize units of it, so a count of units read says      *)
(* which frames are complete (LengthFieldCodec keeps the rest buffered).   *)
(* A TLS record is decrypted whole: what SSL holds of it beyond what was   *)
(* read is invisible to the event loop, hence `pulled' beside `read'.      *)
(***************************************************************************)
EXTENDS Integers, FiniteSets, FiniteSetsExt

CONSTANTS
    FrameSize,   \* units a frame takes in the stream
    SockRoom,    \* frames the kernel takes for a peer that does not read
    MaxPending   \* max_pending_output_bytes, in frames

ASSUME TlsConnectionAssumption ==
    /\ FrameSize \in Nat \ {0}
    /\ SockRoom \in Nat \ {0}
    /\ MaxPending \in Nat \ {0}

Smaller(a, b) == IF a <= b THEN a ELSE b

NewConnection ==
    [sent |-> 0,        \* units the peer wrote
     cuts |-> {},       \* where its TLS records end
     fin |-> FALSE,     \* the peer closed its writing side
     rst |-> FALSE,     \* the connection broke
     pulled |-> 0,      \* units SSL took from the socket
     read |-> 0,        \* units SSL_read_ex returned
     out |-> 0,         \* output_, in frames
     sock |-> 0,        \* frames in the socket, not read by the peer
     got |-> 0]         \* frames the peer read

(* What the event loop can see of the socket (level-triggered).            *)
Readable(c) == c.pulled < c.sent \/ c.fin
Writable(c) == c.sock < SockRoom

has_pending_input(c)  == c.pulled > c.read
has_pending_output(c) == c.out > 0

-----------------------------------------------------------------------------
(* receive_frames: reads until the budget is used up (0: no budget) or     *)
(* SSL has nothing; Closed is learnt only by a read that finds the end.    *)

ReadUpTo(c, budget) == IF budget = 0 THEN c.sent ELSE Smaller(c.sent, c.read + budget)

PullRecord(c, to) ==
    [c EXCEPT !.read = to,
              !.pulled = IF to <= @ THEN @ ELSE Min({k \in c.cuts : k >= to})]

FoundEndEager(c, budget) == c.fin

FoundEnd(c, budget) ==
    /\ c.fin
    /\ budget = 0 \/ c.sent < c.read + budget

(* decode_available over the bytes appended: the frames completed, or      *)
(* FrameTooLarge once the header of an oversized frame is in.              *)
FramesIn(from, to) == (from \div FrameSize + 1)..(to \div FrameSize)

MeetsOversized(to, oversized) == oversized # 0 /\ (oversized - 1) * FrameSize < to

receive_frames(c, budget, oversized) ==
    LET to == ReadUpTo(c, budget)
    IN  [conn   |-> PullRecord(c, to),
         frames |-> FramesIn(c.read, to),
         status |-> IF c.rst THEN "Failed"
                    ELSE IF MeetsOversized(to, oversized) THEN "FrameTooLarge"
                    ELSE IF FoundEnd(c, budget) THEN "PeerClosed" ELSE "Open"]

-----------------------------------------------------------------------------
(* Output.                                                                 *)

fits_pending_output(c) == c.out < MaxPending

queue_frame(c) == [c EXCEPT !.out = @ + 1]

(* flush_output: as much as the socket takes; what stays is WANT_WRITE.    *)
flush_output(c) ==
    LET n == Smaller(c.out, SockRoom - c.sock)
    IN  [c EXCEPT !.out = @ - n, !.sock = @ + n]

FlushFails(c) == c.rst /\ c.out > 0

(* The peer.                                                               *)
PeerWrites(c, n) == [c EXCEPT !.sent = @ + n, !.cuts = @ \cup {c.sent + n}]
PeerReads(c)     == [c EXCEPT !.sock = @ - 1, !.got = @ + 1]
=============================================================================
