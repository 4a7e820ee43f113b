------------------------------- MODULE Events -------------------------------
(***************************************************************************)
(* The event record the BPF programs put on the ring buffers, and the      *)
(* collector's view of it (bpf/types.h, bpf/common.bpf.h, collector.Event).*)
(*                                                                         *)
(* A payload is a sequence of bytes; a byte is any value.  The fields that *)
(* nothing downstream branches on (tid, timestamp, ret) are left out, and  *)
(* remote_addr/remote_port are one value, `addr'.                          *)
(***************************************************************************)
EXTENDS Integers, Sequences

CONSTANTS
    DataCap,    \* DATA_CAP: size of the data[] array of an event (a power of two)
    FdSpan      \* 2^32: the width fds are widened through (uint64(uint32(fd)))

ASSUME CapAssumption == DataCap \in Nat \ {0} /\ FdSpan \in Nat \ {0}

Ops == {"connect", "read", "write", "close", "ssl_write", "ssl_read"}

\* The remote address of an event that has none: fill_common zeroes the field.
NoAddr == "0.0.0.0:0"

\* fill_common: everything the caller does not set afterwards is zeroed.
FillCommon(pid, op) ==
    [pid |-> pid, op |-> op, fd |-> 0, ssl |-> 0, addr |-> NoAddr,
     total |-> 0, data |-> <<>>]

\* Clamp to DATA_CAP-1 and mask with DATA_CAP-1 (for a power of two, the
\* remainder): the number of bytes asked of bpf_probe_read_user.
MutCapturedLenClampsToCap(n) == (IF n > DataCap THEN DataCap ELSE n) % DataCap
CapturedLen(n) == (IF n > DataCap - 1 THEN DataCap - 1 ELSE n) % DataCap

\* What e->data[:e->data_len] holds: nothing when the user page cannot be read.
Captured(bytes, readable) ==
    IF readable THEN SubSeq(bytes, 1, CapturedLen(Len(bytes))) ELSE <<>>

ConnectEvent(pid, fd, addr) ==
    [FillCommon(pid, "connect") EXCEPT !.fd = fd, !.addr = addr]

WriteEvent(pid, fd, bytes, readable) ==
    [FillCommon(pid, "write") EXCEPT
        !.fd = fd, !.total = Len(bytes), !.data = Captured(bytes, readable)]

ReadEvent(pid, fd, bytes, readable) ==
    [FillCommon(pid, "read") EXCEPT
        !.fd = fd, !.total = Len(bytes), !.data = Captured(bytes, readable)]

CloseEvent(pid, fd) == [FillCommon(pid, "close") EXCEPT !.fd = fd]

SSLWriteEvent(pid, ssl, bytes, readable) ==
    [FillCommon(pid, "ssl_write") EXCEPT
        !.fd = -1, !.ssl = ssl, !.total = Len(bytes),
        !.data = Captured(bytes, readable)]

SSLReadEvent(pid, ssl, bytes, readable) ==
    [FillCommon(pid, "ssl_read") EXCEPT
        !.fd = -1, !.ssl = ssl, !.total = Len(bytes),
        !.data = Captured(bytes, readable)]

-----------------------------------------------------------------------------
\* Event.Payload and Event.Truncated.
Payload(ev) == ev.data

Truncated(ev) == ev.total > Len(ev.data)

\* Conversions between an int32 fd and the uint64 id of a connection key.
WidenFd(fd) == fd % FdSpan

NarrowFd(id) == IF 2 * id >= FdSpan THEN id - FdSpan ELSE id
=============================================================================
