------------------------------ MODULE RawEvent ------------------------------
(***************************************************************************)
(* The binary event contract: a record of ebpf/tracer.c, laid out by the C *)
(* compiler, is decoded by binary.Read into RawEvent of                    *)
(* internal/collector/collector.go, field after field without alignment.   *)
(***************************************************************************)
EXTENDS Integers, Sequences

Field(name, size, align) == [name |-> name, size |-> size, align |-> align]

\* struct event; an array of char is aligned to one byte.
CEvent ==
    << Field("pid", 4, 4), Field("tid", 4, 4), Field("uid", 4, 4), Field("event_type", 1, 1),
       Field("comm", 16, 1), Field("filename", 128, 1), Field("dport", 2, 2),
       Field("daddr", 4, 4), Field("timestamp_ns", 8, 8), Field("arg1", 8, 8),
       Field("arg2", 8, 8) >>

\* RawEvent; blank fields are padding.
GoEvent ==
    << Field("pid", 4, 1), Field("tid", 4, 1), Field("uid", 4, 1), Field("event_type", 1, 1),
       Field("_", 3, 1), Field("comm", 16, 1), Field("filename", 128, 1), Field("dport", 2, 1),
       Field("_", 2, 1), Field("daddr", 4, 1), Field("timestamp_ns", 8, 1),
       Field("arg1", 8, 1), Field("arg2", 8, 1) >>

AlignUp(n, align) == ((n + align - 1) \div align) * align

\* The offset of the i-th field of a structure.
Offsets(fields) ==
    LET end[i \in 0 .. Len(fields)] ==
            IF i = 0 THEN 0 ELSE AlignUp(end[i - 1], fields[i].align) + fields[i].size
    IN  [i \in 1 .. Len(fields) |-> end[i] - fields[i].size]

OffsetOf(fields, name) ==
    Offsets(fields)[CHOOSE i \in 1 .. Len(fields) : fields[i].name = name]

\* The bytes at the start of a field that the decoded field lacks.
LostPrefix(name) == OffsetOf(GoEvent, name) - OffsetOf(CEvent, name)
=============================================================================
