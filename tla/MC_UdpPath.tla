----------------------------- MODULE MC_UdpPath -----------------------------
(* Small instances of UdpPath for TLC. *)
EXTENDS UdpPath

MCHeader(id, s, bits, type, flag) ==
    [conn_id |-> id, seq |-> s, ack |-> s, ack_bits |-> bits,
     channel_id |-> 1, channel_type |-> type, flags |-> flag,
     header_len |-> kHeaderLength, reserved |-> 0]

MCHeaders ==
    {MCHeader(id, s, [high |-> hi, low |-> 6], 2, 33) :
        id \in {0, 27}, s \in {1, 64, 255}, hi \in {0, 5}}
    \cup {MCHeader(9, 9, [high |-> 0, low |-> 0], t, f) :
            t \in {0, 3}, f \in {0, 63}}

\* The same fields with a fixed field of another version.
MCForeign ==
    LET h == MCHeader(9, 9, [high |-> 0, low |-> 0], 0, 0)
    IN {[h EXCEPT !.header_len = 32], [h EXCEPT !.reserved = 1],
        [h EXCEPT !.channel_type = 4], [h EXCEPT !.flags = 64]}

MCShort == {<< >>, [i \in 1 .. kHeaderLength - 1 |-> 0]}

MCPayloads == {<< >>, <<7>>, <<7, 0>>}
=============================================================================
