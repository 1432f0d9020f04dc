----------------------------- MODULE Addresses -----------------------------
(***************************************************************************)
(* Network addresses as the cidr functions compute with them (ip.c): an    *)
(* address is the sequence of its bits, the most significant first, 32 or  *)
(* 128 of them; a prefix is an address and a length.                       *)
(***************************************************************************)
EXTENDS Integers, Sequences

Bit == {0, 1}

\* ip_mask: every bit beyond the prefix becomes zero.
Mask(ip, plen) == [b \in DOMAIN ip |-> IF b > plen THEN 0 ELSE ip[b]]

\* ip_has_bits_below
HasBitsBelow(ip, plen) == \E b \in DOMAIN ip : b > plen /\ ip[b] = 1

\* Mutant: the carry runs to the end of the address, not of the prefix.
IncAtEnd(ip, plen) ==
    LET carried(b) == \A c \in DOMAIN ip : c > b => ip[c] = 1
    IN  [b \in DOMAIN ip |-> IF carried(b) THEN 1 - ip[b] ELSE ip[b]]

\* ip_inc_at: the next block of the prefix's size.  Ones at the end of the prefix
\* carry into the zero before them; after the last block comes the first.
IncAt(ip, plen) ==
    LET carried(b) == \A c \in DOMAIN ip : b < c /\ c <= plen => ip[c] = 1
    IN  [b \in DOMAIN ip |-> IF b <= plen /\ carried(b) THEN 1 - ip[b] ELSE ip[b]]

\* Bit b of a field of count bits that holds v.
FieldBit(v, count, b) == IF count - b > 30 THEN 0 ELSE (v \div 2 ^ (count - b)) % 2

\* ip_set_field, for fields of up to 64 bits: a wider one shifts v by more than its
\* width, which C does not define.
SetField(ip, start, count, v) ==
    [b \in DOMAIN ip |-> IF start < b /\ b <= start + count
                         THEN FieldBit(v, count, b - start) ELSE ip[b]]

\* ip_add: what does not fit is lost.
Add(ip, v) ==
    LET n == Len(ip)
        sum[b \in 1 .. n] ==
            ip[b] + FieldBit(v, n, b) + (IF b = n THEN 0 ELSE sum[b + 1] \div 2)
    IN  [b \in 1 .. n |-> sum[b] % 2]

\* The first block of the prefix's size from the cursor on.
Aligned(cur, plen) ==
    IF HasBitsBelow(cur, plen) THEN IncAt(Mask(cur, plen), plen) ELSE cur

\* cidrsubnets goes on with the block after the one it gave.
Allocated(first, plens) ==
    LET cursor[i \in 0 .. Len(plens)] ==
            IF i = 0 THEN first ELSE IncAt(Aligned(cursor[i - 1], plens[i]), plens[i])
    IN  [i \in 1 .. Len(plens) |-> Aligned(cursor[i - 1], plens[i])]

\* The bits of a netmask of 32.
Netmask(plen) == [b \in 1 .. 32 |-> IF b <= plen THEN 1 ELSE 0]
=============================================================================
