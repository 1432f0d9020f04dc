------------------------------ MODULE Subnets ------------------------------
(***************************************************************************)
(* The cidr functions: the texts of addresses and prefixes (ip_parse_cidr, *)
(* ip_format) around the bits of Addresses.                                *)
(***************************************************************************)
EXTENDS Strings, Addresses
LOCAL INSTANCE SequencesExt

\* What digits are worth, or something beyond limit.
RECURSIVE ValueOf(_, _, _, _)
ValueOf(digits, alphabet, base, limit) ==
    LET but == SubSeq(digits, 1, Len(digits) - 1)
        last(n) == IF n > limit THEN n
                   ELSE base * n + ((PlaceIn(Char(digits, Len(digits)), alphabet) - 1) % base)
    IN  IF digits = "" THEN 0 ELSE last(ValueOf(but, alphabet, base, limit))

\* The number s spells in a base, at most limit; -1 if it does not.  Blanks and a
\* sign may come first, as strtol and %u take them.
Numeric(s, alphabet, base, limit) ==
    LET within(n, negative) == IF n > limit \/ (negative /\ n # 0) THEN -1 ELSE n
        number(digits, negative) ==
            IF digits = "" \/ (\E i \in 1 .. Len(digits) : ~Occurs(Char(digits, i), alphabet))
            THEN -1 ELSE within(ValueOf(digits, alphabet, base, limit), negative)
        signed(t) == number(IF Char(t, 1) \in {"+", "-"} THEN From(t, 2) ELSE t, Char(t, 1) = "-")
    IN  signed(TrimLeft(s, {" "}))

Hexes == "0123456789abcdef0123456789ABCDEF"

\* parse_groups: one colon may follow the last group.
Groups(s) ==
    LET good(groups) == IF Len(groups) > 8 \/ -1 \in Range(groups) THEN <<-1>> ELSE groups
        numbers(texts) == good([i \in DOMAIN texts |-> Numeric(texts[i], Hexes, 16, 65535)])
        full(pieces) == numbers(IF Last(pieces) = "" THEN Front(pieces) ELSE pieces)
    IN  full(Pieces(s, ":"))

\* The groups an IPv6 text stands for, <<-1>> for none.
Expanded(s) ==
    LET whole(groups) == IF Len(groups) = 8 THEN groups ELSE <<-1>>
        around(front, back) ==
            IF front = <<-1>> \/ back = <<-1>> \/ Len(front) + Len(back) > 7 THEN <<-1>>
            ELSE front \o [i \in 1 .. 8 - Len(front) - Len(back) |-> 0] \o back
        at(cut) == IF cut > Len(s) THEN whole(Groups(s))
                   ELSE around(Groups(SubSeq(s, 1, cut - 1)), Groups(From(s, cut + 2)))
    IN  at(Min({Len(s) + 1} \cup {i \in 1 .. Len(s) : IsAt(s, i, "::")}))

\* The bits of numbers of the same width, one after the other.
BitsOf(numbers, width) ==
    [b \in 1 .. Len(numbers) * width |->
       FieldBit(numbers[(b - 1) \div width + 1], width, ((b - 1) % width) + 1)]

NumbersOf(ip, width) ==
    [i \in 1 .. Len(ip) \div width |->
       FoldLeft(LAMBDA n, b : 2 * n + b, 0, SubSeq(ip, (i - 1) * width + 1, i * width))]

NoPrefix == [ip |-> <<>>, plen |-> -1]

\* ip_parse_cidr: an empty length is zero.
PrefixOf(s) ==
    LET six(groups, plen) == IF groups = <<-1>> THEN NoPrefix ELSE [ip |-> BitsOf(groups, 16), plen |-> plen]
        four(octets, plen) ==
            IF Len(octets) # 4 \/ -1 \in Range(octets) \/ plen > 32 THEN NoPrefix
            ELSE [ip |-> BitsOf(octets, 8), plen |-> plen]
        octetsOf(pieces) == [i \in DOMAIN pieces |-> Numeric(pieces[i], Digits, 10, 255)]
        prefix(addr, plen) ==
            CASE Len(addr) >= 64 \/ plen = -1 -> NoPrefix
              [] Occurs(":", addr) -> six(Expanded(addr), plen)
              [] OTHER -> four(octetsOf(Pieces(addr, ".")), plen)
        cutAt(slash) ==
            CASE slash > Len(s) -> NoPrefix
              [] OTHER -> prefix(SubSeq(s, 1, slash - 1),
                                 IF slash = Len(s) THEN 0 ELSE Numeric(From(s, slash + 1), Digits, 10, 128))
    IN  cutAt(Find(s, 1, {"/"}))

HexText(n) ==
    LET digit(i) == (n \div 16 ^ (4 - i)) % 16
        first == Min({4} \cup {i \in 1 .. 4 : digit(i) # 0})
    IN  Join([i \in 1 .. 5 - first |-> Char(Hexes, digit(first + i - 1) + 1)], "")

\* ip_format: the first of the longest runs of two or more zero groups is left out.
AddressText(ip) ==
    LET hex(groups) == Join([i \in DOMAIN groups |-> HexText(groups[i])], ":")
        without(g, run) == hex(SubSeq(g, 1, run[1] - 1)) \o "::" \o hex(SubSeq(g, run[1] + run[2], 8))
        shortened(g, runs) ==
            IF runs = {} THEN hex(g)
            ELSE without(g, CHOOSE r \in runs : \A q \in runs : q[2] < r[2] \/ (q[2] = r[2] /\ q[1] >= r[1]))
        six(g) == shortened(g, {r \in (1 .. 8) \X (2 .. 8) :
                                  r[1] + r[2] <= 9 /\ \A i \in r[1] .. r[1] + r[2] - 1 : g[i] = 0})
        four(octets) == Join([i \in 1 .. 4 |-> ToString(octets[i])], ".")
    IN  IF Len(ip) = 32 THEN four(NumbersOf(ip, 8)) ELSE six(NumbersOf(ip, 16))

PrefixText(ip, plen) == Str(AddressText(ip) \o "/" \o ToString(plen))

\* The functions, on arguments of the right kinds.
CidrSubnet(p, newbits, netnum) ==
    IF p.plen + newbits > Len(p.ip) \/ (newbits <= 30 /\ netnum >= 2 ^ newbits) THEN Error
    ELSE PrefixText(SetField(Mask(p.ip, p.plen), p.plen, newbits, netnum), p.plen + newbits)

CidrSubnets(p, newbits) ==
    LET plens == [i \in DOMAIN newbits |-> p.plen + newbits[i]]
        ips == Allocated(Mask(p.ip, p.plen), plens)
    IN  IF \E i \in DOMAIN plens : plens[i] > Len(p.ip) THEN Error
        ELSE Tuple([i \in DOMAIN plens |-> PrefixText(ips[i], plens[i])])

CidrHost(p, hostnum) == Str(AddressText(Add(Mask(p.ip, p.plen), hostnum)))

CidrNetmask(p) == IF Len(p.ip) # 32 THEN Error ELSE Str(AddressText(Netmask(p.plen)))

AddressBuiltins == {"cidrsubnet", "cidrsubnets", "cidrhost", "cidrnetmask"}

\* What the numbers after the prefix must be for each function.
Fits(f, args) ==
    /\ args # <<>> /\ Kind(args[1]) = "string"
    /\ \A i \in 2 .. Len(args) : Kind(args[i]) = "number" /\ args[i][2] >= 0
    /\ CASE f = "cidrsubnet" -> Len(args) = 3
         [] f = "cidrhost" -> Len(args) = 2
         [] f = "cidrnetmask" -> Len(args) = 1
         [] OTHER -> TRUE

OnPrefix(f, p, n) ==
    CASE p = NoPrefix -> Error
      [] f = "cidrsubnet" -> CidrSubnet(p, n[1], n[2])
      [] f = "cidrsubnets" -> CidrSubnets(p, n)
      [] f = "cidrhost" -> CidrHost(p, n[1])
      [] f = "cidrnetmask" -> CidrNetmask(p)

OnAddresses(f, args) ==
    IF ~Fits(f, args) THEN Error
    ELSE OnPrefix(f, PrefixOf(args[1][2]), [i \in 1 .. Len(args) - 1 |-> args[i + 1][2]])
=============================================================================
