----------------------------- MODULE IpAddress -----------------------------
(***************************************************************************)
(* IP addresses in configuration files.  A text is a sequence of tokens:   *)
(* "/", "%", "!" for a character that is not allowed, and words.           *)
(***************************************************************************)
EXTENDS IntUtils, TLC

CONSTANTS
    inet_pton,   \* the words that are addresses: [family, address] each
    inet_ntop,   \* the word that is printed for an address
    chars        \* the characters of every word

Separators == {"/", "%", "!"}

\* An address is printed as a word that is read as the same address; to_string
\* prints a number in decimal.
ASSUME WordsAssumption ==
    /\ DOMAIN inet_pton \subseteq DOMAIN chars /\ DOMAIN chars \cap Separators = {}
    /\ \A word \in DOMAIN chars : chars[word] \in Seq(STRING)
    /\ \A word \in DOMAIN inet_pton :
           LET printed == inet_ntop[inet_pton[word].address]
           IN  /\ inet_pton[word].family \in {4, 6}
               /\ printed \in DOMAIN inet_pton /\ inet_pton[printed] = inet_pton[word]
    /\ \A n \in 0 .. 128 :
           /\ ToString(n) \in DOMAIN chars
           /\ LET numeral == chars[ToString(n)]
              IN  numeral # <<>> /\ Range(numeral) \subseteq Range(digits) /\ Denotes(numeral) = n

\* How many elements of S are up to i, and the element that is the k-th.
Rank(S, i) == Cardinality({j \in S : j <= i})
Nth(S, k)  == CHOOSE i \in {j \in S : Rank(S, j) = k} : TRUE

\* The pieces between delimiters; a delimiter at the end has none after it.
split(c, delimiter) ==
    LET bounds == {0, Len(c) + 1} \cup {i \in DOMAIN c : c[i] = delimiter}
        pieces == [k \in 1 .. Cardinality(bounds) - 1 |->
                       SubSeq(c, Nth(bounds, k) + 1, Nth(bounds, k + 1) - 1)]
    IN  IF Last(pieces) = <<>> THEN Front(pieces) ELSE pieces

get_std_subnet(version, ip_subnet) ==
    IF version = 6 THEN (IF ip_subnet[1] # <<"::1">> THEN 64 ELSE 128) ELSE 24

\* A piece of a text that has at most one "/", and no "%" or "!", is one word.
Spelled(piece) == chars[piece[1]]

\* Mutant: one limit for both versions.
get_subnet_unchecked(version, ip_subnet) ==
    IF Len(ip_subnet) > 1 THEN str_to_integral(128, Spelled(ip_subnet[2]))
    ELSE <<get_std_subnet(version, ip_subnet)>>

get_subnet(version, ip_subnet) ==
    LET subnet == IF Len(ip_subnet) > 1
                  THEN str_to_integral(255, Spelled(ip_subnet[2]))
                  ELSE <<get_std_subnet(version, ip_subnet)>>
    IN  IF subnet # Threw /\ subnet[1] <= (IF version = 4 THEN 32 ELSE 128) THEN subnet ELSE Threw

get_af(text) ==
    IF \E word \in DOMAIN inet_pton : text = <<word>> THEN <<inet_pton[text[1]].family>> ELSE Threw

parse_ip(ip) ==
    LET ip_subnet == split(split(ip, "%")[1], "/")
        version   == get_af(ip_subnet[1])
        subnet    == get_subnet(version[1], ip_subnet)
    IN  IF \/ ip = <<>>
           \/ "!" \in Range(ip)
           \/ Cardinality({i \in DOMAIN ip : ip[i] = "/"}) > 1
           \/ ip_subnet = <<>> \/ version = Threw \/ subnet = Threw
        THEN Threw
        ELSE <<[family |-> version[1], address |-> inet_pton[ip_subnet[1][1]].address,
                subnet |-> subnet[1]]>>

pure(ipa) == inet_ntop[ipa.address]

with_subnet(ipa) == <<pure(ipa), "/", ToString(ipa.subnet)>>

----------------------------------------------------------------------------
\* What parse_ip accepts has a subnet that fits its version, and printing it,
\* as the `ip addr add' command does, gives a text of the same address and
\* subnet, however the address was written.
AddressExact(ip) ==
    LET a == parse_ip(ip)
    IN  a # Threw =>
            /\ a[1].subnet \in 0 .. (IF a[1].family = 4 THEN 32 ELSE 128)
            /\ parse_ip(with_subnet(a[1])) = a
=============================================================================
