----------------------------- MODULE Discovery ------------------------------
(***************************************************************************)
(* Where a device finds its Greengrass core: an address, a port and the    *)
(* certificate of the group, out of the document the cloud sends.          *)
(*                                                                         *)
(* The document lists groups, each with cores, their connectivity and the  *)
(* certificates of the group, members in any order.  The code does not     *)
(* follow this structure: it walks the tokens and takes what comes by.     *)
(***************************************************************************)
EXTENDS Json

CONSTANTS
    InterfaceWrap,    \* 2^8, the range of ucCurrentInterface and ucTargetInterface
    LoopBack,         \* "127.0.0.1"
    DoubleColon       \* the addresses with two colons in a row

ASSUME DiscoveryAssumption == InterfaceWrap \in Nat \ {0}

\* prvCheckMatch: the key, and behind it the value unless any will do.
CheckMatch(tokens, i, key, value, auto) == Jsoneq(tokens[i], key) /\ (auto \/ Jsoneq(tokens[i + 1], value))

\* prvGGDGetCore: where to begin to look for an interface, or 0.
GetCore(tokens, group, core, auto) ==
    LET groups == {i \in DOMAIN tokens : CheckMatch(tokens, i, "GGGroupId", group, FALSE)}
        cores == {i \in DOMAIN tokens : i > Min(groups) /\ CheckMatch(tokens, i, "thingArn", core, FALSE)}
    IN IF auto THEN 1
       ELSE IF groups = {} THEN 0 ELSE IF cores = {} THEN 0 ELSE Min(cores)

\* prvGGDGetCertificate: every later certificate takes the place of the one before.
GetCertificate(tokens, group, auto) ==
    LET first == IF auto THEN {0} ELSE {i \in DOMAIN tokens : CheckMatch(tokens, i, "GGGroupId", group, FALSE)}
        found == {i \in DOMAIN tokens : first # {} /\ i > Min(first) /\ Jsoneq(tokens[i], "CAs")}
    IN IF found = {} THEN 0 ELSE Max(found) + 1

\* A mutant of Unescape: the character behind an escape is lost.
UnescapeGreedy(text) ==
    LET from[r \in Nat] ==
          IF r >= Len(text) THEN <<>>
          ELSE IF text[r] = "\\" /\ text[r + 1] = "n" THEN <<"newline">> \o from[r + 3]
          ELSE <<text[r]>> \o from[r + 1]
    IN from[1]

\* The loop of prvGGDGetCertificate that turns \n into a newline, on the text
\* of the array behind its first two characters; the last character that is
\* written gives way to the terminator.
Unescape(text) ==
    LET from[r \in Nat] ==
          IF r >= Len(text) THEN <<>>
          ELSE IF text[r] = "\\" /\ text[r + 1] = "n" THEN <<"newline">> \o from[r + 2]
          ELSE <<text[r]>> \o from[r + 1]
    IN from[1]

Certificate(text) == LET u == Unescape(text) IN SubSeq(u, 1, Len(u) - 1)

\* prvIsIPvalid: not the loop back and not an address with two colons in a row.
IsIPvalid(ip) == ip # LoopBack /\ ip \notin DoubleColon

\* prvGGDGetIPOnInterface: an address and a port, in whatever order, make an
\* interface; the one whose number is the target is the result.
GetIPOnInterface(tokens, from, target, current) ==
    LET walk[i \in Nat, n \in Nat, host \in 0..Len(tokens), port \in 0..Len(tokens)] ==
          IF i > Len(tokens) THEN [found |-> FALSE, next |-> i + 1, current |-> n, host |-> host, port |-> port]
          ELSE LET h == IF Jsoneq(tokens[i], "HostAddress") THEN i + 1 ELSE host
                   p == IF Jsoneq(tokens[i], "PortNumber") THEN i + 1 ELSE port
               IN IF h = 0 \/ p = 0 THEN walk[i + 1, n, h, p]
                  ELSE IF (n + 1) % InterfaceWrap = target
                       THEN [found |-> TRUE, next |-> i + 1, current |-> (n + 1) % InterfaceWrap, host |-> h, port |-> p]
                       ELSE walk[i + 1, (n + 1) % InterfaceWrap, 0, 0]
    IN walk[from, current, 0, 0]

\* A mutant of GetInterface: the first address is taken as it is.
GetAnyInterface(tokens, from, auto) == GetIPOnInterface(tokens, from, 1, 0)

\* The first interface from a token on, with auto the first whose address will do.
GetInterface(tokens, from, auto) ==
    LET search[target \in Nat, next \in Nat, current \in Nat] ==
            LET r == GetIPOnInterface(tokens, next, target, current)
            IN IF ~r.found \/ ~auto \/ IsIPvalid(tokens[r.host].of.text) THEN r
               ELSE search[(target + 1) % InterfaceWrap, r.next, r.current]
    IN search[1, from, 0]

\* GGD_GetIPandCertificateFromJSON, and with auto GGD_GetGGCIPandCertificate.
GetIPandCertificate(document, group, core, auto) ==
    LET tokens == Tokens(document)
        certificate == GetCertificate(tokens, group, auto)
        start == GetCore(tokens, group, core, auto)
        interface == GetInterface(tokens, start, auto)
    IN IF certificate = 0 \/ start = 0 THEN [found |-> FALSE]
       ELSE IF ~interface.found THEN [found |-> FALSE]
       ELSE [found |-> TRUE, host |-> tokens[interface.host].of.text, port |-> tokens[interface.port].of.value,
             certificate |-> tokens[certificate].of]

----------------------------------------------------------------------------
\* What the document says: every interface with its core, group and certificates.
Groups(document) == LET gs == document.members[1][2].items IN {gs[g] : g \in DOMAIN gs}
Field(object, key) == object.members[CHOOSE i \in DOMAIN object.members : object.members[i][1] = key][2]
Items(array) == {array.items[i] : i \in DOMAIN array.items}
Offers(document) ==
    UNION {UNION {{[group |-> Field(g, "GGGroupId").text, core |-> Field(c, "thingArn").text,
                    host |-> Field(f, "HostAddress").text, port |-> Field(f, "PortNumber").value,
                    certificate |-> Field(g, "CAs")] : f \in Items(Field(c, "Connectivity"))}
                  : c \in Items(Field(g, "Cores"))}
           : g \in Groups(document)}

\* The order the cloud writes: an id ahead of what belongs to it, and every core with an interface.
IdsFirst(document) ==
    \A g \in Groups(document) :
        /\ g.members[1][1] = "GGGroupId"
        /\ \A c \in Items(Field(g, "Cores")) : c.members[1][1] = "thingArn" /\ Items(Field(c, "Connectivity")) # {}

\* What is found is what one interface of the document offers: its address with
\* its own port and, when there is one group, the certificate of the group; the
\* automatic choice fails only if no address will do.  A document with several
\* groups pairs the first address with the certificate of the last group.
\* Asked for a core, the core's interface is found if ids come first.
OfferIsFound(document, group, core, auto) ==
    LET r == GetIPandCertificate(document, group, core, auto)
        offers == Offers(document)
        single == Cardinality(Groups(document)) = 1
    IN /\ r.found =>
            /\ \E o \in offers : o.host = r.host /\ o.port = r.port
            /\ single => \E o \in offers : /\ <<o.host, o.port, o.certificate>> = <<r.host, r.port, r.certificate>>
                                           /\ ~auto /\ IdsFirst(document) => o.core = core
            /\ auto => IsIPvalid(r.host)
       /\ auto => (r.found <=> \E o \in offers : IsIPvalid(o.host))

\* The certificate is the string of the array, its escapes undone, none of it
\* lost and nothing behind it taken along.
CertificateIsWhole(lines) ==
    LET escaped == FlattenSeq([i \in DOMAIN lines |-> lines[i] \o <<"\\", "n">>])
        plain == FlattenSeq([i \in DOMAIN lines |-> Append(lines[i], "newline")])
    IN Certificate(escaped \o <<"quote", "]">>) = plain
=============================================================================
