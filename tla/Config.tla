------------------------------- MODULE Config -------------------------------
(***************************************************************************)
(* The configuration of one role: what Config::validate refuses, and what  *)
(* the daemon takes for granted once it has validated.  Texts are kept     *)
(* apart only as far as the rules do: an address parses or it does not, a  *)
(* public key decodes to 32 bytes or it does not, and two texts may decode *)
(* to the same key.                                                        *)
(***************************************************************************)
EXTENDS Naturals, Sequences, Functions

CONSTANTS Ids,        \* link ids
          Names,      \* peer names
          Addresses,  \* texts that parse as host:port
          BadTexts,   \* texts that do not
          KeyTexts,   \* texts of public keys
          DecodedKey, \* the key each decodes to, None if it decodes to none
          None        \* an absent optional value

ASSUME NoneAssumption == None \notin Ids \cup Names \cup Addresses \cup BadTexts \cup KeyTexts
ASSUME TextsAssumption == Addresses \cap BadTexts = {}
ASSUME DecodedKeyAssumption == KeyTexts \subseteq DOMAIN DecodedKey

Roles      == {"server", "client"}
Modes      == {"forward", "reverse"}
Transports == {"tcp", "udp"}
OptAddress == Addresses \cup BadTexts \cup {None}

LinkConfig == [id : Ids, mode : Modes, transport : Transports,
               listen : OptAddress, target : OptAddress]
PeerConfig == [name : Names, public_key : KeyTexts, links : Seq(Ids)]
Configs ==
  [role : Roles, peer_public_key : KeyTexts \cup {None}, peers : Seq(PeerConfig),
   listen_control : OptAddress, listen_data : OptAddress, listen_udp : OptAddress,
   server_control_addr : OptAddress, server_data_addr : OptAddress,
   server_udp_addr : OptAddress, links : Seq(LinkConfig)]
-----------------------------------------------------------------------------
(***************************************************************************)
(* Validation.  An error is a pair: what is wrong, and with what.          *)
(***************************************************************************)
Decodes(text) == DecodedKey[text] # None

\* The errors of a rule that is broken when cond holds.
When(cond, error) == IF cond THEN {error} ELSE {}

RequirePresent(field, value) == When(value = None, <<"required", field>>)
RequireAbsent(field, value) == When(value # None, <<"forbidden", field>>)

LinkNeedsListen(role, mode) == <<role, mode>> \in {<<"client", "forward">>, <<"server", "reverse">>}

ValidateLink(role, link) ==
  LET needsListen == LinkNeedsListen(role, link.mode)
      required    == IF needsListen THEN link.listen ELSE link.target
      forbidden   == IF needsListen THEN link.target ELSE link.listen
  IN  RequirePresent(link.id, required) \cup RequireAbsent(link.id, forbidden)
      \cup When(required \in BadTexts, <<"unparsable", link.id>>)

\* Where a value is met that was inserted in the HashSet before.
Repeats(values) == {i \in DOMAIN values : \E k \in 1..(i - 1) : values[k] = values[i]}

ValidateLinks(c) ==
  {<<"duplicate id", c.links[i].id>> : i \in Repeats([j \in DOMAIN c.links |-> c.links[j].id])}
    \cup UNION {ValidateLink(c.role, l) : l \in Range(c.links)}

LinkIds(c) == {l.id : l \in Range(c.links)}

ValidatePeers(c) ==
  LET reused == {i \in Repeats([j \in DOMAIN c.peers |-> DecodedKey[c.peers[j].public_key]]) :
                   Decodes(c.peers[i].public_key)}
  IN  {<<"duplicate name", c.peers[i].name>> :
          i \in Repeats([j \in DOMAIN c.peers |-> c.peers[j].name])}
        \cup {<<"key reused", c.peers[i].name>> : i \in reused}
        \cup {<<"bad key", p.name>> :
                p \in {q \in Range(c.peers) : ~Decodes(q.public_key)}}
        \cup {<<"unknown link", p.name>> :
                p \in {q \in Range(c.peers) : ~(Range(q.links) \subseteq LinkIds(c))}}

ValidateServer(c) ==
  RequirePresent("listen_control", c.listen_control)
    \cup RequirePresent("listen_data", c.listen_data)
    \cup RequireAbsent("server_control_addr", c.server_control_addr)
    \cup RequireAbsent("server_data_addr", c.server_data_addr)
    \cup RequireAbsent("peer_public_key", c.peer_public_key)
    \cup When(c.peers = <<>>, <<"required", "peers">>)
    \cup ValidatePeers(c)

ValidateClient(c) ==
  RequirePresent("server_control_addr", c.server_control_addr)
    \cup RequirePresent("server_data_addr", c.server_data_addr)
    \cup RequireAbsent("listen_control", c.listen_control)
    \cup RequireAbsent("listen_data", c.listen_data)
    \cup RequirePresent("peer_public_key", c.peer_public_key)
    \cup When(c.peer_public_key # None /\ ~Decodes(c.peer_public_key),
              <<"bad key", "peer_public_key">>)
    \cup When(c.peers # <<>>, <<"forbidden", "peers">>)

\* The UDP field of the other role is not looked at.
ValidateUdp(c) ==
  LET udp   == {l \in Range(c.links) : l.transport = "udp"}
      field == IF c.role = "server" THEN "listen_udp" ELSE "server_udp_addr"
      value == IF c.role = "server" THEN c.listen_udp ELSE c.server_udp_addr
  IN  {<<"reverse udp", l.id>> : l \in {k \in udp : k.mode = "reverse"}}
        \cup (IF udp # {} THEN RequirePresent(field, value) ELSE RequireAbsent(field, value))

Validate(c) ==
  (IF c.role = "server" THEN ValidateServer(c) ELSE ValidateClient(c))
    \cup ValidateLinks(c) \cup ValidateUdp(c)

Valid(c) == Validate(c) = {}
-----------------------------------------------------------------------------
(***************************************************************************)
(* Running.  The daemon unwraps optional values with expect("validated:    *)
(* ..."), some when it starts and some when a connection arrives; a peer's *)
(* data connection reaches only the links the peer may use.                *)
(***************************************************************************)
UnwrapsServer(c) ==
  LET granted == UNION {Range(p.links) : p \in Range(c.peers)}
      Tcp(mode) == {l \in Range(c.links) : l.transport = "tcp" /\ l.mode = mode}
  IN  {c.listen_control, c.listen_data}
        \cup {l.listen : l \in Tcp("reverse")}
        \cup {l.target : l \in {k \in Tcp("forward") : k.id \in granted}}
        \cup {l.target : l \in {k \in Range(c.links) :
                /\ c.listen_udp # None
                /\ k.transport = "udp" /\ k.mode = "forward" /\ k.id \in granted}}

UnwrapsClient(c) ==
  LET Forward(transport) == {l \in Range(c.links) : l.transport = transport /\ l.mode = "forward"}
  IN  {c.peer_public_key, c.server_control_addr, c.server_data_addr}
        \cup {l.listen : l \in Forward("tcp") \cup Forward("udp")}
        \cup {c.server_udp_addr : l \in Forward("udp")}

Unwraps(c) == IF c.role = "server" THEN UnwrapsServer(c) ELSE UnwrapsClient(c)

\* How a daemon past its checks may go on, whatever the system lets it bind.
\* Built with the udp feature, the first of two futures to return ends it: the
\* UDP one with the error of its bind (an address that does not parse binds
\* nothing, and it was not validated), server::run with success once the
\* control, data and status listeners are all gone for want of a bind.  A
\* client goes on without what does not bind.
RunListeners(c) ==
  IF c.role = "client" THEN {"running"}
  ELSE {"ended"} \cup (IF c.listen_udp = None THEN {} ELSE {"failed"})
                 \cup (IF c.listen_udp \in BadTexts THEN {} ELSE {"running"})

\* Mutant: the daemon starts without validating.
RunDaemonUnchecked(c, keyReadable) ==
  IF ~keyReadable THEN {"no key"}
  ELSE IF None \in Unwraps(c) THEN {"panicked"}
  ELSE RunListeners(c)

\* How run_daemon on a file that parses may go: refused, stopped for want of the
\* private key, running into an expect(), or as its listeners let it.
RunDaemon(c, keyReadable) ==
  IF ~Valid(c) THEN {"refused"}
  ELSE IF ~keyReadable THEN {"no key"}
  ELSE IF None \in Unwraps(c) THEN {"panicked"}
  ELSE RunListeners(c)
=============================================================================
