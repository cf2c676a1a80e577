------------------------------ MODULE NtsServer ------------------------------
(***************************************************************************)
(* The NTP server's key establishment (NTS-KE) and its authenticated UDP   *)
(* responder, around the cookies they share.                               *)
(*   ntp-server/bins/server.py   CookieManager, verify_jwt, NTSKEServer,   *)
(*                               NTPUDPServer, master_key_rotation_task    *)
(*                                                                         *)
(* The server keeps no sessions: a cookie carries the session keys, sealed *)
(* under a master key that a task replaces every Period. One event loop    *)
(* runs everything, so a handler is one step. Packet layout is left out: a *)
(* request is the cookie it carries and whether its authenticator was made *)
(* with the key in the cookie.                                             *)
(*                                                                         *)
(* Time is counted in ticks. A cookie expires at int(now + 86400), rounded *)
(* down, so one sealed before an event has expired Lifetime after it.      *)
(***************************************************************************)
EXTENDS Integers

CONSTANTS
    Clients,     \* NTS-KE clients
    Lifetime,    \* 86400 s: life of a cookie
    Period,      \* 86400 s: the rotation task sleeps this long
    Grace,       \* 3600 s: previous_key_expires_at
    ByteLimit,   \* 256: the version is packed into one byte
    MaxVersion,  \* bound on rotations of one process
    MaxBoots     \* bound on restarts

ASSUME NtsAssumption ==
    /\ {Lifetime, Period, Grace, ByteLimit, MaxVersion, MaxBoots} \subseteq Nat
    /\ Lifetime > 0 /\ Lifetime <= Period /\ Grace < Period /\ ByteLimit > 0

\* A sealed cookie. The key it is sealed under is that of version ver in
\* process boot: a restart draws new keys and counts versions from 0 again.
Cookie == [client : Clients, ver : 0..MaxVersion, boot : 0..MaxBoots, left : 0..Lifetime]

\* The bearer token of the SQUAWK_AUTH_TOKEN record.
AuthToken == [kid : {"absent", "known", "unknown"}, signed : BOOLEAN, expired : BOOLEAN,
              tenant : BOOLEAN, scopes : {{}, {"ntp:client"}, {"ntp:admin"}}]

VARIABLES
    version,    \* CookieManager.master_key_version
    keys,       \* versions in CookieManager.master_keys
    slept,      \* time since the rotation task last ran, up to Period
    boot,       \* which process this is
    udp,        \* whether the UDP loop runs
    cookies,    \* cookies handed out, by any process
    lastAnswer  \* history: was the last request genuine and live, and its outcome

ntsVars == <<version, keys, slept, boot, udp, cookies, lastAnswer>>

NtsTypeOK ==
    /\ version \in 0..MaxVersion /\ keys \subseteq 0..MaxVersion
    /\ slept \in 0..Period /\ boot \in 0..MaxBoots
    /\ udp \in BOOLEAN
    /\ cookies \subseteq Cookie
    /\ lastAnswer \in [live : BOOLEAN, out : {"none", "time", "dropped", "limited"}]

\* CookieManager.__init__ and main.
Booted == version' = 0 /\ keys' = {0} /\ slept' = 0 /\ udp' = TRUE

NtsInit ==
    /\ version = 0 /\ keys = {0} /\ slept = 0 /\ udp = TRUE
    /\ boot = 0 /\ cookies = {}
    /\ lastAnswer = [live |-> FALSE, out |-> "none"]

-----------------------------------------------------------------------------
(* Cookies. *)

\* struct.pack("!B", version) raises from 256 on.
Sealable == version < ByteLimit

\* Mutation: a cookie lives one unit longer than sealed for.
SealedLong(c) == [client |-> c, ver |-> version, boot |-> boot, left |-> Lifetime + 1]

Sealed(c) == [client |-> c, ver |-> version, boot |-> boot, left |-> Lifetime]

\* Mutation: the expiry inside the cookie is not looked at.
UnsealsLapsed(ck) == ck.ver \in keys /\ ck.boot = boot

\* unseal_cookie: the key of that version is kept, decrypts, and the expiry
\* inside is ahead. A cookie of an earlier process fails to decrypt.
Unseals(ck) == ck.ver \in keys /\ ck.boot = boot /\ ck.left > 0

\* Mutation: rotation deletes the key it replaces instead of the one before.
RotateKeyEager ==
    /\ slept = Period /\ version < MaxVersion
    /\ keys' = (IF slept > Grace THEN keys \ {version} ELSE keys) \cup {version + 1}
    /\ version' = version + 1
    /\ slept' = 0
    /\ UNCHANGED <<boot, udp, cookies, lastAnswer>>

\* master_key_rotation_task and rotate_key. The task runs at Period or later.
RotateKey ==
    /\ slept = Period /\ version < MaxVersion
    /\ keys' = (IF slept > Grace THEN keys \ {version - 1} ELSE keys) \cup {version + 1}
    /\ version' = version + 1
    /\ slept' = 0
    /\ UNCHANGED <<boot, udp, cookies, lastAnswer>>

-----------------------------------------------------------------------------
(* Requests. *)

\* verify_jwt: an unknown kid is refused at once; a token without kid is tried
\* with every key.
VerifyJwt(tok, scope) ==
    /\ tok.kid # "unknown" /\ tok.signed
    /\ ~tok.expired /\ tok.tenant
    /\ scope \in tok.scopes

\* NTSKEServer.handle_client. Eight cookies over the same keys are handed out;
\* a copy adds nothing. A refusal and a failure to seal change nothing.
HandleClient(c, tok) ==
    /\ VerifyJwt(tok, "ntp:client") /\ Sealable
    /\ cookies' = cookies \cup {Sealed(c)}
    /\ UNCHANGED <<version, keys, slept, boot, udp, lastAnswer>>

\* NTPUDPServer.handle_request, and run around it.
RateLimited(live) ==
    /\ lastAnswer' = [live |-> live, out |-> "limited"]
    /\ UNCHANGED <<udp, cookies>>

Dropped(live) ==
    /\ lastAnswer' = [live |-> live, out |-> "dropped"]
    /\ UNCHANGED <<udp, cookies>>

Answered(ck) ==
    /\ Sealable
    /\ lastAnswer' = [live |-> TRUE, out |-> "time"]
    /\ cookies' = cookies \cup {Sealed(ck.client)}
    /\ UNCHANGED udp

\* An exception leaves the receive loop for good: wire_decode of a cookie with
\* an empty body, struct.pack of an origin that rounds to 2^64 or of a version
\* from ByteLimit on, sock_sendto. A cookie sealed meanwhile is not sent.
Failed == udp' = FALSE /\ UNCHANGED <<cookies, lastAnswer>>

HandleRequest(ck, genuine) ==
    LET live == genuine /\ ck.boot = boot /\ ck.left > 0
    IN /\ udp
       /\ \/ RateLimited(live)
          \/ ~(Unseals(ck) /\ genuine) /\ Dropped(live)
          \/ Unseals(ck) /\ genuine /\ Answered(ck)
          \/ Failed
       /\ UNCHANGED <<version, keys, slept, boot>>

\* An OSError of sock_recvfrom leaves it too.
ReceiveFails == udp /\ Failed /\ UNCHANGED <<version, keys, slept, boot>>

-----------------------------------------------------------------------------
Restart ==
    /\ boot < MaxBoots
    /\ boot' = boot + 1
    /\ Booted
    /\ lastAnswer' = [live |-> FALSE, out |-> "none"]
    /\ UNCHANGED cookies

OlderCookie(ck) == [ck EXCEPT !.left = IF ck.left = 0 THEN 0 ELSE ck.left - 1]

NtsTick ==
    /\ slept' = IF slept < Period THEN slept + 1 ELSE Period
    /\ cookies' = {OlderCookie(ck) : ck \in cookies}
    /\ UNCHANGED <<version, keys, boot, udp, lastAnswer>>

NtsNext ==
    \/ \E c \in Clients, tok \in AuthToken : HandleClient(c, tok)
    \/ \E ck \in cookies, genuine \in BOOLEAN : HandleRequest(ck, genuine)
    \/ ReceiveFails
    \/ RotateKey
    \/ Restart
    \/ NtsTick

NtsSpec == NtsInit /\ [][NtsNext]_ntsVars

-----------------------------------------------------------------------------
(* Properties. *)

\* Every cookie the running process handed out unseals until it expires,
\* however rotations fall: rotate_key keeps the key it replaces until the
\* rotation after next, and a cookie does not outlive a period.
CookieHonoured ==
    \A ck \in cookies : ck.boot = boot /\ ck.left > 0 => ck.ver \in keys

\* With keys, versions and rotation hidden the server is a lease service: while
\* the receive loop runs, a genuine request under an unexpired cookie of this
\* process is answered or rate limited, or its exception ends the loop, and no
\* other request is answered (handle_request, unseal_cookie, rotate_key). Any
\* error may end the loop (run), and it stays ended until a restart.
LeaseService == INSTANCE CookieLease WITH
    lease    <- {[client |-> ck.client, left |-> ck.left] : ck \in {d \in cookies : d.boot = boot}},
    running  <- udp,
    exchange <- lastAnswer

\* The NTS server implements the lease service.
ImplementsLease == LeaseService!LeaseSpec
=============================================================================
