----------------------------- MODULE Revocation -----------------------------
(***************************************************************************)
(* Who is let in: the mTLS check, JWT authentication, the revocation list  *)
(* and the role check that every service runs before a handler             *)
(* (app/security.py and app/auth.py; the controller, the token engine and  *)
(* the SOAR service have the same copies), and POST /auth/revoke, which    *)
(* only the controller has.                                                *)
(*                                                                         *)
(* The dependencies of a request run one after the other, each in a thread *)
(* of its own, so the clock may move and other requests may run between    *)
(* the check of a token's exp and that of the revocation list.  A token is *)
(* named by its jti.                                                       *)
(*                                                                         *)
(* authRevoked is history.                                                 *)
(***************************************************************************)
EXTENDS Naturals

CONSTANTS
    AuthServices,     \* the processes; "controller" is one of them
    Slots,            \* requests that may be under way at once
    Tokens,           \* the tokens issued
    TokenExp,         \* the exp claim of each token
    Admins,           \* the tokens whose roles include controller:admin
    AuthMaxTime       \* bound on the clock

ASSUME AuthAssumption ==
    /\ "controller" \in AuthServices
    /\ Tokens # {}
    /\ TokenExp \in [Tokens -> Nat]
    /\ Admins \subseteq Tokens
    /\ AuthMaxTime \in Nat

VARIABLES
    authClock,     \* time.time()
    authList,      \* of each service: what _blacklist_expiry holds
    authStage,     \* of each slot: what comes next for its request
    authRequest,   \* its service and token, and whether it is POST /auth/revoke
    authRevoked    \* history: the exp of the last revocation since the start

authVars == <<authClock, authList, authStage, authRequest, authRevoked>>

Times == 0 .. AuthMaxTime
\* The partial functions from tokens to times.
Entries == UNION {[T -> Times] : T \in SUBSET Tokens}

AuthTypeOK ==
    /\ authClock \in Times
    /\ authList \in [AuthServices -> Entries]
    /\ authRevoked \in [AuthServices -> Entries]
    /\ \A s \in AuthServices : DOMAIN authList[s] \subseteq DOMAIN authRevoked[s]
    /\ authStage \in [Slots -> {"free", "mtls", "decode", "listed", "roles", "handler"}]
    /\ authRequest \in [Slots -> [service : AuthServices, token : Tokens, revokes : BOOLEAN]]

AuthInit ==
    /\ authClock = 0
    /\ authList = [s \in AuthServices |-> <<>>]
    /\ authRevoked = [s \in AuthServices |-> <<>>]
    /\ authStage = [q \in Slots |-> "free"]
    /\ authRequest = [q \in Slots |-> CHOOSE r \in [service : {"controller"}, token : Tokens, revokes : {FALSE}] : TRUE]

Goes(q, stage) == authStage' = [authStage EXCEPT ![q] = stage]
With(entries, jti, exp) ==
    [t \in DOMAIN entries \cup {jti} |-> IF t = jti THEN exp ELSE entries[t]]

-----------------------------------------------------------------------------
(* Seeded faults *)

\* Unlapsed: an entry goes in the second it lapses.
UnlapsedTooShort(entries) ==
    [t \in {u \in DOMAIN entries : entries[u] > authClock} |-> entries[t]]

-----------------------------------------------------------------------------
\* What _is_revoked leaves of the list.
Unlapsed(entries) ==
    [t \in {u \in DOMAIN entries : ~(entries[u] < authClock)} |-> entries[t]]

Arrive(q, s, t, revokes) ==
    /\ authStage[q] = "free"
    /\ revokes => s = "controller"
    /\ authRequest' = [authRequest EXCEPT ![q] = [service |-> s, token |-> t, revokes |-> revokes]]
    /\ Goes(q, "mtls")
    /\ UNCHANGED <<authClock, authList, authRevoked>>

\* MTLSVerifier: 401 unless the proxy's header says SUCCESS, or mTLS is not
\* required.
MtlsVerify(q) ==
    /\ authStage[q] = "mtls"
    /\ Goes(q, "decode") \/ Goes(q, "free")
    /\ UNCHANGED <<authClock, authList, authRequest, authRevoked>>

\* _decode_token: the claims are there, and exp has not come.  A bad
\* signature or no credentials end the same way as an expired token.
DecodeToken(q) ==
    /\ authStage[q] = "decode"
    /\ IF authClock < TokenExp[authRequest[q].token] THEN Goes(q, "listed") ELSE Goes(q, "free")
    /\ UNCHANGED <<authClock, authList, authRequest, authRevoked>>

\* _is_revoked, under the lock: purge, then look.
CheckRevoked(q) ==
    LET s == authRequest[q].service
    IN /\ authStage[q] = "listed"
       /\ authList' = [authList EXCEPT ![s] = Unlapsed(@)]
       /\ IF authRequest[q].token \in DOMAIN authList'[s] THEN Goes(q, "free") ELSE Goes(q, "roles")
       /\ UNCHANGED <<authClock, authRequest, authRevoked>>

\* require_roles: 403 without one of the roles the route asks for.
RequireRoles(q) ==
    /\ authStage[q] = "roles"
    /\ IF authRequest[q].revokes => authRequest[q].token \in Admins
         THEN Goes(q, "handler") ELSE Goes(q, "free")
    /\ UNCHANGED <<authClock, authList, authRequest, authRevoked>>

\* revoke_jwt: jti and exp are what the caller says, and a second revocation
\* of a token replaces the first.
RevokeToken(q, jti, exp) ==
    /\ authStage[q] = "handler" /\ authRequest[q].revokes
    /\ authList' = [authList EXCEPT !["controller"] = With(@, jti, exp)]
    /\ authRevoked' = [authRevoked EXCEPT !["controller"] = With(@, jti, exp)]
    /\ Goes(q, "free")
    /\ UNCHANGED <<authClock, authRequest>>

\* Any other handler.
Handle(q) ==
    /\ authStage[q] = "handler" /\ ~authRequest[q].revokes
    /\ Goes(q, "free")
    /\ UNCHANGED <<authClock, authList, authRequest, authRevoked>>

\* The list is in memory: a restarted process has none.
ServiceRestarts(s) ==
    /\ authList' = [authList EXCEPT ![s] = <<>>]
    /\ authRevoked' = [authRevoked EXCEPT ![s] = <<>>]
    /\ authStage' = [q \in Slots |-> IF authRequest[q].service = s THEN "free" ELSE authStage[q]]
    /\ UNCHANGED <<authClock, authRequest>>

AuthTick ==
    /\ authClock < AuthMaxTime
    /\ authClock' = authClock + 1
    /\ UNCHANGED <<authList, authStage, authRequest, authRevoked>>

AuthNext ==
    \/ \E q \in Slots :
         \/ \E s \in AuthServices, t \in Tokens, revokes \in BOOLEAN : Arrive(q, s, t, revokes)
         \/ MtlsVerify(q) \/ DecodeToken(q) \/ CheckRevoked(q) \/ RequireRoles(q) \/ Handle(q)
         \/ \E jti \in Tokens, exp \in Times : RevokeToken(q, jti, exp)
    \/ \E s \in AuthServices : ServiceRestarts(s)
    \/ AuthTick

AuthSpec == AuthInit /\ [][AuthNext]_authVars

-----------------------------------------------------------------------------
\* A token that a service was told to revoke passes no check of that process
\* before the exp of its last revocation is over, whatever other requests
\* purge or revoke meanwhile.  So if that exp is the token's own or later, a
\* request with it is let through only when the token expired between its two
\* checks.
RevocationHolds ==
    [][\A q \in Slots :
         LET s == authRequest[q].service
             t == authRequest[q].token
         IN authStage[q] = "listed" /\ authStage'[q] = "roles" /\ t \in DOMAIN authRevoked[s]
              => authRevoked[s][t] < authClock]_authVars
=============================================================================
