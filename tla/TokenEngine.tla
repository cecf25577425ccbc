----------------------------- MODULE TokenEngine -----------------------------
(***************************************************************************)
(* The token engine (token-engine/app: main.py, store.py, rotator.py,      *)
(* generator.py, emitters.py, decoy_files.py): requests that make, rotate, *)
(* bundle and report honeytokens, at one of several replicas.              *)
(*                                                                         *)
(* Each replica has a SQLite database in a file of its own.  The file      *)
(* survives a crash of the process, but infra/k8s/token-engine.yaml mounts *)
(* no volume for it, so a new container begins with an empty one.          *)
(*                                                                         *)
(* The handlers are coroutines of one event loop and wait only for the     *)
(* webhook of an access; but every write is a transaction of its own, and  *)
(* a crash may come between two.  A token is the number of its uuid4; its  *)
(* value, its expiry, which nothing reads, and who asks are left out.      *)
(***************************************************************************)
EXTENDS Naturals, Sequences, SequencesExt

CONSTANTS
    TokenRequests,    \* the requests that may come
    TypeLists,        \* the lists of types a rotation may name
    NamedTypes,       \* the types a POST /tokens may name
    KnownTypes,       \* the keys of _GENERATORS
    BundleTypes,      \* the types build_decoy_bundle makes one token of each
    TokEngines,       \* the replicas
    MaxTokens,        \* bound on the tokens ever made
    MaxContainers     \* bound on the new containers of a replica

ASSUME TokenAssumption ==
    /\ MaxTokens \in Nat /\ MaxContainers \in Nat
    /\ NamedTypes \subseteq STRING
    /\ BundleTypes \in Seq(KnownTypes)
    /\ TypeLists \subseteq Seq(STRING)

VARIABLES
    tokContainer,  \* number of containers each replica has had before
    tokRows,       \* the tables tokens of all databases, in the order of insertion
    tokAccesses,   \* the tables accesses, as <<request, token>>
    tokMade,       \* number of tokens generated
    tokRequest     \* of each request: stage, the database, all types it named, tokens made,
                   \* and the token an access is about

tokVars == <<tokContainer, tokRows, tokAccesses, tokMade, tokRequest>>

\* A database is known by its replica and its container.
Bases == TokEngines \X (0 .. MaxContainers)
BaseOf(e) == <<e, tokContainer[e]>>
NoBase == <<>>

Row == [id : 1 .. MaxTokens, type : KnownTypes, base : Bases]
RequestStages == {"new", "making", "emitting", "answered", "not_found", "raised", "lost"}

TokTypeOK ==
    /\ tokContainer \in [TokEngines -> 0 .. MaxContainers]
    /\ tokMade \in 0 .. MaxTokens
    /\ tokRows \in Seq(Row)
    /\ tokAccesses \in Seq(TokenRequests \X (1 .. MaxTokens))
    /\ \A q \in TokenRequests :
         /\ tokRequest[q].stage \in RequestStages
         /\ tokRequest[q].base \in Bases \cup {NoBase}
         /\ tokRequest[q].made \in Seq(1 .. MaxTokens)
         /\ tokRequest[q].token \in 0 .. MaxTokens

Fresh ==
    [stage |-> "new", base |-> NoBase, named |-> <<>>, made |-> <<>>, token |-> 0]

TokInit ==
    /\ tokContainer = [e \in TokEngines |-> 0]
    /\ tokRows = <<>>
    /\ tokAccesses = <<>>
    /\ tokMade = 0
    /\ tokRequest = [q \in TokenRequests |-> Fresh]

\* The tokens stored in any database, and in one of them.
AllIds == {tokRows[n].id : n \in DOMAIN tokRows}
Ids(base) == {tokRows[n].id : n \in {m \in DOMAIN tokRows : tokRows[m].base = base}}
\* No handler holds the event loop of the replica.
LoopIsFree(e) ==
    \A q \in TokenRequests : ~(tokRequest[q].stage = "making" /\ tokRequest[q].base = BaseOf(e))
Known(type) == type \in KnownTypes
Becomes(q, stage) == tokRequest' = [tokRequest EXCEPT ![q].stage = stage]
\* The type a request makes next; it has made one of each before.
NextType(q) == tokRequest[q].named[Len(tokRequest[q].made) + 1]

-----------------------------------------------------------------------------
(* Seeded fault *)

\* UnknownTypeRaises: rotate_tokens catches the error and returns what it has.
UnknownTypeEnds(q) ==
    /\ tokRequest[q].stage = "making"
    /\ Len(tokRequest[q].made) < Len(tokRequest[q].named) /\ ~Known(NextType(q))
    /\ Becomes(q, "answered")
    /\ UNCHANGED <<tokContainer, tokRows, tokAccesses, tokMade>>

-----------------------------------------------------------------------------
BeginMaking(q, e, types) ==
    /\ LoopIsFree(e) /\ tokRequest[q].stage = "new"
    /\ tokRequest' = [tokRequest EXCEPT
         ![q] = [stage |-> "making", base |-> BaseOf(e), named |-> types,
                 made |-> <<>>, token |-> 0]]
    /\ UNCHANGED <<tokContainer, tokRows, tokAccesses, tokMade>>

\* create_token with one type, rotate with a list of them.
CreateToken(q, e, type) == BeginMaking(q, e, <<type>>)
Rotate(q, e, types) == BeginMaking(q, e, types)

\* generate_token and add_token, in rotate_tokens once for each type.
AddToken(q) ==
    /\ tokRequest[q].stage = "making"
    /\ Len(tokRequest[q].made) < Len(tokRequest[q].named) /\ Known(NextType(q))
    /\ tokMade < MaxTokens
    /\ tokMade' = tokMade + 1
    /\ tokRows' = Append(tokRows, [id |-> tokMade', type |-> NextType(q), base |-> tokRequest[q].base])
    /\ tokRequest' = [tokRequest EXCEPT ![q].made = Append(@, tokMade')]
    /\ UNCHANGED <<tokContainer, tokAccesses>>

\* generate_token raises ValueError, and no handler of the engine catches it.
UnknownTypeRaises(q) ==
    /\ tokRequest[q].stage = "making"
    /\ Len(tokRequest[q].made) < Len(tokRequest[q].named) /\ ~Known(NextType(q))
    /\ Becomes(q, "raised")
    /\ UNCHANGED <<tokContainer, tokRows, tokAccesses, tokMade>>

AnswerTokens(q) ==
    /\ tokRequest[q].stage = "making"
    /\ Len(tokRequest[q].made) = Len(tokRequest[q].named)
    /\ Becomes(q, "answered")
    /\ UNCHANGED <<tokContainer, tokRows, tokAccesses, tokMade>>

\* bundle: the tokens of the files are made and not stored.
BuildBundle(q, e) ==
    /\ LoopIsFree(e) /\ tokRequest[q].stage = "new"
    /\ tokMade + Len(BundleTypes) <= MaxTokens
    /\ tokMade' = tokMade + Len(BundleTypes)
    /\ Becomes(q, "answered")
    /\ UNCHANGED <<tokContainer, tokRows, tokAccesses>>

\* An access_token that reaches a replica.
Accesses(q, e, token, stage) ==
    /\ LoopIsFree(e) /\ tokRequest[q].stage = "new"
    /\ tokRequest' = [tokRequest EXCEPT ![q].stage = stage, ![q].base = BaseOf(e), ![q].token = token]
    /\ UNCHANGED <<tokContainer, tokRows, tokMade>>

\* get_token finds no row: 404.
AccessUnknown(q, e, token) ==
    /\ token \notin Ids(BaseOf(e))
    /\ Accesses(q, e, token, "not_found")
    /\ UNCHANGED tokAccesses

\* get_token finds it, add_access stores the access, emit waits.
AccessStored(q, e, token) ==
    /\ token \in Ids(BaseOf(e))
    /\ Accesses(q, e, token, "emitting")
    /\ tokAccesses' = Append(tokAccesses, <<q, token>>)

\* emit swallows whatever the webhook does, a TypeError of its body included.
AccessLogged(q) ==
    /\ tokRequest[q].stage = "emitting"
    /\ \A e \in TokEngines : tokRequest[q].base = BaseOf(e) => LoopIsFree(e)
    /\ Becomes(q, "answered")
    /\ UNCHANGED <<tokContainer, tokRows, tokAccesses, tokMade>>

\* The process of a replica dies, and the requests under way with it; it starts
\* again in the same container, or a new one is started.
EngineCrash(e) ==
    /\ \/ UNCHANGED tokContainer
       \/ /\ tokContainer[e] < MaxContainers
          /\ tokContainer' = [tokContainer EXCEPT ![e] = @ + 1]
    /\ tokRequest' = [q \in TokenRequests |->
         IF tokRequest[q].stage \in {"making", "emitting"} /\ tokRequest[q].base = BaseOf(e)
           THEN [tokRequest[q] EXCEPT !.stage = "lost"] ELSE tokRequest[q]]
    /\ <<tokRequest', tokContainer'>> # <<tokRequest, tokContainer>>
    /\ UNCHANGED <<tokRows, tokAccesses, tokMade>>

EngineStep(q, e) ==
    \/ \E type \in NamedTypes : CreateToken(q, e, type)
    \/ \E types \in TypeLists : Rotate(q, e, types)
    \/ BuildBundle(q, e)
    \/ \E token \in 1 .. tokMade : AccessUnknown(q, e, token) \/ AccessStored(q, e, token)

TokNext ==
    \/ \E q \in TokenRequests :
         \/ \E e \in TokEngines : EngineStep(q, e)
         \/ AddToken(q) \/ UnknownTypeRaises(q) \/ AnswerTokens(q) \/ AccessLogged(q)
    \/ \E e \in TokEngines : EngineCrash(e)

TokSpec == TokInit /\ [][TokNext]_tokVars

-----------------------------------------------------------------------------
TypesOf(ids) == [n \in DOMAIN ids |-> (CHOOSE row \in ToSet(tokRows) : row.id = ids[n]).type]

\* The books of every database balance, across crashes and unknown types.  Every token a
\* request made is stored in the database it worked on, of the type named at its place,
\* and no row comes from anywhere else; a request that is answered made all it named, one
\* that raised or was lost the types before its end and no other.  An access is stored
\* once if the database it met has the token, and never if it does not; only then it is
\* refused (main.py:79-101, rotator.py:9-15, store.py:42-105).  It speaks of one database
\* at a time and says nothing of the tokens a rotation replaces: docs/operations.md:15 and
\* :95 promise more of both.
TokensAreAccounted ==
    /\ Len(tokRows) = Cardinality(AllIds)
    /\ AllIds = UNION {ToSet(tokRequest[q].made) : q \in TokenRequests}
    /\ \A q \in TokenRequests :
         LET request == tokRequest[q]
             stored == {n \in DOMAIN tokAccesses : tokAccesses[n][1] = q}
         IN /\ IsPrefix(TypesOf(request.made), request.named)
            /\ ToSet(request.made) \subseteq Ids(request.base)
            /\ request.stage = "answered" => Len(request.made) = Len(request.named)
            /\ Cardinality(stored) = IF request.token \in Ids(request.base) THEN 1 ELSE 0
            /\ \A n \in stored : tokAccesses[n][2] = request.token
            /\ request.stage = "not_found" => request.token \notin Ids(request.base)
=============================================================================
