---------------------------- MODULE MoloniGrant ----------------------------
(***************************************************************************)
(* The rotating OAuth grant of one Moloni connection.                      *)
(*                                                                         *)
(* A refresh token works once: Moloni answers it with a new pair and kills *)
(* it.  Every invocation that issues a document, and the nightly keep-     *)
(* alive, loads the connection once and then refreshes from the copy it    *)
(* holds; the new pair is stored by compare-and-set on the token the       *)
(* refresh started from.  The merchant may authorise again at any time.    *)
(*                                                                         *)
(* A pair is named by the number of its grant; 0 is the pair the           *)
(* connection was set up with.                                             *)
(***************************************************************************)
EXTENDS Naturals, FiniteSets

CONSTANTS
    Workers,     \* invocations that hold a token provider
    MaxGrants,   \* bound on the pairs Moloni ever mints
    MaxLosses    \* bound on invocations that die and answers that are lost

ASSUME GrantConstants == IsFiniteSet(Workers) /\ MaxGrants \in Nat /\ MaxLosses \in Nat

VARIABLES
    alive,     \* refresh tokens Moloni accepts
    minted,    \* the last pair minted
    stored,    \* the pair in destination_config_json
    status,    \* connections.status
    lapsed,    \* pairs whose access token has expired
    work,      \* where each worker stands
    held,      \* the pair in each worker's copy of the configuration
    won,       \* the pair a worker was just granted
    consent,   \* the pair an authorisation under way has obtained, 0 for none
    losses

grantVars == <<alive, minted, stored, status, lapsed, work, held, won, consent, losses>>

Pairs == 0..MaxGrants

GrantInit ==
    /\ alive = {0} /\ minted = 0 /\ stored = 0 /\ status = "active"
    /\ lapsed = {}
    /\ work = [w \in Workers |-> "idle"]
    /\ held = [w \in Workers |-> 0]
    /\ won = [w \in Workers |-> 0]
    /\ consent = 0
    /\ losses = 0

Lost == losses < MaxLosses /\ losses' = losses + 1
Turn(w, next) == work' = [work EXCEPT ![w] = next]

\* An hour goes by for every access token minted so far.
AccessExpires ==
    /\ lapsed' = 0..minted /\ lapsed' # lapsed
    /\ UNCHANGED <<alive, minted, stored, status, work, held, won, losses, consent>>

\* The configuration of an active connection is read.  The keep-alive then drops
\* the expiry, so that its get() always refreshes.
LoadConnection(w) ==
    /\ work[w] = "idle" /\ status = "active"
    /\ held' = [held EXCEPT ![w] = stored]
    /\ \E next \in {"get", "refresh"} : Turn(w, next)
    /\ UNCHANGED <<alive, minted, stored, status, lapsed, won, losses, consent>>

\* get(): the access token in hand while it is fresh, a refresh once it is not.
GetToken(w) ==
    /\ work[w] = "get"
    /\ \/ held[w] \notin lapsed /\ Turn(w, "idle")
       \/ held[w] \in lapsed /\ Turn(w, "refresh")
    /\ UNCHANGED <<alive, minted, stored, status, lapsed, held, won, losses, consent>>

\* What Moloni does with a refresh token: the old one dies as the new one is born.
Rotates(old, new) == (alive \ {old}) \cup {new}

\* grant(): a pair, a refusal of the token (400 or 401), or no usable answer, with
\* or without the rotation having happened.
AskGrant(w) ==
    /\ work[w] = "refresh"
    /\ \/ /\ held[w] \in alive /\ minted < MaxGrants
          /\ minted' = minted + 1
          /\ alive' = Rotates(held[w], minted')
          /\ \/ won' = [won EXCEPT ![w] = minted'] /\ Turn(w, "persist") /\ UNCHANGED losses
             \/ Lost /\ Turn(w, "idle") /\ UNCHANGED won
       \/ /\ held[w] \notin alive
          /\ Turn(w, "refused")
          /\ UNCHANGED <<alive, minted, won, losses>>
       \/ /\ Lost /\ Turn(w, "idle")
          /\ UNCHANGED <<alive, minted, won>>
    /\ UNCHANGED <<stored, status, lapsed, held, consent>>

\* markReauthRequired: whatever is stored by now.
MarkReauthRequired(w) ==
    /\ work[w] = "refused"
    /\ status' = "error"
    /\ Turn(w, "idle")
    /\ UNCHANGED <<alive, minted, stored, lapsed, held, won, losses, consent>>

\* Faulty: the new pair is stored whatever the row holds.
StoredAnyway(old) == TRUE

\* The compare of the compare-and-set in persistRotation.
StillStored(old) == stored = old

\* persistRotation.
PersistRotation(w) ==
    /\ work[w] = "persist"
    /\ IF StillStored(held[w])
       THEN /\ stored' = won[w]
            /\ held' = [held EXCEPT ![w] = won[w]]
            /\ Turn(w, "get")
       ELSE Turn(w, "reload") /\ UNCHANGED <<stored, held>>
    /\ UNCHANGED <<alive, minted, status, lapsed, won, losses, consent>>

\* reloadTokens: the winner's pair replaces the copy and serves the document,
\* fresh or not.
ReloadTokens(w) ==
    /\ work[w] = "reload"
    /\ held' = [held EXCEPT ![w] = stored]
    /\ Turn(w, "get")
    /\ UNCHANGED <<alive, minted, stored, status, lapsed, won, losses, consent>>

\* The invocation dies.
WorkerDies(w) ==
    /\ work[w] # "idle"
    /\ Lost
    /\ Turn(w, "idle")
    /\ UNCHANGED <<alive, minted, stored, status, lapsed, held, won, consent>>

\* The merchant authorises again in the backoffice: the code is exchanged for a
\* pair, with or without Moloni retiring the pairs it gave before, ...
Authorise ==
    /\ consent = 0 /\ minted < MaxGrants
    /\ minted' = minted + 1
    /\ consent' = minted'
    /\ alive' \in {alive \cup {minted'}, {minted'}}
    /\ UNCHANGED <<stored, status, lapsed, work, held, won, losses>>

\* ... the company is looked up with it, and the pair is stored over whatever is
\* there; an authorisation that dies on the way stores nothing.
StoreConsent ==
    /\ consent # 0
    /\ \/ /\ stored' = consent /\ status' = "active"
          /\ UNCHANGED losses
       \/ Lost /\ UNCHANGED <<stored, status>>
    /\ consent' = 0
    /\ UNCHANGED <<alive, minted, lapsed, work, held, won>>

Refreshes(w) ==
    \/ LoadConnection(w) \/ GetToken(w) \/ AskGrant(w) \/ MarkReauthRequired(w)
    \/ PersistRotation(w) \/ ReloadTokens(w) \/ WorkerDies(w)

GrantNext == AccessExpires \/ Authorise \/ StoreConsent \/ \E w \in Workers : Refreshes(w)

GrantSpec == GrantInit /\ [][GrantNext]_grantVars

-----------------------------------------------------------------------------
(* Properties.                                                             *)

\* Every variable keeps to its type.
GrantTypeOK ==
    /\ alive \subseteq Pairs /\ minted \in Pairs /\ stored \in Pairs
    /\ status \in {"active", "error"}
    /\ lapsed \subseteq Pairs
    /\ work \in [Workers -> {"idle", "get", "refresh", "refused", "persist", "reload"}]
    /\ held \in [Workers -> Pairs] /\ won \in [Workers -> Pairs]
    /\ consent \in Pairs /\ losses \in 0..MaxLosses

Replacing(w) == work[w] = "persist" /\ held[w] = stored /\ won[w] \in alive

\* As long as nothing dies and no answer is lost, the stored refresh token is one
\* Moloni accepts, or whoever used it up or authorises anew is about to replace it
\* by one that is: a rotation that finished late never buries a newer pair.
NotStranded ==
    losses = 0 => stored \in alive \/ consent # 0 \/ \E w \in Workers : Replacing(w)
=============================================================================
