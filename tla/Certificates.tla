----------------------------- MODULE Certificates -----------------------------
(***************************************************************************)
(* The certificate manager of the gateway (internal/gateway: certs.go,     *)
(* acme.go, certdir.go, selfsigned.go) with the table gateway_certificate  *)
(* and the management API that uploads and deletes certificates.           *)
(*                                                                         *)
(* One goroutine reloads, scans and reconciles; handlers of the API and    *)
(* TLS handshakes run beside it.  Time is abstract: a certificate is       *)
(* fresh, due for renewal or expired, and a domain whose issuance failed   *)
(* waits for a while.  The process may crash and be started again.         *)
(***************************************************************************)
EXTENDS Naturals, FiniteSets

CONSTANTS
    Domains,        \* the names that the routing table serves
    Strangers,      \* other names that a client may ask for
    Wildcard,       \* [Domains \cup Strangers -> a domain whose certificate covers it, or None]
    Eligible,       \* domains that a public CA may issue for: eligibleForACME
    AcmeEnabled,    \* GOACOS_ACME_ENABLED
    WriteBack,      \* GatewayCertWriteBack with a certificate directory
    MaxOnDemand,    \* const maxOnDemandSelfSigned
    None

Names == Domains \cup Strangers

ASSUME CertAssumption ==
    /\ Eligible \subseteq Domains /\ None \notin Names
    /\ {AcmeEnabled, WriteBack} \subseteq BOOLEAN
    /\ Wildcard \in [Names -> Domains \cup {None}]
    /\ MaxOnDemand \in Nat

Ages == {"fresh", "due", "expired"}
Sources == {"self_signed", "acme", "manual", "file"}
Certs == [source : Sources, age : Ages]

(* A certificate file, and beside it its key, the key of another           *)
(* certificate, or no key file; and whether it is a copy of the row.       *)
Pairs == [key : {"its", "other", "none"}, own : BOOLEAN, age : Ages]

VARIABLES
    db,         \* [Domains -> Certs or None] gateway_certificate
    dir,        \* [Domains -> Pairs or None] the certificate directory
    kept,       \* [Domains -> Pairs or None] the self-signed pairs kept on disk
    cache,      \* CertManager.certs and info
    onDemand,   \* CertManager.onDemand
    waiting,    \* domains inside their retry wait: CertManager.failures
    challenge,  \* domains with a token in CertManager.challenges
    mgr,        \* the manager goroutine: where it is and what it holds
    todo,       \* the domains that reconcile has still to look at
    api,        \* the request of an operator in progress
    resolves    \* domains whose name resolves to a public address

vars == <<db, dir, kept, cache, onDemand, waiting, challenge, mgr, todo, api, resolves>>
memory == <<cache, onDemand, waiting, challenge>>
disk == <<db, dir, kept>>
others == <<api, resolves>>

At(pc) == [pc |-> pc, domain |-> None]
For(pc, d) == [pc |-> pc, domain |-> d]
Fallback(pc, d, then) == [pc |-> pc, domain |-> d, then |-> then]
Loading(pc, rows) == [pc |-> pc, domain |-> None, rows |-> rows]

TypeOK ==
    /\ db \in [Domains -> [source : Sources \ {"file"}, age : Ages] \cup {None}]
    /\ dir \in [Domains -> Pairs \cup {None}]
    /\ kept \in [Domains -> Pairs \cup {None}]
    /\ cache \in [Domains -> Certs \cup {None}]
    /\ onDemand \subseteq Names /\ Cardinality(onDemand) <= MaxOnDemand
    /\ waiting \subseteq Domains /\ challenge \subseteq Domains
    /\ todo \subseteq Domains /\ resolves \subseteq Domains

Init ==
    /\ db = [d \in Domains |-> None]
    /\ dir = [d \in Domains |-> None]
    /\ kept = [d \in Domains |-> None]
    /\ cache = [d \in Domains |-> None]
    /\ onDemand = {} /\ waiting = {} /\ challenge = {}
    /\ mgr = At("down") /\ todo = {}
    /\ api = At("idle")
    /\ resolves = Domains

-----------------------------------------------------------------------------
(***************************************************************************)
(* reload: the rows, then the directory, then the cache at once.           *)
(***************************************************************************)

Rank(source) == CASE source = "manual" -> 3
                  [] source \in {"acme", "file"} -> 2
                  [] OTHER -> 1

AgeRank(age) == CASE age = "fresh" -> 3 [] age = "due" -> 2 [] age = "expired" -> 1

(* A faulty BetterCert, for the sensitivity checks: the later expiry wins, *)
(* whatever the source.                                                    *)
BetterCertByExpiry(incumbent, pair) ==
    IF incumbent = None THEN {TRUE} ELSE {AgeRank(pair.age) > AgeRank(incumbent.age)}

(* May the pair replace the database's certificate?  The rank decides,     *)
(* then the expiry.  A copy of the row expires with it, and the row wins a *)
(* tie; within one age the model knows no more of another pair.            *)
BetterCert(incumbent, pair) ==
    IF incumbent = None THEN {TRUE}
    ELSE IF Rank(incumbent.source) # Rank("file") THEN {Rank("file") > Rank(incumbent.source)}
    ELSE IF AgeRank(pair.age) # AgeRank(incumbent.age) THEN {AgeRank(pair.age) > AgeRank(incumbent.age)}
    ELSE IF pair.own THEN {FALSE} ELSE BOOLEAN

(* A pair is loaded only if the key belongs to the certificate.            *)
Usable(pair) == pair # None /\ pair.key = "its"

(* mergeCerts, for one domain                                              *)
Merged(row, pair) ==
    IF ~Usable(pair) THEN {row}
    ELSE { IF better THEN [source |-> "file", age |-> pair.age] ELSE row : better \in BetterCert(row, pair) }

(* Run and scanDirectory start a reload on their timers.                   *)
ReloadList(next) ==
    /\ mgr.pc = "idle"
    /\ mgr' = Loading(next, db)
    /\ UNCHANGED <<disk, memory, todo, others>>

(* A faulty ReloadSwap, for the sensitivity checks: what was loaded is     *)
(* added to the cache instead of taking its place.                         *)
ReloadSwapAdds ==
    /\ mgr.pc \in {"scan", "reconcile"}
    /\ cache' \in [Domains -> Certs \cup {None}]
    /\ \A d \in Domains : \E c \in Merged(mgr.rows[d], dir[d]) : cache'[d] = IF c = None THEN cache[d] ELSE c
    /\ IF mgr.pc = "scan" THEN mgr' = At("idle") /\ UNCHANGED todo
       ELSE mgr' = At("next") /\ todo' = Domains
    /\ UNCHANGED <<disk, onDemand, waiting, challenge, others>>

ReloadSwap ==
    /\ mgr.pc \in {"scan", "reconcile"}
    /\ cache' \in [Domains -> Certs \cup {None}]
    /\ \A d \in Domains : cache'[d] \in Merged(mgr.rows[d], dir[d])
    /\ IF mgr.pc = "scan" THEN mgr' = At("idle") /\ UNCHANGED todo
       ELSE mgr' = At("next") /\ todo' = Domains
    /\ UNCHANGED <<disk, onDemand, waiting, challenge, others>>

(* The query fails: the cache stays, and reconcile goes on with it.        *)
ReloadFails ==
    /\ mgr.pc = "idle"
    /\ mgr' = At("next") /\ todo' = Domains
    /\ UNCHANGED <<disk, memory, others>>

-----------------------------------------------------------------------------
(***************************************************************************)
(* reconcile, one domain after the other.                                  *)
(***************************************************************************)

AcmePossible(d) == AcmeEnabled /\ d \in Eligible /\ d \in resolves

(* A faulty NeedsRenewal, for the sensitivity checks: no window before the *)
(* expiry.                                                                 *)
NeedsRenewalLate(cert) == cert.age = "expired"

NeedsRenewal(cert) == cert.age # "fresh"

(* What a domain needs: "fallback" and then an issuance, an issuance, a    *)
(* new fallback, or nothing.                                               *)
Need(d) ==
    CASE cache[d] = None -> "fallback"
      [] cache[d] # None /\ cache[d].source = "acme" /\ NeedsRenewal(cache[d]) -> "issue"
      [] cache[d] # None /\ cache[d].source = "self_signed" /\ NeedsRenewal(cache[d]) ->
            IF AcmePossible(d) THEN "issue" ELSE "renewFallback"
      [] OTHER -> "nothing"

(* With nothing to serve there is a fallback first and then an issuance;   *)
(* where a CA cannot help, the fallback is only made anew.                 *)
Decide(d) ==
    /\ mgr.pc = "next" /\ d \in todo
    /\ todo' = todo \ {d}
    /\ mgr' = CASE Need(d) = "nothing" -> At("next")
                [] Need(d) = "issue" -> For("issue", d)
                [] Need(d) = "fallback" -> Fallback("fallback", d, For("issue", d))
                [] Need(d) = "renewFallback" -> Fallback("fallback", d, At("next"))
    /\ UNCHANGED <<disk, memory, others>>

ReconcileEnds ==
    /\ mgr.pc = "next" /\ todo = {}
    /\ mgr' = At("idle")
    /\ UNCHANGED <<disk, memory, todo, others>>

(* A faulty Loads, for the sensitivity checks: a pair however old.         *)
LoadsAnyAge(pair) == pair # None /\ pair.key # "none"

(* loadSelfSigned: both files can be read, and the certificate is not due. *)
(* It does not look whether the key belongs to it.                         *)
Loads(pair) == pair # None /\ pair.key # "none" /\ pair.age = "fresh"

Sound(pair) == pair = None \/ pair.key # "other"

(* A certificate is written over the one that was there, the key not yet.  *)
NewCrt(pair) ==
    [key |-> IF pair = None \/ pair.key = "none" THEN "none" ELSE "other", own |-> TRUE, age |-> "fresh"]

(* generateSelfSigned takes the pair on disk; provisionFallback gives up   *)
(* if it cannot be parsed, that is, if the key belongs to another.         *)
FallbackKept ==
    /\ mgr.pc = "fallback" /\ Loads(kept[mgr.domain])
    /\ mgr' = IF Sound(kept[mgr.domain]) THEN [mgr EXCEPT !.pc = "fallbackStore"] ELSE mgr.then
    /\ UNCHANGED <<disk, memory, todo, others>>

(* Or it makes a pair and writes the two files, one after the other.       *)
FallbackCrt ==
    /\ mgr.pc = "fallback" /\ ~Loads(kept[mgr.domain])
    /\ kept' = [kept EXCEPT ![mgr.domain] = NewCrt(@)]
    /\ mgr' = [mgr EXCEPT !.pc = "fallbackKey"]
    /\ UNCHANGED <<db, dir, memory, todo, others>>

FallbackKey ==
    /\ mgr.pc = "fallbackKey"
    /\ kept' = [kept EXCEPT ![mgr.domain].key = "its"]
    /\ mgr' = [mgr EXCEPT !.pc = "fallbackStore"]
    /\ UNCHANGED <<db, dir, memory, todo, others>>

(* The certificate is stored, or cannot be, ...                            *)
FallbackStore ==
    /\ mgr.pc = "fallbackStore"
    /\ db' \in {db, [db EXCEPT ![mgr.domain] = [source |-> "self_signed", age |-> kept[mgr.domain].age]]}
    /\ mgr' = [mgr EXCEPT !.pc = "fallbackInstall"]
    /\ UNCHANGED <<dir, kept, memory, todo, others>>

Install(d, cert) ==
    /\ cache' = [cache EXCEPT ![d] = cert]
    /\ onDemand' = onDemand \ {d}

(* ... and installed all the same.                                         *)
FallbackInstall ==
    /\ mgr.pc = "fallbackInstall"
    /\ Install(mgr.domain, [source |-> "self_signed", age |-> kept[mgr.domain].age])
    /\ mgr' = mgr.then
    /\ UNCHANGED <<disk, waiting, challenge, todo, others>>

(* attemptIssuance: not possible, or inside the wait.                      *)
IssueSkipped ==
    /\ mgr.pc = "issue"
    /\ ~AcmePossible(mgr.domain) \/ mgr.domain \in waiting
    /\ mgr' = At("next")
    /\ UNCHANGED <<disk, memory, todo, others>>

(* The attempt is recorded, the order placed, and its token is served.     *)
IssueOrder ==
    /\ mgr.pc = "issue"
    /\ AcmePossible(mgr.domain) /\ mgr.domain \notin waiting
    /\ waiting' = waiting \cup {mgr.domain}
    /\ challenge' = challenge \cup {mgr.domain}
    /\ mgr' = For("order", mgr.domain)
    /\ UNCHANGED <<disk, cache, onDemand, todo, others>>

(* A faulty IssueFails, for the sensitivity checks: the token stays.       *)
IssueFailsToken ==
    /\ mgr.pc = "order"
    /\ mgr' = At("next")
    /\ UNCHANGED <<disk, memory, todo, others>>

(* The CA refuses or does not answer: the wait begins anew.                *)
IssueFails ==
    /\ mgr.pc = "order"
    /\ challenge' = challenge \ {mgr.domain}
    /\ waiting' = waiting \cup {mgr.domain}
    /\ mgr' = At("next")
    /\ UNCHANGED <<disk, cache, onDemand, todo, others>>

IssueOk ==
    /\ mgr.pc = "order"
    /\ challenge' = challenge \ {mgr.domain}
    /\ mgr' = For("store", mgr.domain)
    /\ UNCHANGED <<disk, cache, onDemand, waiting, todo, others>>

(* storeIssued: the row, then the cache, then the copy in the directory.   *)
IssuedStore ==
    /\ mgr.pc = "store"
    /\ db' = [db EXCEPT ![mgr.domain] = [source |-> "acme", age |-> "fresh"]]
    /\ mgr' = For("install", mgr.domain)
    /\ UNCHANGED <<dir, kept, memory, todo, others>>

IssuedNotStored ==
    /\ mgr.pc = "store"
    /\ waiting' = waiting \cup {mgr.domain}
    /\ mgr' = At("next")
    /\ UNCHANGED <<disk, cache, onDemand, challenge, todo, others>>

IssuedInstall ==
    /\ mgr.pc = "install"
    /\ Install(mgr.domain, [source |-> "acme", age |-> "fresh"])
    /\ mgr' = For(IF WriteBack THEN "mirrorCrt" ELSE "issued", mgr.domain)
    /\ UNCHANGED <<disk, waiting, challenge, todo, others>>

(* Two files, renamed into place one after the other.                      *)
MirrorCrt ==
    /\ mgr.pc = "mirrorCrt"
    /\ dir' = [dir EXCEPT ![mgr.domain] = NewCrt(@)]
    /\ mgr' = For("mirrorKey", mgr.domain)
    /\ UNCHANGED <<db, kept, memory, todo, others>>

MirrorKey ==
    /\ mgr.pc = "mirrorKey"
    /\ dir' = [dir EXCEPT ![mgr.domain].key = "its"]
    /\ mgr' = For("issued", mgr.domain)
    /\ UNCHANGED <<db, kept, memory, todo, others>>

(* a write fails: it costs the copy, not the service                       *)
MirrorFails ==
    /\ mgr.pc \in {"mirrorCrt", "mirrorKey"}
    /\ mgr' = For("issued", mgr.domain)
    /\ UNCHANGED <<disk, memory, todo, others>>

Issued ==
    /\ mgr.pc = "issued"
    /\ waiting' = waiting \ {mgr.domain}
    /\ mgr' = At("next")
    /\ UNCHANGED <<disk, cache, onDemand, challenge, todo, others>>

-----------------------------------------------------------------------------
(***************************************************************************)
(* Operators: StoreManual, and certDelete with Forget.                     *)
(***************************************************************************)

UploadStore(d) ==
    /\ api.pc = "idle" /\ mgr.pc # "down"
    /\ db' = [db EXCEPT ![d] = [source |-> "manual", age |-> "fresh"]]
    /\ api' = For("install", d)
    /\ UNCHANGED <<dir, kept, memory, mgr, todo, resolves>>

UploadInstall ==
    /\ api.pc = "install"
    /\ Install(api.domain, [source |-> "manual", age |-> "fresh"])
    /\ api' = At("idle")
    /\ UNCHANGED <<disk, waiting, challenge, mgr, todo, resolves>>

DeleteRow(d) ==
    /\ api.pc = "idle" /\ mgr.pc # "down" /\ db[d] # None
    /\ db' = [db EXCEPT ![d] = None]
    /\ api' = For("forget", d)
    /\ UNCHANGED <<dir, kept, memory, mgr, todo, resolves>>

DeleteForget ==
    /\ api.pc = "forget"
    /\ cache' = [cache EXCEPT ![api.domain] = None]
    /\ onDemand' = onDemand \ {api.domain}
    /\ waiting' = waiting \ {api.domain}
    /\ api' = At("idle")
    /\ UNCHANGED <<disk, challenge, mgr, todo, resolves>>

-----------------------------------------------------------------------------
(***************************************************************************)
(* Handshakes, time, the world.                                            *)
(***************************************************************************)

(* GetCertificate: the name's certificate, or that of a wildcard, or one   *)
(* made for the name, or the default one.                                  *)
Stored(n) ==
    IF n \in Domains /\ cache[n] # None THEN n
    ELSE IF Wildcard[n] # None /\ cache[Wildcard[n]] # None THEN Wildcard[n]
    ELSE None

(* A faulty Handshake, for the sensitivity checks: not bounded.            *)
HandshakeUnbounded(n) ==
    /\ mgr.pc # "down" /\ Stored(n) = None
    /\ onDemand' = onDemand \cup {n}
    /\ UNCHANGED <<disk, cache, waiting, challenge, mgr, todo, others>>

Handshake(n) ==
    /\ mgr.pc # "down" /\ Stored(n) = None
    /\ n \notin onDemand /\ Cardinality(onDemand) < MaxOnDemand
    /\ onDemand' = onDemand \cup {n}
    /\ UNCHANGED <<disk, cache, waiting, challenge, mgr, todo, others>>

Older(age) == IF age = "fresh" THEN "due" ELSE "expired"

OlderCert(cert) == IF cert = None \/ cert.source = "manual" THEN cert ELSE [cert EXCEPT !.age = Older(@)]

Aged(pair, age) == [pair EXCEPT !.age = age]

(* Every certificate of a domain grows older; the model does so only while *)
(* nothing is in progress.  Of the kept pair it counts only that it is due.*)
Age(d) ==
    /\ mgr.pc = "idle" /\ api.pc = "idle" /\ cache[d] # None
    /\ db' = [db EXCEPT ![d] = OlderCert(@)]
    /\ cache' = [cache EXCEPT ![d] = OlderCert(@)]
    /\ dir' = [dir EXCEPT ![d] = IF @ = None THEN None ELSE Aged(@, Older(@.age))]
    /\ kept' = [kept EXCEPT ![d] = IF @ = None THEN None ELSE Aged(@, "due")]
    /\ UNCHANGED <<onDemand, waiting, challenge, mgr, todo, others>>

(* A retry wait ends, here just before it is looked at.                    *)
WaitOver(d) ==
    /\ d \in waiting /\ mgr = For("issue", d)
    /\ waiting' = waiting \ {d}
    /\ UNCHANGED <<disk, cache, onDemand, challenge, mgr, todo, others>>

(* Another tool writes or removes the pair of a domain.                    *)
ExternalPair(d) ==
    /\ mgr.pc = "idle" /\ api.pc = "idle"
    /\ dir' \in { [dir EXCEPT ![d] = p] :
                    p \in {None, [key |-> "its", own |-> FALSE, age |-> "fresh"]} \ {dir[d]} }
    /\ UNCHANGED <<db, kept, memory, mgr, todo, others>>

(* The name begins or ceases to resolve.  It does so where that is read;   *)
(* elsewhere the change is the same as one a little later.                 *)
DnsChange(d) ==
    /\ mgr.pc \in {"next", "issue"}
    /\ resolves' = IF d \in resolves THEN resolves \ {d} ELSE resolves \cup {d}
    /\ UNCHANGED <<disk, memory, mgr, todo, api>>

(* NewCertManager loads what is stored, or the gateway does not start.     *)
Boot ==
    /\ mgr.pc = "down"
    /\ cache' \in [Domains -> Certs \cup {None}]
    /\ \A d \in Domains : cache'[d] \in Merged(db[d], dir[d])
    /\ mgr' = At("idle")
    /\ UNCHANGED <<disk, onDemand, waiting, challenge, todo, others>>

Crash ==
    /\ mgr.pc # "down"
    /\ mgr' = At("down") /\ todo' = {} /\ api' = At("idle")
    /\ cache' = [d \in Domains |-> None]
    /\ onDemand' = {} /\ waiting' = {} /\ challenge' = {}
    /\ UNCHANGED <<disk, resolves>>

-----------------------------------------------------------------------------
Manager ==
    \/ ReloadList("reconcile") \/ ReloadSwap \/ ReconcileEnds
    \/ \E d \in Domains : Decide(d)
    \/ FallbackKept \/ FallbackCrt \/ FallbackKey \/ FallbackStore \/ FallbackInstall \/ IssueSkipped \/ IssueOrder
    \/ IssuedInstall \/ MirrorCrt \/ MirrorKey \/ Issued \/ Boot

Failures == IssueFails \/ IssuedNotStored \/ MirrorFails \/ ReloadFails

Operator ==
    \/ UploadInstall \/ DeleteForget
    \/ \E d \in Domains : UploadStore(d) \/ DeleteRow(d)

World ==
    \/ Crash
    \/ \E n \in Names : Handshake(n)
    \/ \E d \in Domains : Age(d) \/ WaitOver(d) \/ ExternalPair(d) \/ DnsChange(d)

Next == Manager \/ ReloadList("scan") \/ IssueOk \/ IssuedStore \/ Failures \/ Operator \/ World

Spec == Init /\ [][Next]_vars

(* The goroutine runs, and select serves both of its timers; handlers      *)
(* finish; waits end; the CA and the database do not refuse for ever.      *)
FairSpec ==
    /\ Spec
    /\ WF_vars(Manager) /\ WF_vars(UploadInstall \/ DeleteForget)
    /\ \A d \in Domains : SF_vars(WaitOver(d))
    /\ SF_vars(ReloadList("reconcile")) /\ SF_vars(IssueOk) /\ SF_vars(IssuedStore)

-----------------------------------------------------------------------------
(***************************************************************************)
(* Properties                                                              *)
(***************************************************************************)

(* A token is answered for only while its order is open (issue withdraws   *)
(* it on every path), so ServeChallenge has nothing to say of an old one.  *)
ChallengeOnlyWhileIssuing == \A d \in challenge : mgr = For("order", d)

Up == mgr.pc # "down"
ServedBy(d, source) == cache[d] # None /\ cache[d].source = source

(* provisionFallback "guarantees a served domain has something to hand     *)
(* out": while no CA can help, a domain that has nothing, or a fallback    *)
(* that is due, comes to have a certificate that is not, although stores   *)
(* fail and old files are there - unless a crash between the two files     *)
(* left a key that belongs to another certificate, which                   *)
(* generateSelfSigned then takes again and again.                          *)
NoneOrDue(d) == cache[d] = None \/ (ServedBy(d, "self_signed") /\ NeedsRenewal(cache[d]))

FallbackProvided ==
    \A d \in Domains :
        /\ NoneOrDue(d)
        /\ [](Up /\ d \notin resolves)
        /\ [](mgr.pc = "idle" => Sound(kept[d]))
        ~> ~NoneOrDue(d)

(* reconcile renews what the CA issued, over failed orders, waits, copies  *)
(* that could not be written and reloads that overtake it: a certificate   *)
(* that is due does not stay so.                                           *)
IssuedIsRenewed ==
    \A d \in Domains :
        /\ ServedBy(d, "acme") /\ cache[d].age # "fresh"
        /\ [](Up /\ d \in resolves)
        ~> ~(ServedBy(d, "acme") /\ cache[d].age # "fresh")

(* betterCert: a real pair in the directory, whatever its expiry, takes    *)
(* the place of the self-signed certificate, also when a crash cut the     *)
(* writing of a copy or the fallback is provided at the same time.         *)
RealBeatsPlaceholder ==
    \A d \in Domains :
        [](Up /\ Usable(dir[d])) ~> ~ServedBy(d, "self_signed")

(* A certificate that was deleted is not served for ever: no reload that   *)
(* was under way, nor an issuance, puts an uploaded certificate back that  *)
(* the database no longer has.                                             *)
RevokedIsForgotten ==
    \A d \in Domains :
        /\ ServedBy(d, "manual")
        /\ [](Up /\ (db[d] = None \/ db[d].source # "manual"))
        ~> ~ServedBy(d, "manual")
=============================================================================
