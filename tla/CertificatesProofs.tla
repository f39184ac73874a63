--------------------------- MODULE CertificatesProofs ---------------------------
(***************************************************************************)
(* Proofs about Certificates, for any domains, strangers, wildcards and    *)
(* limit of certificates on demand: the certificates and files keep their  *)
(* types, the handshakes never make more certificates than the limit, and  *)
(* no token is served for an order that is over.                           *)
(***************************************************************************)
EXTENDS Certificates, FiniteSetTheorems, TLAPS

(* Where the manager is, and what it holds there.                          *)
AtRest == mgr.pc \in {"down", "idle", "next"}

IsLoading == mgr.pc \in {"scan", "reconcile"}

IsIssuing ==
    /\ mgr.pc \in {"issue", "order", "store", "install", "mirrorCrt", "mirrorKey", "issued"}
    /\ mgr = For(mgr.pc, mgr.domain) /\ mgr.domain \in Domains

IsFallback ==
    /\ mgr.pc \in {"fallback", "fallbackKey", "fallbackStore", "fallbackInstall"}
    /\ mgr = Fallback(mgr.pc, mgr.domain, mgr.then) /\ mgr.domain \in Domains
    /\ mgr.then \in {For("issue", mgr.domain), At("next")}

ManagerPlace == AtRest \/ IsLoading \/ IsIssuing \/ IsFallback

ApiPlace == api.pc = "idle" \/ (api.pc \in {"install", "forget"} /\ api.domain \in Domains)

(* A file that is to be completed, or read, has been begun.                *)
FilesBegun ==
    /\ mgr.pc \in {"fallbackKey", "fallbackStore", "fallbackInstall"} => kept[mgr.domain] \in Pairs
    /\ mgr.pc = "mirrorKey" => dir[mgr.domain] \in Pairs

Places == ManagerPlace /\ ApiPlace /\ FilesBegun

(* TypeOK, by what a step may change                                       *)
DiskOK ==
    /\ db \in [Domains -> [source : Sources \ {"file"}, age : Ages] \cup {None}]
    /\ dir \in [Domains -> Pairs \cup {None}]
    /\ kept \in [Domains -> Pairs \cup {None}]

CacheOK == cache \in [Domains -> Certs \cup {None}]

OnDemandOK ==
    /\ onDemand \subseteq Names /\ Cardinality(onDemand) <= MaxOnDemand
    /\ IsFiniteSet(onDemand)

SetsOK ==
    /\ waiting \subseteq Domains /\ challenge \subseteq Domains
    /\ todo \subseteq Domains /\ resolves \subseteq Domains

(* The inductive invariant.                                                *)
Inv == DiskOK /\ CacheOK /\ OnDemandOK /\ SetsOK /\ Places /\ ChallengeOnlyWhileIssuing

LEMMA InvImpliesType == Inv => TypeOK
  BY DEF Inv, DiskOK, CacheOK, OnDemandOK, SetsOK, TypeOK

-----------------------------------------------------------------------------
(* A place determines its parts.                                           *)
LEMMA PlaceFields ==
    ASSUME NEW pc, NEW d, NEW t
    PROVE  /\ At(pc).pc = pc /\ For(pc, d).pc = pc /\ For(pc, d).domain = d
           /\ Fallback(pc, d, t).pc = pc /\ Fallback(pc, d, t).domain = d
           /\ Fallback(pc, d, t).then = t /\ Loading(pc, t).pc = pc
  BY DEF At, For, Fallback, Loading

(* Outside an order there is no token.                                     *)
LEMMA NoToken ==
    ASSUME ChallengeOnlyWhileIssuing
    PROVE  /\ mgr.pc # "order" => challenge = {}
           /\ challenge \subseteq {mgr.domain}
  BY PlaceFields DEF ChallengeOnlyWhileIssuing

(* Certificates on demand that are given up leave room for others.         *)
LEMMA FewerOnDemand ==
    ASSUME OnDemandOK, onDemand' \subseteq onDemand
    PROVE  OnDemandOK'
  <1>1. IsFiniteSet(onDemand') /\ Cardinality(onDemand') <= Cardinality(onDemand)
    BY FS_Subset DEF OnDemandOK
  <1>2. Cardinality(onDemand') \in Nat /\ Cardinality(onDemand) \in Nat
    BY <1>1, FS_CardinalityType DEF OnDemandOK
  <1> QED
    BY <1>1, <1>2, CertAssumption DEF OnDemandOK

LEMMA InitInv == Init => Inv
  <1> SUFFICES ASSUME Init PROVE Inv
    OBVIOUS
  <1>1. DiskOK /\ CacheOK /\ SetsOK
    BY DEF Init, DiskOK, CacheOK, SetsOK
  <1>2. OnDemandOK
    BY FS_EmptySet, CertAssumption DEF Init, OnDemandOK
  <1>3. Places
    BY PlaceFields DEF Init, Places, ManagerPlace, AtRest, ApiPlace, FilesBegun
  <1>4. ChallengeOnlyWhileIssuing
    BY DEF Init, ChallengeOnlyWhileIssuing
  <1> QED
    BY <1>1, <1>2, <1>3, <1>4 DEF Inv

-----------------------------------------------------------------------------
(* A step that moves the manager at most, and leaves no token to serve.    *)
LEMMA MovesInv ==
    ASSUME Inv, UNCHANGED <<disk, memory, others>>, mgr.pc # "order",
           todo' \subseteq Domains, ManagerPlace', FilesBegun'
    PROVE  Inv'
  <1>1. challenge' = {}
    BY NoToken DEF Inv, memory
  <1>2. DiskOK' /\ CacheOK' /\ OnDemandOK' /\ SetsOK' /\ ApiPlace'
    BY DEF Inv, disk, memory, others, DiskOK, CacheOK, OnDemandOK, SetsOK, Places, ApiPlace
  <1> QED
    BY <1>1, <1>2 DEF Inv, Places, ChallengeOnlyWhileIssuing

LEMMA ReloadInv ==
    ASSUME Inv, \/ ReloadList("reconcile") \/ ReloadList("scan")
                \/ ReloadFails \/ ReconcileEnds \/ IssueSkipped
    PROVE  Inv'
  <1>1. /\ UNCHANGED <<disk, memory, others>> /\ mgr.pc # "order" /\ todo' \subseteq Domains
    BY DEF ReloadList, ReloadFails, ReconcileEnds, IssueSkipped, Inv, SetsOK
  <1>2. mgr'.pc \in {"scan", "reconcile", "next", "idle"}
    BY PlaceFields DEF ReloadList, ReloadFails, ReconcileEnds, IssueSkipped
  <1>3. ManagerPlace' /\ FilesBegun'
    BY <1>2 DEF ManagerPlace, AtRest, IsLoading, FilesBegun
  <1> QED
    BY <1>1, <1>3, MovesInv

LEMMA SwapInv == ASSUME Inv, ReloadSwap \/ Boot PROVE Inv'
  <1>1. /\ UNCHANGED <<disk, onDemand, waiting, challenge, others>>
        /\ CacheOK' /\ todo' \subseteq Domains /\ mgr.pc # "order"
    BY DEF ReloadSwap, Boot, CacheOK, Inv, SetsOK
  <1>2. mgr'.pc \in {"idle", "next"}
    BY PlaceFields DEF ReloadSwap, Boot
  <1>3. ManagerPlace' /\ FilesBegun'
    BY <1>2 DEF ManagerPlace, AtRest, FilesBegun
  <1>4. DiskOK' /\ OnDemandOK' /\ SetsOK' /\ ApiPlace'
    BY <1>1 DEF Inv, disk, others, DiskOK, OnDemandOK, SetsOK, Places, ApiPlace
  <1>5. challenge' = {}
    BY <1>1, NoToken DEF Inv
  <1> QED
    BY <1>1, <1>3, <1>4, <1>5 DEF Inv, Places, ChallengeOnlyWhileIssuing

LEMMA DecideInv == ASSUME Inv, NEW d \in Domains, Decide(d) PROVE Inv'
  <1>1. Need(d) \in {"fallback", "issue", "renewFallback", "nothing"}
    <2>1. Need(d) \in {"fallback", "issue", "nothing",
                       IF AcmePossible(d) THEN "issue" ELSE "renewFallback"}
      BY Zenon DEF Need
    <2> QED
      BY <2>1
  <1>2. mgr' \in {At("next"), For("issue", d), Fallback("fallback", d, For("issue", d)),
                  Fallback("fallback", d, At("next"))}
    BY <1>1 DEF Decide
  <1>3. ManagerPlace' /\ FilesBegun'
    <2>1. CASE mgr' = At("next")
      BY <2>1, PlaceFields DEF ManagerPlace, AtRest, FilesBegun
    <2>2. CASE mgr' = For("issue", d)
      BY <2>2, PlaceFields DEF ManagerPlace, IsIssuing, FilesBegun
    <2>3. ASSUME NEW t \in {For("issue", d), At("next")}, mgr' = Fallback("fallback", d, t)
          PROVE  ManagerPlace' /\ FilesBegun'
      BY <2>3, PlaceFields DEF ManagerPlace, IsFallback, FilesBegun
    <2> QED
      BY <1>2, <2>1, <2>2, <2>3
  <1>4. UNCHANGED <<disk, memory, others>> /\ mgr.pc # "order" /\ todo' \subseteq Domains
    BY DEF Decide, Inv, SetsOK
  <1> QED
    BY <1>3, <1>4, MovesInv

-----------------------------------------------------------------------------
(* The fallback: what the manager holds, and where it goes on.             *)
LEMMA AtFallback ==
    ASSUME Inv, mgr.pc \in {"fallback", "fallbackKey", "fallbackStore", "fallbackInstall"}
    PROVE  IsFallback /\ mgr.domain \in Domains
  BY DEF Inv, Places, ManagerPlace, AtRest, IsLoading, IsIssuing, IsFallback

LEMMA AtIssuing ==
    ASSUME Inv, mgr.pc \in {"issue", "order", "store", "install", "mirrorCrt", "mirrorKey", "issued"}
    PROVE  IsIssuing /\ mgr.domain \in Domains
  BY DEF Inv, Places, ManagerPlace, AtRest, IsLoading, IsIssuing, IsFallback

(* After the fallback: the issuance, or the next domain.                   *)
LEMMA ThenPlace ==
    ASSUME IsFallback, mgr' = mgr.then
    PROVE  ManagerPlace' /\ FilesBegun'
  <1>1. CASE mgr' = At("next")
    BY <1>1, PlaceFields DEF ManagerPlace, AtRest, FilesBegun
  <1>2. CASE mgr' = For("issue", mgr.domain)
    <2>1. mgr'.pc = "issue" /\ mgr'.domain = mgr.domain
      BY <1>2, PlaceFields
    <2>2. IsIssuing'
      BY <1>2, <2>1 DEF IsIssuing, IsFallback
    <2> QED
      BY <2>1, <2>2 DEF ManagerPlace, FilesBegun
  <1> QED
    BY <1>1, <1>2 DEF IsFallback

(* Its next step, for the same domain                                      *)
LEMMA FallbackGoesOn ==
    ASSUME IsFallback, NEW pc \in {"fallbackKey", "fallbackStore", "fallbackInstall"},
           mgr' = [mgr EXCEPT !.pc = pc]
    PROVE  ManagerPlace' /\ mgr'.pc = pc /\ mgr'.domain = mgr.domain
  <1>1. mgr' = Fallback(pc, mgr.domain, mgr.then)
    BY DEF IsFallback, Fallback
  <1>2. mgr'.pc = pc /\ mgr'.domain = mgr.domain /\ mgr'.then = mgr.then
    BY <1>1, PlaceFields
  <1>3. IsFallback'
    BY <1>1, <1>2 DEF IsFallback
  <1> QED
    BY <1>2, <1>3 DEF ManagerPlace

LEMMA FallbackKeptInv == ASSUME Inv, FallbackKept PROVE Inv'
  <1>1. IsFallback /\ mgr.pc = "fallback" /\ Loads(kept[mgr.domain]) /\ mgr.domain \in Domains
    BY AtFallback DEF FallbackKept
  <1>2. kept' = kept /\ kept[mgr.domain] \in Pairs
    BY <1>1 DEF FallbackKept, disk, Loads, Inv, DiskOK
  <1>3. ManagerPlace' /\ FilesBegun'
    <2>1. CASE mgr' = mgr.then
      BY <1>1, <2>1, ThenPlace
    <2>2. CASE mgr' = [mgr EXCEPT !.pc = "fallbackStore"]
      BY <1>1, <1>2, <2>2, FallbackGoesOn DEF FilesBegun
    <2> QED
      BY <2>1, <2>2 DEF FallbackKept
  <1> QED
    BY <1>1, <1>3, MovesInv DEF FallbackKept, Inv, SetsOK

(* A file is written, and nothing in memory changes.                       *)
LEMMA WritesInv ==
    ASSUME Inv, UNCHANGED <<memory, todo, others>>, mgr.pc # "order",
           DiskOK', ManagerPlace', FilesBegun'
    PROVE  Inv'
  <1>1. challenge' = {}
    BY NoToken DEF Inv, memory
  <1>2. CacheOK' /\ OnDemandOK' /\ SetsOK' /\ ApiPlace'
    BY DEF Inv, memory, others, CacheOK, OnDemandOK, SetsOK, Places, ApiPlace
  <1> QED
    BY <1>1, <1>2 DEF Inv, Places, ChallengeOnlyWhileIssuing

LEMMA NewCrtType == ASSUME NEW pair PROVE NewCrt(pair) \in Pairs
  BY DEF NewCrt, Pairs, Ages

LEMMA KeyType == ASSUME NEW pair \in Pairs PROVE [pair EXCEPT !.key = "its"] \in Pairs
  BY DEF Pairs

LEMMA FallbackCrtInv == ASSUME Inv, FallbackCrt PROVE Inv'
  <1>1. IsFallback /\ mgr.pc = "fallback" /\ mgr.domain \in Domains
    BY AtFallback DEF FallbackCrt
  <1>2. DiskOK' /\ kept'[mgr.domain] \in Pairs
    BY <1>1, NewCrtType DEF FallbackCrt, Inv, DiskOK
  <1>3. ManagerPlace' /\ FilesBegun'
    BY <1>1, <1>2, FallbackGoesOn DEF FallbackCrt, FilesBegun
  <1> QED
    BY <1>1, <1>2, <1>3, WritesInv DEF FallbackCrt

LEMMA FallbackKeyInv == ASSUME Inv, FallbackKey PROVE Inv'
  <1>1. IsFallback /\ mgr.pc = "fallbackKey" /\ mgr.domain \in Domains
    BY AtFallback DEF FallbackKey
  <1>2. kept[mgr.domain] \in Pairs
    BY <1>1 DEF Inv, Places, FilesBegun
  <1>3. [kept[mgr.domain] EXCEPT !.key = "its"] \in Pairs
    BY <1>2, KeyType
  <1>4. DiskOK' /\ kept'[mgr.domain] \in Pairs
    BY <1>1, <1>3 DEF FallbackKey, Inv, DiskOK
  <1>5. ManagerPlace' /\ FilesBegun'
    BY <1>1, <1>4, FallbackGoesOn DEF FallbackKey, FilesBegun
  <1> QED
    BY <1>1, <1>4, <1>5, WritesInv DEF FallbackKey

LEMMA FallbackStoreInv == ASSUME Inv, FallbackStore PROVE Inv'
  <1>1. IsFallback /\ mgr.pc = "fallbackStore" /\ mgr.domain \in Domains
    BY AtFallback DEF FallbackStore
  <1>2. kept[mgr.domain] \in Pairs
    BY <1>1 DEF Inv, Places, FilesBegun
  <1>3. [source |-> "self_signed", age |-> kept[mgr.domain].age] \in
           [source : Sources \ {"file"}, age : Ages]
    BY <1>2 DEF Pairs, Sources
  <1>4. DiskOK'
    BY <1>1, <1>3 DEF FallbackStore, Inv, DiskOK
  <1>5. ManagerPlace' /\ FilesBegun'
    BY <1>1, <1>2, FallbackGoesOn DEF FallbackStore, FilesBegun
  <1> QED
    BY <1>1, <1>4, <1>5, WritesInv DEF FallbackStore

(* A certificate is put into the cache.                                    *)
LEMMA InstallOK ==
    ASSUME Inv, NEW d \in Domains, NEW cert \in Certs, Install(d, cert)
    PROVE  CacheOK' /\ OnDemandOK'
  <1>1. CacheOK'
    BY DEF Install, Inv, CacheOK
  <1>2. onDemand' \subseteq onDemand
    BY DEF Install
  <1> QED
    BY <1>1, <1>2, FewerOnDemand DEF Inv

LEMMA FallbackInstallInv == ASSUME Inv, FallbackInstall PROVE Inv'
  <1>1. IsFallback /\ mgr.pc = "fallbackInstall" /\ mgr.domain \in Domains
    BY AtFallback DEF FallbackInstall
  <1>2. kept[mgr.domain] \in Pairs
    BY <1>1 DEF Inv, Places, FilesBegun
  <1>3. [source |-> "self_signed", age |-> kept[mgr.domain].age] \in Certs
    BY <1>2 DEF Pairs, Certs, Sources
  <1>4. CacheOK' /\ OnDemandOK'
    BY <1>1, <1>3, InstallOK DEF FallbackInstall
  <1>5. ManagerPlace' /\ FilesBegun'
    BY <1>1, ThenPlace DEF FallbackInstall
  <1>6. DiskOK' /\ SetsOK' /\ ApiPlace'
    BY DEF FallbackInstall, Inv, disk, others, DiskOK, SetsOK, Places, ApiPlace
  <1>7. challenge' = {}
    BY <1>1, NoToken DEF FallbackInstall, Inv
  <1> QED
    BY <1>4, <1>5, <1>6, <1>7 DEF Inv, Places, ChallengeOnlyWhileIssuing

-----------------------------------------------------------------------------
(* The issuance: its next step, for the same domain                        *)
LEMMA IssuingGoesOn ==
    ASSUME IsIssuing,
           NEW pc \in {"order", "store", "install", "mirrorCrt", "mirrorKey", "issued"},
           mgr' = For(pc, mgr.domain)
    PROVE  ManagerPlace' /\ mgr'.pc = pc /\ mgr'.domain = mgr.domain
  <1>1. mgr'.pc = pc /\ mgr'.domain = mgr.domain
    BY PlaceFields
  <1>2. IsIssuing'
    BY <1>1 DEF IsIssuing
  <1> QED
    BY <1>1, <1>2 DEF ManagerPlace

(* A step of the issuance that changes no file and no certificate          *)
LEMMA IssueMoves ==
    ASSUME Inv, \/ IssueOrder \/ IssueFails \/ IssueOk \/ IssuedNotStored \/ Issued
    PROVE  Inv'
  <1>1. IsIssuing /\ mgr.domain \in Domains
    BY AtIssuing DEF IssueOrder, IssueFails, IssueOk, IssuedNotStored, Issued
  <1>2. DiskOK' /\ CacheOK' /\ OnDemandOK' /\ SetsOK' /\ ApiPlace'
    BY <1>1 DEF IssueOrder, IssueFails, IssueOk, IssuedNotStored, Issued, Inv, disk, others,
                DiskOK, CacheOK, OnDemandOK, SetsOK, Places, ApiPlace
  <1>3. ManagerPlace' /\ FilesBegun'
    <2>1. \/ mgr' = For("order", mgr.domain) \/ mgr' = For("store", mgr.domain)
          \/ mgr' = At("next")
      BY DEF IssueOrder, IssueFails, IssueOk, IssuedNotStored, Issued
    <2>2. CASE mgr' = At("next")
      BY <2>2, PlaceFields DEF ManagerPlace, AtRest, FilesBegun
    <2>3. CASE \/ mgr' = For("order", mgr.domain) \/ mgr' = For("store", mgr.domain)
      BY <1>1, <2>3, IssuingGoesOn DEF FilesBegun
    <2> QED
      BY <2>1, <2>2, <2>3
  <1>4. ChallengeOnlyWhileIssuing'
    <2>1. challenge \subseteq {mgr.domain} /\ (mgr.pc # "order" => challenge = {})
      BY NoToken DEF Inv
    <2>2. CASE IssueOrder
      BY <2>1, <2>2 DEF IssueOrder, ChallengeOnlyWhileIssuing
    <2>3. CASE IssueFails \/ IssueOk \/ IssuedNotStored \/ Issued
      <3>1. challenge' = {}
        BY <2>1, <2>3 DEF IssueFails, IssueOk, IssuedNotStored, Issued
      <3> QED
        BY <3>1 DEF ChallengeOnlyWhileIssuing
    <2> QED
      BY <2>2, <2>3
  <1> QED
    BY <1>2, <1>3, <1>4 DEF Inv, Places

LEMMA IssuedStoreInv == ASSUME Inv, IssuedStore PROVE Inv'
  <1>1. IsIssuing /\ mgr.pc = "store" /\ mgr.domain \in Domains
    BY AtIssuing DEF IssuedStore
  <1>2. [source |-> "acme", age |-> "fresh"] \in [source : Sources \ {"file"}, age : Ages]
    BY DEF Sources, Ages
  <1>3. DiskOK'
    BY <1>1, <1>2 DEF IssuedStore, Inv, DiskOK
  <1>4. ManagerPlace' /\ FilesBegun'
    BY <1>1, IssuingGoesOn DEF IssuedStore, FilesBegun
  <1> QED
    BY <1>1, <1>3, <1>4, WritesInv DEF IssuedStore

LEMMA IssuedInstallInv == ASSUME Inv, IssuedInstall PROVE Inv'
  <1>1. IsIssuing /\ mgr.pc = "install" /\ mgr.domain \in Domains
    BY AtIssuing DEF IssuedInstall
  <1>2. [source |-> "acme", age |-> "fresh"] \in Certs
    BY DEF Certs, Sources, Ages
  <1>3. CacheOK' /\ OnDemandOK'
    BY <1>1, <1>2, InstallOK DEF IssuedInstall
  <1>4. ManagerPlace' /\ FilesBegun'
    <2>1. mgr' = For("mirrorCrt", mgr.domain) \/ mgr' = For("issued", mgr.domain)
      BY DEF IssuedInstall
    <2> QED
      BY <1>1, <2>1, IssuingGoesOn DEF FilesBegun
  <1>5. DiskOK' /\ SetsOK' /\ ApiPlace'
    BY DEF IssuedInstall, Inv, disk, others, DiskOK, SetsOK, Places, ApiPlace
  <1>6. challenge' = {}
    BY <1>1, NoToken DEF IssuedInstall, Inv
  <1> QED
    BY <1>3, <1>4, <1>5, <1>6 DEF Inv, Places, ChallengeOnlyWhileIssuing

LEMMA MirrorInv == ASSUME Inv, MirrorCrt \/ MirrorKey \/ MirrorFails PROVE Inv'
  <1>1. /\ IsIssuing /\ mgr.domain \in Domains /\ mgr.pc # "order"
        /\ UNCHANGED <<memory, todo, others>>
    BY AtIssuing DEF MirrorCrt, MirrorKey, MirrorFails
  <1>2. CASE MirrorCrt
    <2>1. DiskOK' /\ dir'[mgr.domain] \in Pairs
      BY <1>1, <1>2, NewCrtType DEF MirrorCrt, Inv, DiskOK
    <2>2. ManagerPlace' /\ FilesBegun'
      BY <1>1, <1>2, <2>1, IssuingGoesOn DEF MirrorCrt, FilesBegun
    <2> QED
      BY <1>1, <2>1, <2>2, WritesInv
  <1>3. CASE MirrorKey
    <2>1. [dir[mgr.domain] EXCEPT !.key = "its"] \in Pairs
      BY <1>3, KeyType DEF MirrorKey, Inv, Places, FilesBegun
    <2>2. DiskOK'
      BY <1>1, <1>3, <2>1 DEF MirrorKey, Inv, DiskOK
    <2>3. ManagerPlace' /\ FilesBegun'
      BY <1>1, <1>3, IssuingGoesOn DEF MirrorKey, FilesBegun
    <2> QED
      BY <1>1, <2>2, <2>3, WritesInv
  <1>4. CASE MirrorFails
    <2>1. DiskOK'
      BY <1>4 DEF MirrorFails, disk, Inv, DiskOK
    <2>2. ManagerPlace' /\ FilesBegun'
      BY <1>1, <1>4, IssuingGoesOn DEF MirrorFails, FilesBegun
    <2> QED
      BY <1>1, <2>1, <2>2, WritesInv
  <1> QED
    BY <1>2, <1>3, <1>4

-----------------------------------------------------------------------------
(* A step beside the manager, which stays where it is                      *)
LEMMA BesideInv ==
    ASSUME Inv, UNCHANGED <<mgr, challenge, todo>>,
           DiskOK', CacheOK', OnDemandOK', ApiPlace', FilesBegun',
           waiting' \subseteq Domains, resolves' \subseteq Domains
    PROVE  Inv'
  <1>1. SetsOK'
    BY DEF Inv, SetsOK
  <1>2. ManagerPlace'
    BY DEF Inv, Places, ManagerPlace, AtRest, IsLoading, IsIssuing, IsFallback
  <1>3. ChallengeOnlyWhileIssuing'
    BY DEF Inv, ChallengeOnlyWhileIssuing
  <1> QED
    BY <1>1, <1>2, <1>3 DEF Inv, Places

LEMMA RowInv ==
    ASSUME Inv, NEW d \in Domains, UploadStore(d) \/ DeleteRow(d) PROVE Inv'
  <1>1. DiskOK'
    BY DEF UploadStore, DeleteRow, Inv, DiskOK, Sources, Ages
  <1>2. ApiPlace'
    BY PlaceFields DEF UploadStore, DeleteRow, ApiPlace
  <1>3. CacheOK' /\ OnDemandOK' /\ UNCHANGED <<mgr, challenge, todo, waiting, resolves>>
    BY DEF UploadStore, DeleteRow, Inv, memory, CacheOK, OnDemandOK
  <1>4. FilesBegun'
    BY DEF UploadStore, DeleteRow, Inv, Places, FilesBegun
  <1> QED
    BY <1>1, <1>2, <1>3, <1>4, BesideInv DEF Inv, SetsOK

LEMMA ApiInv == ASSUME Inv, UploadInstall \/ DeleteForget PROVE Inv'
  <1>1. api.domain \in Domains
    BY DEF UploadInstall, DeleteForget, Inv, Places, ApiPlace
  <1>2. CacheOK' /\ OnDemandOK'
    <2>1. CASE UploadInstall
      <3>1. [source |-> "manual", age |-> "fresh"] \in Certs
        BY DEF Certs, Sources, Ages
      <3> QED
        BY <1>1, <2>1, <3>1, InstallOK DEF UploadInstall
    <2>2. CASE DeleteForget
      <3>1. CacheOK'
        BY <1>1, <2>2 DEF DeleteForget, Inv, CacheOK
      <3>2. onDemand' \subseteq onDemand
        BY <2>2 DEF DeleteForget
      <3> QED
        BY <3>1, <3>2, FewerOnDemand DEF Inv
    <2> QED
      BY <2>1, <2>2
  <1>3. ApiPlace'
    BY PlaceFields DEF UploadInstall, DeleteForget, ApiPlace
  <1>4. DiskOK' /\ FilesBegun'
    BY DEF UploadInstall, DeleteForget, disk, Inv, DiskOK, Places, FilesBegun
  <1>5. UNCHANGED <<mgr, challenge, todo, resolves>> /\ waiting' \subseteq Domains
    BY DEF UploadInstall, DeleteForget, Inv, SetsOK
  <1> QED
    BY <1>2, <1>3, <1>4, <1>5, BesideInv DEF Inv, SetsOK

(* One more certificate on demand, while there is room.                    *)
LEMMA HandshakeInv == ASSUME Inv, NEW n \in Names, Handshake(n) PROVE Inv'
  <1>1. OnDemandOK'
    <2>1. /\ IsFiniteSet(onDemand') /\ Cardinality(onDemand') = Cardinality(onDemand) + 1
          /\ Cardinality(onDemand) \in Nat
      BY FS_AddElement, FS_CardinalityType DEF Handshake, Inv, OnDemandOK
    <2> QED
      BY <2>1, CertAssumption DEF Handshake, Inv, OnDemandOK
  <1>2. DiskOK' /\ CacheOK' /\ FilesBegun' /\ ApiPlace'
    BY DEF Handshake, disk, others, Inv, DiskOK, CacheOK, Places, FilesBegun, ApiPlace
  <1> QED
    BY <1>1, <1>2, BesideInv DEF Handshake, others, Inv, SetsOK

LEMMA AgeInv == ASSUME Inv, NEW d \in Domains, Age(d) PROVE Inv'
  <1>1. \A a \in Ages : Older(a) \in Ages
    BY DEF Older, Ages
  <1>2. \A S \in SUBSET Sources : \A c \in [source : S, age : Ages] \cup {None} :
           OlderCert(c) \in [source : S, age : Ages] \cup {None}
    BY <1>1 DEF OlderCert
  <1>3. db' \in [Domains -> [source : Sources \ {"file"}, age : Ages] \cup {None}]
    <2>1. OlderCert(db[d]) \in [source : Sources \ {"file"}, age : Ages] \cup {None}
      BY <1>2 DEF Inv, DiskOK
    <2> QED
      BY <2>1 DEF Age, Inv, DiskOK
  <1>4. CacheOK'
    <2>1. OlderCert(cache[d]) \in Certs \cup {None}
      BY <1>2 DEF Inv, CacheOK, Certs
    <2> QED
      BY <2>1 DEF Age, Inv, CacheOK
  <1>5. \A p \in Pairs : Aged(p, Older(p.age)) \in Pairs /\ Aged(p, "due") \in Pairs
    BY <1>1 DEF Aged, Pairs, Ages
  <1>6. dir' \in [Domains -> Pairs \cup {None}]
    <2>1. (IF dir[d] = None THEN None ELSE Aged(dir[d], Older(dir[d].age))) \in Pairs \cup {None}
      BY <1>5 DEF Inv, DiskOK
    <2> QED
      BY <2>1 DEF Age, Inv, DiskOK
  <1>7. kept' \in [Domains -> Pairs \cup {None}]
    <2>1. (IF kept[d] = None THEN None ELSE Aged(kept[d], "due")) \in Pairs \cup {None}
      BY <1>5 DEF Inv, DiskOK
    <2> QED
      BY <2>1 DEF Age, Inv, DiskOK
  <1>8. OnDemandOK' /\ ApiPlace' /\ FilesBegun'
    BY DEF Age, others, Inv, OnDemandOK, Places, ApiPlace, FilesBegun
  <1> QED
    BY <1>3, <1>4, <1>6, <1>7, <1>8, BesideInv DEF Age, others, Inv, SetsOK, DiskOK

LEMMA WorldInv ==
    ASSUME Inv, NEW d \in Domains, WaitOver(d) \/ ExternalPair(d) \/ DnsChange(d) PROVE Inv'
  <1>1. DiskOK'
    <2>1. [key |-> "its", own |-> FALSE, age |-> "fresh"] \in Pairs
      BY DEF Pairs, Ages
    <2>2. CASE ExternalPair(d)
      BY <2>1, <2>2 DEF ExternalPair, Inv, DiskOK
    <2>3. CASE WaitOver(d) \/ DnsChange(d)
      BY <2>3 DEF WaitOver, DnsChange, disk, Inv, DiskOK
    <2> QED
      BY <2>2, <2>3
  <1>2. FilesBegun'
    BY DEF WaitOver, ExternalPair, DnsChange, disk, Inv, Places, FilesBegun
  <1>3. CacheOK' /\ OnDemandOK' /\ ApiPlace'
    BY DEF WaitOver, ExternalPair, DnsChange, memory, others, Inv, CacheOK, OnDemandOK, Places, ApiPlace
  <1>4. /\ UNCHANGED <<mgr, challenge, todo>>
        /\ waiting' \subseteq Domains /\ resolves' \subseteq Domains
    BY DEF WaitOver, ExternalPair, DnsChange, memory, others, Inv, SetsOK
  <1> QED
    BY <1>1, <1>2, <1>3, <1>4, BesideInv

LEMMA CrashInv == ASSUME Inv, Crash PROVE Inv'
  <1>1. DiskOK' /\ CacheOK' /\ SetsOK'
    BY DEF Crash, disk, Inv, DiskOK, CacheOK, SetsOK
  <1>2. onDemand' \subseteq onDemand
    BY DEF Crash
  <1>3. OnDemandOK'
    BY <1>2, FewerOnDemand DEF Inv
  <1>4. Places'
    BY PlaceFields DEF Crash, Places, ManagerPlace, AtRest, ApiPlace, FilesBegun
  <1> QED
    BY <1>1, <1>3, <1>4 DEF Crash, Inv, ChallengeOnlyWhileIssuing

-----------------------------------------------------------------------------
LEMMA NextInv == Inv /\ [Next]_vars => Inv'
  <1> SUFFICES ASSUME Inv, [Next]_vars PROVE Inv'
    OBVIOUS
  <1>1. CASE Manager
    BY <1>1, ReloadInv, SwapInv, DecideInv, FallbackKeptInv, FallbackCrtInv, FallbackKeyInv,
       FallbackStoreInv, FallbackInstallInv, IssueMoves, IssuedInstallInv, MirrorInv
    DEF Manager
  <1>2. CASE ReloadList("scan") \/ IssueOk \/ IssuedStore \/ Failures
    BY <1>2, ReloadInv, IssueMoves, IssuedStoreInv, MirrorInv DEF Failures
  <1>3. CASE Operator
    BY <1>3, RowInv, ApiInv DEF Operator
  <1>4. CASE World
    BY <1>4, CrashInv, HandshakeInv, AgeInv, WorldInv DEF World
  <1>5. CASE UNCHANGED vars
    <2>1. DiskOK' /\ CacheOK' /\ OnDemandOK' /\ ApiPlace' /\ FilesBegun'
      BY <1>5 DEF vars, Inv, DiskOK, CacheOK, OnDemandOK, Places, ApiPlace, FilesBegun
    <2> QED
      BY <1>5, <2>1, BesideInv DEF vars, Inv, SetsOK
  <1> QED
    BY <1>1, <1>2, <1>3, <1>4, <1>5 DEF Next

LEMMA Invariance == Spec => []Inv
  BY InitInv, NextInv, PTL DEF Spec

-----------------------------------------------------------------------------
(* The cache, the rows and the files hold certificates however uploads,    *)
(* deletions, reloads, issuances and crashes interleave, and the           *)
(* handshakes of strangers never make more than maxOnDemandSelfSigned      *)
(* certificates (certs.go, GetCertificate).                                *)
THEOREM TypeCorrect == Spec => []TypeOK
  BY InvImpliesType, Invariance, PTL

(* A token is withdrawn on every path out of an order, a crash included    *)
(* (acme.go, issue; certs.go, ServeChallenge).                             *)
THEOREM TokensWithdrawn == Spec => []ChallengeOnlyWhileIssuing
  <1>1. Inv => ChallengeOnlyWhileIssuing
    BY DEF Inv
  <1> QED
    BY <1>1, Invariance, PTL
=============================================================================
