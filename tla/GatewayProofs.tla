--------------------------- MODULE GatewayProofs ---------------------------
(***************************************************************************)
(* The rate limiter for every rate and burst and every number of clients,   *)
(* addresses and buckets: requests hold current buckets only, so that the   *)
(* map with its clean-up implements one bucket per address that may be      *)
(* renewed only after a quiet time (TokenBucket), and the admissions of a   *)
(* window are bounded.                                                      *)
(*                                                                         *)
(* The history for every number of clients, folders and lines, every kind   *)
(* of line and every page size: what a client put together from pages is a  *)
(* prefix of what the reader's loop yields, and so agrees with the single   *)
(* messages, the titles and the usage.  The loop is a recursive function    *)
(* over the lines; what is said of it is shown by taking the least index    *)
(* at which it fails (SetInduction).                                        *)
(***************************************************************************)
EXTENDS Gateway, WellFoundedInduction, FiniteSetTheorems, SequenceTheorems, TLAPS

(* What the code guarantees to be in a bucket whose entry has this age. *)
Saved(age) == Rate * (age - MaxStall)

Level(ip) == IF limiters[ip] = NoBucket THEN Burst ELSE tokens[limiters[ip]]

(* The time since a request came, as far as anybody remembers. *)
Silence(ip) == IF limiters[ip] = NoBucket THEN Stale ELSE idle[ip]

(* No two addresses share a bucket. *)
Apart ==
    \A ip, other \in IPs : limiters[ip] = limiters[other] /\ limiters[ip] # NoBucket => ip = other

(* A request's bucket is the one in the map, last accessed when the request *)
(* got it or later.                                                         *)
HeldIsCurrent ==
    \A c \in Clients : held[c] # NoBucket =>
        /\ limiters[getClientIP(c)] = held[c]
        /\ idle[getClientIP(c)] <= stall[c]

(* Nobody takes tokens from the bucket of an idle entry: it fills up. *)
FillsUp ==
    \A ip \in IPs : limiters[ip] # NoBucket =>
        tokens[limiters[ip]] = Burst \/ tokens[limiters[ip]] >= Saved(idle[ip])

LimitInv == LimitOK /\ Apart /\ HeldIsCurrent /\ FillsUp

(* So many drops fit into the window: one per Respite, and the entry that   *)
(* is there now has not been quiet for longer than since the last of them.  *)
Fits(ip, drops) ==
    /\ Respite * drops <= elapsed
    /\ limiters[ip] = NoBucket \/ Respite * drops + Silence(ip) - MaxStall <= elapsed

(* Tokens left and tokens taken are what there was, what flowed in and what *)
(* was forgiven, as soon as the window has seen a request.                  *)
Balance ==
    \A ip \in IPs : passed[ip] # 0 =>
        \E drops \in Nat :
            /\ Fits(ip, drops)
            /\ Level(ip) + passed[ip] <= Burst + Rate * elapsed + Forgiven * drops

LimitNext ==
    \/ \E c \in Clients : getLimiter(c) \/ Allow(c) \/ TooManyRequests(c)
    \/ cleanupStaleEntries \/ Tick

----------------------------------------------------------------------------
(* Arithmetic of the ages *)

LEMMA SavedYoung == ASSUME NEW age \in Nat, age <= MaxStall PROVE Saved(age) \in Int /\ Saved(age) <= 0
  <1>1. MaxStall - age \in Nat /\ Rate \in Nat
    BY RateAssumption
  <1>2. \A m, n \in Nat : m * n \in Nat
    OBVIOUS
  <1>3. Rate * (MaxStall - age) \in Nat
    BY <1>1, <1>2
  <1>4. Saved(age) = -(Rate * (MaxStall - age))
    BY RateAssumption DEF Saved
  <1> QED
    BY <1>3, <1>4

LEMMA SavedGrows == ASSUME NEW age \in Nat PROVE Saved(age) \in Int /\ Saved(age + 1) = Saved(age) + Rate
  BY RateAssumption DEF Saved

LEMMA SavedStale ==
    /\ Stale \in Nat /\ Respite \in Nat \ {0} /\ Forgiven \in Nat
    /\ Saved(Stale) \in Int /\ Saved(Stale) + Forgiven >= Burst
  <1>1. Stale \in Nat /\ Respite \in Nat \ {0}
    BY RateAssumption, StallAssumption DEF Stale, Respite
  <1>2. Rate * Respite \in Int /\ Saved(Stale) = Rate * Respite
    BY <1>1, RateAssumption DEF Saved, Respite
  <1> QED
    BY <1>1, <1>2, RateAssumption DEF Forgiven

(* The address a request is counted for is one of the addresses. *)
LEMMA AddressOfClient == ASSUME NEW c \in Clients PROVE getClientIP(c) \in IPs
  <1>1. Origin[c] \in [peer : IPs, forwardedFor : IPs \cup {NoHeader}, realIP : IPs \cup {NoHeader}]
    BY OriginAssumption
  <1> QED
    BY <1>1, OriginAssumption DEF getClientIP

LEMMA LimitStart == LimitInit => LimitInv /\ Balance
  <1> SUFFICES ASSUME LimitInit PROVE LimitInv /\ Balance
    OBVIOUS
  <1> USE RateAssumption DEF LimitInit
  <1>types. LimitOK
    <2>1. Stale \in Nat
      BY DEF Stale
    <2> QED
      BY <2>1 DEF LimitOK
  <1>parts. Apart /\ HeldIsCurrent /\ FillsUp
    BY OriginAssumption, AddressOfClient DEF Apart, HeldIsCurrent, FillsUp
  <1>balance. Balance
    BY DEF Balance
  <1> QED
    BY <1>types, <1>parts, <1>balance DEF LimitInv

----------------------------------------------------------------------------
(* One lemma per step: the invariant, and what it is for the ideal buckets. *)

Kept(ip) ==
    limiters'[ip] = limiters[ip] /\ Silence(ip)' = Silence(ip) /\ Level(ip)' = Level(ip)

Nothing == UNCHANGED <<passed, elapsed>> /\ \A ip \in IPs : Kept(ip)

Arrives(ip) ==
    /\ UNCHANGED <<passed, elapsed>> /\ Silence(ip)' = 0 /\ Level(ip)' = Level(ip)
    /\ \A i \in IPs : i # ip => Kept(i)

Takes(ip) ==
    /\ Level(ip) \in Nat \ {0} /\ Level(ip)' = Level(ip) - 1
    /\ limiters'[ip] = limiters[ip] /\ Silence(ip) <= MaxStall /\ Silence(ip)' = Silence(ip)
    /\ passed' = [passed EXCEPT ![ip] = @ + 1] /\ UNCHANGED elapsed
    /\ \A i \in IPs : i # ip => Kept(i)

Dropped(ip) ==
    /\ limiters[ip] # NoBucket /\ limiters'[ip] = NoBucket
    /\ Silence(ip) = Stale /\ Silence(ip)' = Stale
    /\ Level(ip)' = Burst /\ Burst <= Level(ip) + Forgiven

Renews == UNCHANGED <<passed, elapsed>> /\ \A ip \in IPs : Kept(ip) \/ Dropped(ip)

Refills ==
    /\ Tick /\ UNCHANGED limiters
    /\ \A ip \in IPs : Level(ip)' = Refilled(Level(ip)) /\ Silence(ip)' = Older(Silence(ip))

LEMMA GetKeeps ==
    ASSUME LimitInv, NEW c \in Clients, getLimiter(c)
    PROVE  LimitInv' /\ Arrives(getClientIP(c))
  <1> DEFINE ip == getClientIP(c)
             b == IF NeedsEntry(ip) THEN CHOOSE f \in Free : TRUE ELSE limiters[ip]
  <1> USE RateAssumption DEF LimitInv
  <1>ip. ip \in IPs
    BY AddressOfClient
  <1>step. /\ held[c] = NoBucket /\ (NeedsEntry(ip) => Free # {})
           /\ limiters' = [limiters EXCEPT ![ip] = b]
           /\ tokens' = IF NeedsEntry(ip) THEN [tokens EXCEPT ![b] = Burst] ELSE tokens
           /\ idle' = [idle EXCEPT ![ip] = 0]
           /\ held' = [held EXCEPT ![c] = b] /\ stall' = [stall EXCEPT ![c] = 0]
           /\ UNCHANGED <<passed, elapsed>>
    BY DEF getLimiter, Accessed
  <1>free. NeedsEntry(ip) => b \in Free
    BY <1>step
  <1>bucket. b \in Buckets
    BY <1>ip, <1>free DEF Free, NeedsEntry, LimitOK
  <1>fresh. NeedsEntry(ip) => /\ \A i \in IPs : limiters[i] # b
                              /\ \A d \in Clients : held[d] # b
    BY <1>free DEF Free
  <1>old. ~NeedsEntry(ip) => b = limiters[ip] /\ limiters' = limiters /\ tokens' = tokens
    BY <1>step, <1>ip DEF NeedsEntry, LimitOK
  <1> HIDE DEF ip, b
  <1>stale. Stale \in Nat
    BY DEF Stale
  <1>types. LimitOK'
    <2>1. limiters' \in [IPs -> Buckets \cup {NoBucket}] /\ held' \in [Clients -> Buckets \cup {NoBucket}]
      BY <1>step, <1>bucket DEF LimitOK
    <2>2. tokens' \in [Buckets -> 0 .. Burst]
      BY <1>step, <1>bucket DEF LimitOK
    <2>3. idle' \in [IPs -> 0 .. Stale] /\ stall' \in [Clients -> 0 .. MaxStall]
      <3>1. 0 \in 0 .. Stale /\ 0 \in 0 .. MaxStall
        BY <1>stale
      <3> QED
        BY <3>1, <1>step DEF LimitOK
    <2> QED
      BY <1>step, <2>1, <2>2, <2>3 DEF LimitOK
  <1>at. limiters'[ip] = b /\ \A i \in IPs : i # ip => limiters'[i] = limiters[i] /\ idle'[i] = idle[i]
    BY <1>step, <1>ip DEF LimitOK
  <1>others. \A i \in IPs : i # ip => limiters[i] # b
    BY <1>fresh, <1>old, <1>ip DEF Apart, NeedsEntry
  <1>full. /\ NeedsEntry(ip) => tokens'[b] = Burst
           /\ \A d \in Buckets : d # b => tokens'[d] = tokens[d]
    BY <1>step, <1>bucket DEF LimitOK
  <1>apart. Apart'
    BY <1>at, <1>others, <1>ip DEF Apart
  <1>held. HeldIsCurrent'
    <2> SUFFICES ASSUME NEW d \in Clients, held'[d] # NoBucket
                 PROVE  limiters'[getClientIP(d)] = held'[d] /\ idle'[getClientIP(d)] <= stall'[d]
      BY DEF HeldIsCurrent, getClientIP, peerIsTrusted
    <2>1. getClientIP(d) \in IPs
      BY AddressOfClient
    <2>2. CASE d = c
      BY <2>2, <1>step, <1>at, <1>ip DEF LimitOK, ip
    <2>3. CASE d # c
      <3>1. held[d] # NoBucket /\ held'[d] = held[d] /\ stall'[d] = stall[d] /\ stall[d] \in 0 .. MaxStall
        BY <2>3, <1>step DEF LimitOK
      <3>2. limiters[getClientIP(d)] = held[d] /\ idle[getClientIP(d)] <= stall[d]
        BY <3>1 DEF HeldIsCurrent
      <3>3. CASE getClientIP(d) # ip
        BY <3>1, <3>2, <3>3, <1>at, <2>1
      <3>4. CASE getClientIP(d) = ip
        <4>1. ~NeedsEntry(ip)
          BY <3>1, <3>2, <3>4 DEF NeedsEntry
        <4>2. idle'[ip] = 0
          BY <1>step, <1>ip DEF LimitOK
        <4> QED
          BY <4>1, <4>2, <3>1, <3>2, <3>4, <1>old
      <3> QED
        BY <3>3, <3>4
    <2> QED
      BY <2>2, <2>3
  <1>fills. FillsUp'
    <2> SUFFICES ASSUME NEW i \in IPs, limiters'[i] # NoBucket
                 PROVE  tokens'[limiters'[i]] = Burst \/ tokens'[limiters'[i]] >= Saved(idle'[i])
      BY DEF FillsUp, Saved
    <2>1. CASE i # ip
      BY <2>1, <1>at, <1>others, <1>full DEF FillsUp, LimitOK
    <2>2. CASE i = ip
      <3>1. tokens'[b] \in 0 .. Burst
        BY <1>types, <1>bucket DEF LimitOK
      <3>2. idle'[ip] = 0
        BY <1>step, <1>ip DEF LimitOK
      <3>3. Saved(0) \in Int /\ Saved(0) <= 0
        BY SavedYoung
      <3> QED
        BY <2>2, <3>1, <3>2, <3>3, <1>at
    <2> QED
      BY <2>1, <2>2
  <1>levels. Arrives(ip)
    <2>1. NoBucket # b
      BY <1>bucket, OriginAssumption
    <2>2. ASSUME NEW i \in IPs, i # ip PROVE Kept(i)
      BY <2>2, <1>at, <1>others, <1>full DEF Kept, Level, Silence, LimitOK
    <2>3. Level(ip)' = Level(ip)
      BY <2>1, <1>at, <1>full, <1>old DEF Level, NeedsEntry
    <2>4. Silence(ip)' = 0
      BY <2>1, <1>at, <1>step, <1>ip DEF Silence, LimitOK
    <2> QED
      BY <2>2, <2>3, <2>4, <1>step DEF Arrives
  <1> QED
    BY <1>types, <1>apart, <1>held, <1>fills, <1>levels DEF ip

LEMMA AllowKeeps ==
    ASSUME LimitInv, NEW c \in Clients, Allow(c)
    PROVE  LimitInv' /\ Takes(getClientIP(c))
  <1> DEFINE ip == getClientIP(c)
             b == held[c]
  <1> USE RateAssumption DEF LimitInv
  <1>ip. ip \in IPs
    BY AddressOfClient
  <1>step. /\ b # NoBucket /\ tokens[b] > 0
           /\ tokens' = [tokens EXCEPT ![b] = @ - 1]
           /\ passed' = [passed EXCEPT ![ip] = @ + 1]
           /\ held' = [held EXCEPT ![c] = NoBucket] /\ stall' = [stall EXCEPT ![c] = 0]
           /\ UNCHANGED <<limiters, idle, elapsed>>
    BY DEF Allow
  <1>bucket. b \in Buckets /\ tokens[b] \in 0 .. Burst
    BY <1>step DEF LimitOK
  <1>current. limiters[ip] = b /\ idle[ip] <= stall[c]
    BY <1>step DEF HeldIsCurrent
  <1>young. idle[ip] \in Nat /\ idle[ip] <= MaxStall
    <2>1. idle[ip] \in 0 .. Stale /\ stall[c] \in 0 .. MaxStall /\ Stale \in Nat
      BY <1>ip DEF LimitOK, Stale
    <2> QED
      BY <2>1, <1>current
  <1>others. \A i \in IPs : i # ip => limiters[i] # b
    BY <1>step, <1>current, <1>ip DEF Apart
  <1> HIDE DEF ip, b
  <1>less. tokens'[b] = tokens[b] - 1 /\ tokens'[b] \in 0 .. Burst
    BY <1>step, <1>bucket DEF LimitOK
  <1>same. \A d \in Buckets : d # b => tokens'[d] = tokens[d]
    BY <1>step DEF LimitOK
  <1>types. LimitOK'
    <2>1. tokens' \in [Buckets -> 0 .. Burst]
      BY <1>step, <1>less, <1>bucket DEF LimitOK
    <2>2. passed' \in [IPs -> Nat]
      BY <1>step, <1>ip DEF LimitOK
    <2>3. held' \in [Clients -> Buckets \cup {NoBucket}] /\ stall' \in [Clients -> 0 .. MaxStall]
      <3>1. 0 \in 0 .. MaxStall
        OBVIOUS
      <3> QED
        BY <3>1, <1>step DEF LimitOK
    <2> QED
      BY <1>step, <2>1, <2>2, <2>3 DEF LimitOK
  <1>apart. Apart'
    BY <1>step DEF Apart
  <1>held. HeldIsCurrent'
    BY <1>step DEF HeldIsCurrent, LimitOK, getClientIP, peerIsTrusted
  <1>fills. FillsUp'
    <2> SUFFICES ASSUME NEW i \in IPs, limiters'[i] # NoBucket
                 PROVE  tokens'[limiters'[i]] = Burst \/ tokens'[limiters'[i]] >= Saved(idle'[i])
      BY DEF FillsUp, Saved
    <2>1. CASE i # ip
      BY <2>1, <1>step, <1>others, <1>same DEF FillsUp, LimitOK
    <2>2. CASE i = ip
      <3>1. Saved(idle[ip]) \in Int /\ Saved(idle[ip]) <= 0
        BY <1>young, SavedYoung
      <3> QED
        BY <2>2, <3>1, <1>step, <1>current, <1>less
    <2> QED
      BY <2>1, <2>2
  <1>level. Level(ip) = tokens[b] /\ Level(ip)' = tokens'[b]
    BY <1>step, <1>current DEF Level
  <1>levels. \A i \in IPs : i # ip => Kept(i)
    BY <1>step, <1>others, <1>same DEF Kept, Level, Silence, LimitOK
  <1>now. /\ Level(ip) \in Nat \ {0} /\ UNCHANGED elapsed
          /\ Level(ip)' = Level(ip) - 1 /\ passed' = [passed EXCEPT ![ip] = @ + 1]
    BY <1>level, <1>less, <1>bucket, <1>step
  <1>silent. limiters'[ip] = limiters[ip] /\ Silence(ip)' = Silence(ip) /\ Silence(ip) <= MaxStall
    BY <1>step, <1>current, <1>young DEF Silence
  <1> QED
    BY <1>types, <1>apart, <1>held, <1>fills, <1>levels, <1>now, <1>silent DEF ip, Takes

LEMMA RefuseKeeps == ASSUME LimitInv, NEW c \in Clients, TooManyRequests(c) PROVE LimitInv' /\ Nothing
  <1> USE RateAssumption DEF LimitInv, TooManyRequests
  <1>zero. 0 \in 0 .. MaxStall
    OBVIOUS
  <1>types. LimitOK'
    BY <1>zero DEF LimitOK
  <1>parts. Apart' /\ FillsUp' /\ Nothing
    BY DEF Apart, FillsUp, Nothing, Kept, Level, Silence, Saved
  <1>held. HeldIsCurrent'
    BY DEF HeldIsCurrent, LimitOK, getClientIP, peerIsTrusted
  <1> QED
    BY <1>types, <1>parts, <1>held

(* What the clean-up drops is nobody's, and full but for what is forgiven. *)
LEMMA CleanupKeeps == ASSUME LimitInv, cleanupStaleEntries PROVE LimitInv' /\ Renews
  <1> DEFINE stale == {ip \in IPs : limiters[ip] # NoBucket /\ idle[ip] > CleanupInterval}
  <1> USE RateAssumption DEF LimitInv
  <1>step. /\ limiters' = [ip \in IPs |-> IF ip \in stale THEN NoBucket ELSE limiters[ip]]
           /\ idle' = [ip \in IPs |-> IF ip \in stale THEN 0 ELSE idle[ip]]
           /\ UNCHANGED <<tokens, held, stall, passed, elapsed>>
    BY DEF cleanupStaleEntries
  <1>age. \A ip \in stale : ip \in IPs /\ limiters[ip] # NoBucket /\ idle[ip] = Stale
    BY DEF LimitOK, Stale
  <1>kept. \A ip \in IPs : ip \notin stale => limiters'[ip] = limiters[ip] /\ idle'[ip] = idle[ip]
    BY <1>step
  <1>dropped. \A ip \in stale : limiters'[ip] = NoBucket /\ idle'[ip] = 0
    BY <1>step
  <1> HIDE DEF stale
  <1>full. ASSUME NEW ip \in stale PROVE Burst <= tokens[limiters[ip]] + Forgiven
    <2>1. ip \in IPs /\ limiters[ip] # NoBucket /\ idle[ip] = Stale
      BY <1>age
    <2>2. tokens[limiters[ip]] \in 0 .. Burst
      BY <2>1 DEF LimitOK
    <2>3. tokens[limiters[ip]] = Burst \/ tokens[limiters[ip]] >= Saved(Stale)
      BY <2>1 DEF FillsUp
    <2> QED
      BY <2>2, <2>3, SavedStale
  <1>types. LimitOK'
    <2>1. 0 \in 0 .. Stale
      BY SavedStale
    <2> QED
      BY <2>1, <1>step DEF LimitOK
  <1>apart. Apart'
    BY <1>step DEF Apart
  <1>held. HeldIsCurrent'
    <2> SUFFICES ASSUME NEW d \in Clients, held'[d] # NoBucket
                 PROVE  limiters'[getClientIP(d)] = held'[d] /\ idle'[getClientIP(d)] <= stall'[d]
      BY DEF HeldIsCurrent, getClientIP, peerIsTrusted
    <2>1. getClientIP(d) \in IPs
      BY AddressOfClient
    <2>2. limiters[getClientIP(d)] = held[d] /\ idle[getClientIP(d)] <= stall[d] /\ stall[d] \in 0 .. MaxStall
      BY <1>step DEF HeldIsCurrent, LimitOK
    <2>3. getClientIP(d) \notin stale
      BY <2>2, <1>age, StallAssumption DEF Stale
    <2> QED
      BY <2>1, <2>2, <2>3, <1>kept, <1>step
  <1>fills. FillsUp'
    BY <1>step, <1>kept, <1>dropped DEF FillsUp, Saved
  <1>levels. Renews
    <2>1. ASSUME NEW ip \in stale PROVE Dropped(ip)
      BY <1>age, <1>dropped, <1>full DEF Dropped, Level, Silence
    <2>2. ASSUME NEW ip \in IPs, ip \notin stale PROVE Kept(ip)
      BY <2>2, <1>kept, <1>step DEF Kept, Level, Silence
    <2> QED
      BY <2>1, <2>2, <1>step DEF Renews
  <1> QED
    BY <1>types, <1>apart, <1>held, <1>fills, <1>levels

LEMMA TickKeeps ==
    ASSUME LimitInv, Tick
    PROVE  LimitInv' /\ Refills
  <1> USE RateAssumption DEF LimitInv
  <1>step. /\ tokens' = [b \in Buckets |-> Refilled(tokens[b])]
           /\ idle' = [ip \in IPs |-> IF limiters[ip] = NoBucket THEN 0 ELSE Older(idle[ip])]
           /\ stall' = [c \in Clients |-> IF held[c] = NoBucket THEN 0 ELSE stall[c] + 1]
           /\ UNCHANGED <<limiters, held>>
    BY DEF Tick
  <1>waits. \A c \in Clients : held[c] # NoBucket => stall[c] < MaxStall
    BY DEF Tick
  <1>stale. Stale \in Nat
    BY SavedStale
  <1>refill. \A n \in 0 .. Burst : Refilled(n) \in 0 .. Burst /\ (Refilled(n) = Burst \/ Refilled(n) = n + Rate)
    BY DEF Refilled
  <1>older. \A n \in 0 .. Stale : Older(n) \in 0 .. Stale /\ Older(n) <= n + 1 /\ (Older(n) = n \/ Older(n) = n + 1)
    BY <1>stale DEF Older
  <1>types. LimitOK'
    <2>1. tokens' \in [Buckets -> 0 .. Burst]
      BY <1>step, <1>refill DEF LimitOK
    <2>2. idle' \in [IPs -> 0 .. Stale]
      BY <1>step, <1>older, <1>stale DEF LimitOK
    <2>3. stall' \in [Clients -> 0 .. MaxStall]
      BY <1>step, <1>waits DEF LimitOK
    <2>4. elapsed' \in 0 .. MaxWindow /\ passed' \in [IPs -> Nat]
      BY DEF Tick, LimitOK
    <2> QED
      BY <2>1, <2>2, <2>3, <2>4, <1>step DEF LimitOK
  <1>apart. Apart'
    BY <1>step DEF Apart
  <1>held. HeldIsCurrent'
    <2> SUFFICES ASSUME NEW d \in Clients, held'[d] # NoBucket
                 PROVE  limiters'[getClientIP(d)] = held'[d] /\ idle'[getClientIP(d)] <= stall'[d]
      BY DEF HeldIsCurrent, getClientIP, peerIsTrusted
    <2>1. getClientIP(d) \in IPs
      BY AddressOfClient
    <2>2. limiters[getClientIP(d)] = held[d] /\ idle[getClientIP(d)] <= stall[d]
      BY <1>step DEF HeldIsCurrent
    <2>3. idle'[getClientIP(d)] = Older(idle[getClientIP(d)]) /\ stall'[d] = stall[d] + 1
      BY <2>1, <2>2, <1>step
    <2>4. idle[getClientIP(d)] \in 0 .. Stale /\ stall[d] \in 0 .. MaxStall
      BY <2>1 DEF LimitOK
    <2>5. Older(idle[getClientIP(d)]) \in Int /\ Older(idle[getClientIP(d)]) <= idle[getClientIP(d)] + 1
      BY <2>4, <1>older, <1>stale
    <2>6. idle'[getClientIP(d)] <= stall'[d]
      BY <2>2, <2>3, <2>4, <2>5, <1>stale
    <2> QED
      BY <2>2, <2>6, <1>step
  <1>fills. FillsUp'
    <2> SUFFICES ASSUME NEW i \in IPs, limiters'[i] # NoBucket
                 PROVE  tokens'[limiters'[i]] = Burst \/ tokens'[limiters'[i]] >= Saved(idle'[i])
      BY DEF FillsUp, Saved
    <2> DEFINE n == tokens[limiters[i]]
               age == idle[i]
    <2>1. limiters'[i] = limiters[i] /\ limiters[i] # NoBucket /\ limiters[i] \in Buckets
      BY <1>step DEF LimitOK
    <2>2. n \in 0 .. Burst /\ age \in 0 .. Stale
      BY <2>1 DEF LimitOK
    <2>3. n = Burst \/ n >= Saved(age)
      BY <2>1 DEF FillsUp
    <2>4. tokens'[limiters'[i]] = Refilled(n) /\ idle'[i] = Older(age)
      BY <2>1, <1>step
    <2> HIDE DEF n, age
    <2>5. Saved(age) \in Int /\ Saved(age + 1) = Saved(age) + Rate
      BY <2>2, <1>stale, SavedGrows
    <2>6. Saved(Older(age)) \in Int /\ Saved(Older(age)) <= Saved(age) + Rate
      BY <2>2, <2>5, <1>older
    <2>7. Refilled(n) = Burst \/ (Refilled(n) = n + Rate /\ n # Burst)
      BY <2>2 DEF Refilled
    <2>8. Refilled(n) = Burst \/ Refilled(n) >= Saved(Older(age))
      BY <2>2, <2>3, <2>5, <2>6, <2>7
    <2> QED
      BY <2>4, <2>8
  <1>levels. Refills
    <2>1. Refilled(Burst) = Burst /\ Older(Stale) = Stale
      BY <1>stale DEF Refilled, Older
    <2>2. \A ip \in IPs : Level(ip)' = Refilled(Level(ip))
      BY <2>1, <1>step DEF Level, LimitOK
    <2>3. \A ip \in IPs : Silence(ip)' = Older(Silence(ip))
      BY <2>1, <1>step DEF Silence
    <2> QED
      BY <2>2, <2>3, <1>step DEF Refills
  <1> QED
    BY <1>types, <1>apart, <1>held, <1>fills, <1>levels

----------------------------------------------------------------------------
(* The gateway: what its steps are for the limiter. *)

LEMMA StepIsLimit == ASSUME [Next]_vars PROVE LimitNext \/ UNCHANGED limitVars
  <1>client. ASSUME NEW c \in Clients, ClientStep(c) PROVE LimitNext \/ UNCHANGED limitVars
    BY <1>client DEF ClientStep, Ask, Pass, Refuse, SessionMessages, SessionMessage, Summarise, LimitNext
  <1>writer. ASSUME WriterStep PROVE UNCHANGED limitVars
    BY <1>writer DEF WriterStep
  <1>limiter. ASSUME LimiterStep PROVE LimitNext
    BY <1>limiter DEF LimiterStep, LimitNext
  <1>same. ASSUME UNCHANGED vars PROVE UNCHANGED limitVars
    BY <1>same DEF vars
  <1> QED
    BY <1>client, <1>writer, <1>limiter, <1>same DEF Next

LEMMA SameKeeps == ASSUME LimitInv, UNCHANGED limitVars PROVE LimitInv' /\ Nothing
  <1> USE DEF LimitInv, limitVars
  <1>1. LimitOK' /\ Apart' /\ Nothing
    BY DEF LimitOK, Apart, Nothing, Kept, Level, Silence
  <1>2. FillsUp'
    BY DEF FillsUp, Saved
  <1>3. HeldIsCurrent'
    BY DEF HeldIsCurrent, getClientIP, peerIsTrusted
  <1> QED
    BY <1>1, <1>2, <1>3

(* What a step is for the ideal buckets. *)
IdealStepOf ==
    Nothing \/ Renews \/ Refills \/ \E ip \in IPs : Arrives(ip) \/ Takes(ip)

LEMMA LimitStep == ASSUME LimitInv, [Next]_vars PROVE LimitInv' /\ IdealStepOf
  <1> DEFINE Goal == LimitInv' /\ IdealStepOf
  <1> USE DEF IdealStepOf
  <1>get. ASSUME NEW c \in Clients, getLimiter(c) PROVE Goal
    BY <1>get, GetKeeps, AddressOfClient
  <1>allow. ASSUME NEW c \in Clients, Allow(c) PROVE Goal
    BY <1>allow, AllowKeeps, AddressOfClient
  <1>refuse. ASSUME NEW c \in Clients, TooManyRequests(c) PROVE Goal
    BY <1>refuse, RefuseKeeps
  <1>clean. ASSUME cleanupStaleEntries PROVE Goal
    BY <1>clean, CleanupKeeps
  <1>tick. ASSUME Tick PROVE Goal
    BY <1>tick, TickKeeps
  <1>same. ASSUME UNCHANGED limitVars PROVE Goal
    BY <1>same, SameKeeps
  <1> HIDE DEF Goal
  <1>all. Goal
    BY StepIsLimit, <1>get, <1>allow, <1>refuse, <1>clean, <1>tick, <1>same DEF LimitNext
  <1> QED
    BY <1>all DEF Goal

LEMMA LevelRange == ASSUME LimitInv, NEW ip \in IPs PROVE Level(ip) \in 0 .. Burst
  BY RateAssumption DEF LimitInv, LimitOK, Level

(* Multiples of what is given and forgiven *)
LEMMA Multiples ==
    /\ \A n \in Nat : Rate * n \in Nat /\ Rate * (n + 1) = Rate * n + Rate
    /\ \A n \in Nat : /\ Respite * n \in Nat /\ Respite * (n + 1) = Respite * n + Respite
                     /\ n <= Respite * n
    /\ \A n \in Nat : Forgiven * n \in Nat /\ Forgiven * (n + 1) = Forgiven * n + Forgiven
    /\ Respite * 0 = 0 /\ Forgiven * 0 = 0
  <1>1. \A m, n \in Nat : m * n \in Nat /\ m * (n + 1) = m * n + m /\ m * 0 = 0
    OBVIOUS
  <1>2. ASSUME NEW n \in Nat PROVE n <= Respite * n
    <2>1. (Respite - 1) * n \in Nat
      BY SavedStale, <1>1
    <2>2. Respite * n = (Respite - 1) * n + n
      BY SavedStale
    <2> QED
      BY <2>1, <2>2, <1>1, SavedStale
  <1> QED
    BY <1>1, <1>2, SavedStale, RateAssumption

LEMMA LimitTypes ==
    ASSUME LimitInv
    PROVE  /\ passed \in [IPs -> Nat] /\ elapsed \in Nat /\ MaxStall \in Nat /\ Burst \in Nat
           /\ \A ip \in IPs : Level(ip) \in 0 .. Burst /\ Silence(ip) \in Nat
  <1>1. \A ip \in IPs : idle[ip] \in Nat
    BY SavedStale DEF LimitInv, LimitOK
  <1> QED
    BY <1>1, SavedStale, LevelRange, RateAssumption DEF LimitInv, LimitOK, Silence

LEMMA BalanceStep == ASSUME LimitInv, Balance, [Next]_vars PROVE Balance'
  <1> DEFINE Room(ip, drops) ==
               Level(ip) + passed[ip] <= Burst + Rate * elapsed + Forgiven * drops
  <1>types. /\ passed \in [IPs -> Nat] /\ elapsed \in Nat /\ MaxStall \in Nat /\ Burst \in Nat
            /\ \A ip \in IPs : Level(ip) \in 0 .. Burst /\ Silence(ip) \in Nat
    BY LimitTypes
  <1>now. \A ip \in IPs : passed[ip] # 0 => \E drops \in Nat : Fits(ip, drops) /\ Room(ip, drops)
    BY DEF Balance
  <1>goal. (\A ip \in IPs : passed'[ip] # 0 =>
              \E drops \in Nat : Fits(ip, drops)' /\ Room(ip, drops)') => Balance'
    BY DEF Balance
  <1>kept. ASSUME NEW ip \in IPs, Kept(ip), UNCHANGED elapsed, passed'[ip] = passed[ip], passed'[ip] # 0
           PROVE  \E drops \in Nat : Fits(ip, drops)' /\ Room(ip, drops)'
    <2>1. PICK drops \in Nat : Fits(ip, drops) /\ Room(ip, drops)
      BY <1>kept, <1>now
    <2>2. Fits(ip, drops)'
      BY <2>1, <1>kept DEF Fits, Kept, Respite, Stale
    <2>3. Room(ip, drops)'
      BY <2>1, <1>kept DEF Kept, Forgiven, Respite, Stale
    <2> QED
      BY <2>2, <2>3
  <1>nothing. CASE Nothing
    BY <1>nothing, <1>kept, <1>goal DEF Nothing
  <1>arrives. ASSUME NEW ip \in IPs, Arrives(ip) PROVE Balance'
    <2> SUFFICES ASSUME NEW i \in IPs, passed'[i] # 0
                 PROVE  \E drops \in Nat : Fits(i, drops)' /\ Room(i, drops)'
      BY <1>goal
    <2>1. CASE i # ip
      BY <2>1, <1>arrives, <1>kept DEF Arrives
    <2>2. CASE i = ip
      <3>1. PICK drops \in Nat : Fits(i, drops) /\ Room(i, drops)
        BY <1>now, <1>arrives DEF Arrives
      <3>2. Room(i, drops)'
        BY <2>2, <3>1, <1>arrives DEF Arrives, Forgiven, Respite, Stale
      <3>3. Respite * drops \in Nat /\ Respite * drops <= elapsed
        BY <3>1, Multiples DEF Fits
      <3>4. Respite * drops + Silence(i)' - MaxStall <= elapsed'
        <4>1. Silence(i)' = 0 /\ elapsed' = elapsed
          BY <2>2, <1>arrives DEF Arrives
        <4> QED
          BY <4>1, <3>3, <1>types
      <3>5. Fits(i, drops)'
        <4>1. elapsed' = elapsed
          BY <1>arrives DEF Arrives
        <4> QED
          BY <4>1, <3>3, <3>4 DEF Fits, Respite, Stale
      <3> QED
        BY <3>2, <3>5
    <2> QED
      BY <2>1, <2>2
  <1>takes. ASSUME NEW ip \in IPs, Takes(ip) PROVE Balance'
    <2> SUFFICES ASSUME NEW i \in IPs, passed'[i] # 0
                 PROVE  \E drops \in Nat : Fits(i, drops)' /\ Room(i, drops)'
      BY <1>goal
    <2>1. CASE i # ip
      <3>1. passed'[i] = passed[i]
        BY <2>1, <1>takes, <1>types DEF Takes
      <3> QED
        BY <2>1, <3>1, <1>takes, <1>kept DEF Takes
    <2>2. CASE i = ip
      <3>1. /\ passed'[i] = passed[i] + 1 /\ Level(i)' = Level(i) - 1 /\ elapsed' = elapsed
            /\ limiters'[i] = limiters[i] /\ Silence(i)' = Silence(i) /\ Silence(i) <= MaxStall
        BY <2>2, <1>takes, <1>types DEF Takes
      <3>2. \E drops \in Nat : Fits(i, drops) /\ Room(i, drops)
        <4>1. CASE passed[i] # 0
          BY <4>1, <1>now
        <4>2. CASE passed[i] = 0
          <5>1. Fits(i, 0)
            BY <3>1, <1>types, Multiples DEF Fits
          <5>2. Rate * elapsed \in Nat /\ Forgiven * 0 = 0
            BY <1>types, Multiples
          <5>3. Room(i, 0)
            BY <4>2, <5>2, <1>types
          <5> QED
            BY <5>1, <5>3
        <4> QED
          BY <4>1, <4>2
      <3>3. PICK drops \in Nat : Fits(i, drops) /\ Room(i, drops)
        BY <3>2
      <3>4. Fits(i, drops)'
        BY <3>1, <3>3 DEF Fits, Respite, Stale
      <3>5. Level(i)' + passed'[i] = Level(i) + passed[i]
        BY <3>1, <1>types
      <3>6. Room(i, drops)'
        BY <3>1, <3>3, <3>5 DEF Forgiven, Respite, Stale
      <3> QED
        BY <3>4, <3>6
    <2> QED
      BY <2>1, <2>2
  <1>renews. CASE Renews
    <2> SUFFICES ASSUME NEW i \in IPs, passed'[i] # 0
                 PROVE  \E drops \in Nat : Fits(i, drops)' /\ Room(i, drops)'
      BY <1>goal
    <2>1. CASE Kept(i)
      BY <2>1, <1>renews, <1>kept DEF Renews
    <2>2. CASE Dropped(i)
      <3>1. passed' = passed /\ elapsed' = elapsed
        BY <1>renews DEF Renews
      <3>2. PICK drops \in Nat : Fits(i, drops) /\ Room(i, drops)
        BY <3>1, <1>now
      <3>3. /\ Respite * (drops + 1) = Respite * drops + Respite /\ Respite * drops \in Nat
            /\ Forgiven * (drops + 1) = Forgiven * drops + Forgiven /\ Forgiven * drops \in Nat
        BY Multiples
      <3>4. Respite * drops + Stale - MaxStall <= elapsed
        BY <2>2, <3>2 DEF Fits, Dropped
      <3>5. Respite * (drops + 1) <= elapsed
        BY <3>3, <3>4, <1>types, SavedStale DEF Respite
      <3>6. Fits(i, drops + 1)'
        BY <2>2, <3>1, <3>5 DEF Fits, Dropped, Respite, Stale
      <3>7. Rate * elapsed \in Nat /\ Forgiven \in Nat
        BY <1>types, Multiples, SavedStale
      <3>8. Level(i)' = Burst /\ Burst <= Level(i) + Forgiven
        BY <2>2 DEF Dropped
      <3>9. Level(i)' + passed[i] <= Burst + Rate * elapsed + Forgiven * (drops + 1)
        BY <3>2, <3>3, <3>7, <3>8, <1>types
      <3>10. Room(i, drops + 1)'
        BY <3>1, <3>9 DEF Forgiven, Respite, Stale
      <3> QED
        BY <3>6, <3>10
    <2> QED
      BY <2>1, <2>2, <1>renews DEF Renews
  <1>refills. CASE Refills
    <2> SUFFICES ASSUME NEW i \in IPs, passed'[i] # 0
                 PROVE  \E drops \in Nat : Fits(i, drops)' /\ Room(i, drops)'
      BY <1>goal
    <2>1. elapsed' = elapsed + 1 /\ passed' = passed /\ limiters' = limiters
      BY <1>refills DEF Refills, Tick
    <2>2. PICK drops \in Nat : Fits(i, drops) /\ Room(i, drops)
      BY <2>1, <1>now
    <2>3. Level(i)' = Refilled(Level(i)) /\ Silence(i)' = Older(Silence(i))
      BY <1>refills DEF Refills
    <2>4. Level(i)' \in Int /\ Level(i)' <= Level(i) + Rate
      BY <2>3, <1>types, RateAssumption DEF Refilled
    <2>5. Silence(i)' \in Nat /\ Silence(i)' <= Silence(i) + 1
      BY <2>3, <1>types, SavedStale DEF Older
    <2>6. Respite * drops \in Nat /\ Forgiven * drops \in Nat
      BY Multiples
    <2>7. Respite * drops <= elapsed'
      BY <2>1, <2>2, <2>6, <1>types DEF Fits
    <2>8. limiters'[i] = NoBucket \/ Respite * drops + Silence(i)' - MaxStall <= elapsed'
      BY <2>1, <2>2, <2>5, <2>6, <1>types DEF Fits
    <2>9. Fits(i, drops)'
      BY <2>7, <2>8 DEF Fits, Respite, Stale
    <2>10. Rate * elapsed \in Nat /\ Rate * elapsed' = Rate * elapsed + Rate /\ Rate \in Nat
      BY <2>1, <1>types, Multiples, RateAssumption
    <2>11. Level(i)' + passed'[i] <= Burst + Rate * elapsed' + Forgiven * drops
      BY <2>1, <2>2, <2>4, <2>6, <2>10, <1>types
    <2>12. Room(i, drops)'
      BY <2>11 DEF Forgiven, Respite, Stale
    <2> QED
      BY <2>9, <2>12
  <1> QED
    BY LimitStep, <1>nothing, <1>arrives, <1>takes, <1>renews, <1>refills DEF IdealStepOf

(* The limiter's inductive invariant. *)
THEOREM LimitInvariance == Spec => [](LimitInv /\ Balance)
  <1>1. Init => LimitInv /\ Balance
    BY LimitStart DEF Init
  <1>2. LimitInv /\ Balance /\ [Next]_vars => (LimitInv /\ Balance)'
    BY LimitStep, BalanceStep
  <1> QED
    BY <1>1, <1>2, PTL DEF Spec

(* No address gets more through in a window than a full bucket, what flowed *)
(* in since, and what dropped buckets lacked, one drop in every Respite:    *)
(* for every rate, burst and number of clients.  ratelimit.go:62-150        *)
THEOREM AdmissionBounded == Spec => []AdmittedBounded
  <1>1. LimitInv /\ Balance => AdmittedBounded
    <2> SUFFICES ASSUME LimitInv, Balance, NEW ip \in IPs
                 PROVE  \E drops \in 0 .. elapsed :
                           /\ Respite * drops <= elapsed
                           /\ passed[ip] <= Burst + Rate * elapsed + Forgiven * drops
      BY DEF AdmittedBounded
    <2>1. Level(ip) \in 0 .. Burst /\ passed[ip] \in Nat /\ elapsed \in Nat /\ Burst \in Nat
      BY LimitTypes
    <2>2. Rate * elapsed \in Nat
      BY <2>1, Multiples
    <2>3. CASE passed[ip] = 0
      <3>1. Respite * 0 = 0 /\ Forgiven * 0 = 0 /\ 0 \in 0 .. elapsed
        BY <2>1, Multiples
      <3> QED
        BY <2>1, <2>2, <2>3, <3>1
    <2>4. CASE passed[ip] # 0
      <3>1. PICK drops \in Nat : /\ Respite * drops <= elapsed
                                 /\ Level(ip) + passed[ip] <= Burst + Rate * elapsed + Forgiven * drops
        BY <2>4 DEF Balance, Fits
      <3>2. drops <= Respite * drops /\ Respite * drops \in Nat /\ Forgiven * drops \in Nat
        BY Multiples
      <3>3. drops \in 0 .. elapsed
        BY <2>1, <3>1, <3>2
      <3>4. passed[ip] <= Burst + Rate * elapsed + Forgiven * drops
        BY <2>1, <2>2, <3>1, <3>2
      <3> QED
        BY <3>1, <3>3, <3>4
    <2> QED
      BY <2>3, <2>4
  <1> QED
    BY <1>1, LimitInvariance, PTL

----------------------------------------------------------------------------
(* Refinement *)

IdealLevel == [ip \in IPs |-> IF limiters[ip] = NoBucket THEN Burst ELSE tokens[limiters[ip]]]

IdealQuiet == [ip \in IPs |-> IF limiters[ip] = NoBucket THEN Stale ELSE idle[ip]]

LEMMA IdealStart == Init => Ideal!Init
  BY DEF Init, LimitInit, Ideal!Init, Stale

LEMMA IdealStep == ASSUME LimitInv, [Next]_vars PROVE [Ideal!Next]_(Ideal!vars)
  <1>level. IdealLevel = [ip \in IPs |-> Level(ip)] /\ IdealLevel' = [ip \in IPs |-> Level(ip)']
    BY DEF IdealLevel, Level
  <1>quiet. IdealQuiet = [ip \in IPs |-> Silence(ip)] /\ IdealQuiet' = [ip \in IPs |-> Silence(ip)']
    BY DEF IdealQuiet, Silence
  <1>nothing. ASSUME Nothing PROVE UNCHANGED Ideal!vars
    <2>1. IdealLevel' = IdealLevel /\ IdealQuiet' = IdealQuiet
      BY <1>nothing, <1>level, <1>quiet DEF Nothing, Kept
    <2> QED
      BY <2>1, <1>nothing DEF Ideal!vars, IdealLevel, IdealQuiet, Nothing
  <1>arrives. ASSUME NEW ip \in IPs, Arrives(ip) PROVE Ideal!Arrive(ip)
    <2>1. IdealLevel' = IdealLevel /\ IdealQuiet' = [IdealQuiet EXCEPT ![ip] = 0]
      BY <1>arrives, <1>level, <1>quiet DEF Arrives, Kept
    <2> QED
      BY <2>1, <1>arrives DEF Ideal!Arrive, IdealLevel, IdealQuiet, Arrives
  <1>takes. ASSUME NEW ip \in IPs, Takes(ip) PROVE Ideal!Take(ip)
    <2>1. IdealLevel[ip] > 0 /\ IdealQuiet[ip] <= MaxStall
      BY <1>takes, <1>level, <1>quiet DEF Takes
    <2>2. IdealLevel' = [IdealLevel EXCEPT ![ip] = @ - 1] /\ IdealQuiet' = IdealQuiet
      BY <1>takes, <1>level, <1>quiet DEF Takes, Kept
    <2> QED
      BY <2>1, <2>2, <1>takes DEF Ideal!Take, IdealLevel, IdealQuiet, Takes
  <1>renews. ASSUME Renews PROVE Ideal!Renew
    <2> DEFINE ips == {ip \in IPs : Dropped(ip)}
    <2>1. \A ip \in ips : IdealQuiet[ip] > CleanupInterval
      BY <1>quiet, RateAssumption DEF Dropped, Stale
    <2>2. IdealLevel' = [ip \in IPs |-> IF ip \in ips THEN Burst ELSE IdealLevel[ip]]
      BY <1>renews, <1>level DEF Renews, Kept, Dropped
    <2>3. IdealQuiet' = IdealQuiet
      BY <1>renews, <1>quiet DEF Renews, Kept, Dropped
    <2>4. ips \in SUBSET {ip \in IPs : IdealQuiet[ip] > CleanupInterval}
      BY <2>1
    <2> HIDE DEF ips
    <2> QED
      BY <2>2, <2>3, <2>4, <1>renews DEF Ideal!Renew, IdealLevel, IdealQuiet, Renews
  <1>refills. ASSUME Refills PROVE Ideal!Tick
    <2>1. IdealLevel' = [ip \in IPs |-> Refilled(IdealLevel[ip])]
      BY <1>refills, <1>level DEF Refills
    <2>2. \A ip \in IPs : IdealQuiet[ip] \in 0 .. Stale
      BY SavedStale DEF IdealQuiet, LimitInv, LimitOK
    <2>3. IdealQuiet' = [ip \in IPs |->
              IF IdealQuiet[ip] > CleanupInterval THEN IdealQuiet[ip] ELSE IdealQuiet[ip] + 1]
      <3>1. \A ip \in IPs : IdealQuiet'[ip] = Older(IdealQuiet[ip])
        BY <1>refills, <1>quiet DEF Refills
      <3>2. \A n \in 0 .. Stale : Older(n) = IF n > CleanupInterval THEN n ELSE n + 1
        BY RateAssumption DEF Older, Stale
      <3> QED
        BY <3>1, <3>2, <2>2, <1>quiet
    <2>4. \/ elapsed < MaxWindow /\ elapsed' = elapsed + 1 /\ UNCHANGED passed
          \/ elapsed' = 0 /\ passed' = [ip \in IPs |-> 0]
      BY <1>refills DEF Refills, Tick
    <2> QED
      BY <2>1, <2>3, <2>4 DEF Ideal!Tick, Ideal!Refill, Refilled, IdealLevel, IdealQuiet
  <1> QED
    BY LimitStep, <1>nothing, <1>arrives, <1>takes, <1>renews, <1>refills DEF IdealStepOf, Ideal!Next

(* The map of buckets with its clean-up implements one bucket per address   *)
(* that is filled up at once only after a quiet time.  ratelimit.go:62-101  *)
THEOREM LimiterIsIdeal == Spec => BucketsAreIdeal
  <1>1. LimitInv /\ [Next]_vars => [Ideal!Next]_(Ideal!vars)
    BY IdealStep
  <1> QED
    BY <1>1, IdealStart, LimitInvariance, PTL DEF Spec, BucketsAreIdeal, Ideal!Spec

----------------------------------------------------------------------------
(* Numbers *)

(* A set of numbers that has 0 and every successor has every number. *)
LEMMA SetInduction ==
    ASSUME NEW T, 0 \in T, \A n \in Nat : n \in T => n + 1 \in T
    PROVE  Nat \subseteq T
  <1> DEFINE rest == {n \in Nat : n \notin T}
  <1>1. CASE rest # {}
    <2>1. PICK m \in rest : \A k \in rest : <<k, m>> \notin OpToRel(<, Nat)
      BY <1>1, WFMin, NatLessThanWellFounded, Zenon
    <2>2. m \in Nat /\ m \notin T /\ m # 0
      OBVIOUS
    <2>3. m - 1 \in Nat /\ m - 1 < m /\ (m - 1) + 1 = m
      BY <2>2
    <2>4. \A k \in rest : k \in Nat /\ m \in Nat => ~(k < m)
      BY <2>1, Zenon DEF OpToRel
    <2>5. m - 1 \notin rest
      BY <2>2, <2>3, <2>4
    <2> QED
      BY <2>2, <2>3, <2>5
  <1> QED
    BY <1>1

(* A set of numbers with a bound has a greatest one, and any has a least one. *)
LEMMA LeastElement ==
    ASSUME NEW T \in SUBSET Nat, T # {}
    PROVE  \E m \in T : \A k \in T : m <= k
  <1>1. PICK m \in T : \A k \in T : <<k, m>> \notin OpToRel(<, Nat)
    BY WFMin, NatLessThanWellFounded, Zenon
  <1>2. \A k \in T : k \in Nat /\ m \in Nat => ~(k < m)
    BY <1>1, Zenon DEF OpToRel
  <1> QED
    BY <1>2

LEMMA GreatestElement ==
    ASSUME NEW T \in SUBSET Nat, T # {}, NEW n \in Nat, \A k \in T : k <= n
    PROVE  \E m \in T : \A k \in T : k <= m
  <1> DEFINE up == {n - k : k \in T}
  <1>1. up \in SUBSET Nat /\ up # {}
    <2>1. \A k \in T : k \in Nat /\ n - k \in Nat
      OBVIOUS
    <2> QED
      BY <2>1
  <1>2. \A m \in up : \E k \in T : m = n - k
    OBVIOUS
  <1>3. \A k \in T : n - k \in up
    OBVIOUS
  <1> HIDE DEF up
  <1>4. PICK m \in up : \A k \in up : m <= k
    BY <1>1, LeastElement
  <1>5. PICK t \in T : m = n - t
    BY <1>2
  <1>6. \A k \in T : n - t <= n - k
    BY <1>3, <1>4, <1>5
  <1> QED
    BY <1>6

----------------------------------------------------------------------------
(* The loop of ListMessages *)

(* What the loop has appended after each of the first n lines. *)
Loop(g, lines, n) ==
    /\ g = [i \in 0 .. n |-> g[i]] /\ g[0] = << >>
    /\ \A i \in 1 .. n :
          g[i] = IF Shown(lines[i][2]) THEN Append(g[i - 1], lines[i]) ELSE g[i - 1]

LEMMA LoopExists ==
    ASSUME NEW lines, NEW n \in Nat
    PROVE  \E g : Loop(g, lines, n)
  <1> DEFINE T == {k \in Nat : \E g : Loop(g, lines, k)}
  <1>1. 0 \in T
    <2>1. Loop([i \in 0 .. 0 |-> << >>], lines, 0)
      BY DEF Loop
    <2> QED
      BY <2>1
  <1>2. ASSUME NEW k \in Nat, k \in T PROVE k + 1 \in T
    <2>1. PICK g : Loop(g, lines, k)
      BY <1>2
    <2> DEFINE last == IF Shown(lines[k + 1][2]) THEN Append(g[k], lines[k + 1]) ELSE g[k]
               h == [i \in 0 .. k + 1 |-> IF i = k + 1 THEN last ELSE g[i]]
    <2>2. /\ h[0] = g[0] /\ h[k + 1] = last
          /\ \A i \in 0 .. k : h[i] = g[i]
      OBVIOUS
    <2>3. h = [i \in 0 .. k + 1 |-> h[i]]
      OBVIOUS
    <2> HIDE DEF h
    <2>4. \A i \in 1 .. k : i \in 0 .. k /\ i - 1 \in 0 .. k
      OBVIOUS
    <2>5. \A i \in 1 .. k :
             h[i] = IF Shown(lines[i][2]) THEN Append(h[i - 1], lines[i]) ELSE h[i - 1]
      BY <2>1, <2>2, <2>4 DEF Loop
    <2>6. h[k + 1] = IF Shown(lines[k + 1][2]) THEN Append(h[(k + 1) - 1], lines[k + 1])
                                               ELSE h[(k + 1) - 1]
      BY <2>2
    <2>7. \A i \in 1 .. k + 1 : i \in 1 .. k \/ i = k + 1
      OBVIOUS
    <2>8. h[0] = << >>
      BY <2>1, <2>2 DEF Loop
    <2>9. Loop(h, lines, k + 1)
      BY <2>3, <2>5, <2>6, <2>7, <2>8 DEF Loop
    <2> QED
      BY <2>9
  <1>3. Nat \subseteq T
    BY <1>1, <1>2, SetInduction
  <1> QED
    BY <1>3

(* The loop only depends on the lines it has read. *)
LEMMA LoopUnique ==
    ASSUME NEW a, NEW b, NEW m \in Nat, NEW n \in Nat, NEW g, NEW h,
           Loop(g, a, m), Loop(h, b, n), m <= n, \A i \in 1 .. m : a[i] = b[i]
    PROVE  \A i \in 0 .. m : g[i] = h[i]
  <1> DEFINE T == {k \in Nat : k <= m => g[k] = h[k]}
  <1>1. 0 \in T
    BY DEF Loop
  <1>2. ASSUME NEW k \in Nat, k \in T PROVE k + 1 \in T
    <2> SUFFICES ASSUME k + 1 <= m PROVE g[k + 1] = h[k + 1]
      OBVIOUS
    <2>1. k + 1 \in 1 .. m /\ k + 1 \in 1 .. n /\ (k + 1) - 1 = k
      OBVIOUS
    <2>2. g[k] = h[k]
      BY <1>2
    <2>3. g[k + 1] = IF Shown(a[k + 1][2]) THEN Append(g[k], a[k + 1]) ELSE g[k]
      BY <2>1 DEF Loop
    <2>4. h[k + 1] = IF Shown(b[k + 1][2]) THEN Append(h[k], b[k + 1]) ELSE h[k]
      BY <2>1 DEF Loop
    <2> QED
      BY <2>1, <2>2, <2>3, <2>4
  <1>3. Nat \subseteq T
    BY <1>1, <1>2, SetInduction
  <1> QED
    BY <1>3

LEMMA MessagesAreLoop ==
    ASSUME NEW lines, Len(lines) \in Nat
    PROVE  \E g : Loop(g, lines, Len(lines)) /\ messagesOf(lines) = g[Len(lines)]
  <1> DEFINE n == Len(lines)
             F(g) == [i \in 0 .. n |-> IF i = 0 THEN << >>
                        ELSE IF Shown(lines[i][2]) THEN Append(g[i - 1], lines[i]) ELSE g[i - 1]]
             upTo == CHOOSE g : g = F(g)
  <1>1. \A g : Loop(g, lines, n) => g = F(g)
    <2> SUFFICES ASSUME NEW g, Loop(g, lines, n) PROVE g = F(g)
      OBVIOUS
    <2>1. \A i \in 0 .. n : g[i] = F(g)[i]
      BY DEF Loop
    <2>2. g = [i \in 0 .. n |-> g[i]]
      BY DEF Loop
    <2> QED
      BY <2>1, <2>2
  <1>2. upTo = F(upTo)
    BY <1>1, LoopExists
  <1>3. messagesOf(lines) = upTo[n]
    BY DEF messagesOf
  <1> HIDE DEF upTo
  <1>4. \A i \in 0 .. n : upTo[i] = IF i = 0 THEN << >>
             ELSE IF Shown(lines[i][2]) THEN Append(upTo[i - 1], lines[i]) ELSE upTo[i - 1]
    BY <1>2
  <1>5. upTo = [i \in 0 .. n |-> upTo[i]]
    BY <1>2
  <1>6. Loop(upTo, lines, n)
    BY <1>4, <1>5 DEF Loop
  <1> QED
    BY <1>3, <1>6

(* One more line is one more message, or none. *)
LEMMA MessagesGrow ==
    ASSUME NEW S, NEW lines \in Seq(S), NEW line
    PROVE  messagesOf(Append(lines, line)) =
             IF Shown(line[2]) THEN Append(messagesOf(lines), line) ELSE messagesOf(lines)
  <1> DEFINE n == Len(lines)
             longer == Append(lines, line)
  <1>1. /\ n \in Nat /\ Len(longer) = n + 1 /\ longer[n + 1] = line
        /\ \A i \in 1 .. n : lines[i] = longer[i]
    OBVIOUS
  <1> HIDE DEF longer, n
  <1>2. PICK g : Loop(g, lines, n) /\ messagesOf(lines) = g[n]
    <2>1. Len(lines) \in Nat
      BY <1>1 DEF n
    <2> QED
      BY <2>1, MessagesAreLoop DEF n
  <1>3. PICK h : Loop(h, longer, n + 1) /\ messagesOf(longer) = h[n + 1]
    <2>1. Len(longer) \in Nat
      BY <1>1
    <2>2. \E k : Loop(k, longer, Len(longer)) /\ messagesOf(longer) = k[Len(longer)]
      BY <2>1, MessagesAreLoop
    <2> QED
      BY <1>1, <2>2
  <1>4. g[n] = h[n]
    BY <1>1, <1>2, <1>3, LoopUnique
  <1>5. n + 1 \in 1 .. n + 1 /\ (n + 1) - 1 = n
    BY <1>1
  <1>6. h[n + 1] = IF Shown(longer[n + 1][2]) THEN Append(h[(n + 1) - 1], longer[n + 1])
                                             ELSE h[(n + 1) - 1]
    BY <1>3, <1>5 DEF Loop
  <1>7. h[n + 1] = IF Shown(line[2]) THEN Append(h[n], line) ELSE h[n]
    BY <1>1, <1>5, <1>6
  <1>8. messagesOf(longer) = IF Shown(line[2]) THEN Append(messagesOf(lines), line)
                                             ELSE messagesOf(lines)
    BY <1>2, <1>3, <1>4, <1>7
  <1> QED
    BY <1>8 DEF longer

LEMMA MessagesOfNone == messagesOf(<< >>) = << >>
  <1>1. Len(<< >>) = 0
    OBVIOUS
  <1>2. Len(<< >>) \in Nat
    BY <1>1
  <1>3. PICK g : Loop(g, << >>, Len(<< >>)) /\ messagesOf(<< >>) = g[Len(<< >>)]
    BY <1>2, MessagesAreLoop
  <1> QED
    BY <1>1, <1>3 DEF Loop

(* A line that is only half written is not shown. *)
LEMMA HalfLineUnseen ==
    ASSUME HistoryOK, NEW f \in Folders
    PROVE  /\ allMessages(f) = messagesOf(files[f])
           /\ Scan(f) = files[f] \/ Scan(f) = Append(files[f], <<0, "partial">>)
  <1>1. files[f] \in Seq(Nat \X Kinds)
    BY DEF HistoryOK
  <1>2. ~Shown("partial")
    BY DEF Shown, parseMessage
  <1>3. CASE f \in part
    <2>1. Scan(f) = Append(files[f], <<0, "partial">>)
      BY <1>1, <1>3 DEF Scan
    <2>2. messagesOf(Scan(f)) = messagesOf(files[f])
      BY <1>1, <1>2, <2>1, MessagesGrow
    <2> QED
      BY <2>1, <2>2 DEF allMessages
  <1>4. CASE f \notin part
    <2>1. Scan(f) = files[f]
      BY <1>1, <1>4 DEF Scan
    <2> QED
      BY <2>1 DEF allMessages
  <1> QED
    BY <1>3, <1>4

----------------------------------------------------------------------------
(* The files, and what a client has of them *)

(* Serial numbers, those of the lines and those of the messages, increase.  *)
Ordered(q) == \A i, j \in DOMAIN q : i < j => q[i][1] < q[j][1]

Below(q, n) == \A i \in DOMAIN q : q[i][1] \in 1 .. n

TakenFrom(m, q) == \A k \in DOMAIN m : \E i \in DOMAIN q : q[i] = m[k]

FileInv ==
    \A f \in Folders :
        /\ Ordered(files[f]) /\ Below(files[f], written)
        /\ messagesOf(files[f]) \in Seq(Nat \X Kinds)
        /\ Ordered(messagesOf(files[f]))
        /\ TakenFrom(messagesOf(files[f]), files[f])

(* Every writer at work will add one line. *)
PartInv == IsFiniteSet(part) /\ written + Cardinality(part) <= MaxLines

(* What a client has is the beginning of the conversation, and no line      *)
(* before the last message it has is too long to read.                      *)
HasPrefix(c) ==
    LET m == messagesOf(files[findSessionFile])
    IN  /\ findSessionFile # 0
        /\ \E n \in 0 .. Len(m) : collected[c] = SubSeq(m, 1, n)
        /\ \A k \in DOMAIN collected[c], i \in DOMAIN files[findSessionFile] :
              files[findSessionFile][i][1] <= collected[c][k][1] =>
                files[findSessionFile][i][2] # "huge"

PagesInv ==
    /\ \A c \in Clients \ Pagers : collected[c] = << >>
    /\ \A c \in Clients \ torn :
          /\ collected[c] # << >> => HasPrefix(c)
          /\ c \in Pagers /\ state[c] = "complete" => Len(collected[c]) = total[c]

HistoryInv == TypeOK /\ FileInv /\ PartInv /\ PagesInv

LEMMA FirstFolder ==
    ASSUME present \subseteq Folders
    PROVE  IF present = {} THEN findSessionFile = 0
           ELSE findSessionFile \in present /\ findSessionFile \in Folders /\ findSessionFile # 0
  <1>1. CASE present # {}
    <2>1. present \in SUBSET Nat
      BY FoldersAssumption
    <2>2. \E f \in present : \A g \in present : f <= g
      BY <1>1, <2>1, LeastElement
    <2>3. findSessionFile \in present
      BY <1>1, <2>2 DEF findSessionFile
    <2> QED
      BY <1>1, <2>3, FoldersAssumption
  <1> QED
    BY <1>1 DEF findSessionFile

(* A line with the next serial number keeps the order. *)
LEMMA OrderedAppend ==
    ASSUME NEW q \in Seq(Nat \X Kinds), NEW n \in Nat, Ordered(q), Below(q, n), NEW kind \in Kinds
    PROVE  LET r == Append(q, <<n + 1, kind>>)
           IN  r \in Seq(Nat \X Kinds) /\ Ordered(r) /\ Below(r, n + 1)
  <1> DEFINE e == <<n + 1, kind>>
             r == Append(q, e)
  <1>1. e \in Nat \X Kinds /\ e[1] = n + 1
    OBVIOUS
  <1> HIDE DEF e
  <1>2. /\ r \in Seq(Nat \X Kinds) /\ DOMAIN q = 1 .. Len(q) /\ Len(q) \in Nat
        /\ DOMAIN r = 1 .. Len(q) + 1
        /\ \A i \in DOMAIN q : r[i] = q[i]
        /\ r[Len(q) + 1] = e
    BY <1>1
  <1> HIDE DEF r
  <1>3. \A i \in DOMAIN r : i \in Nat /\ (i \in DOMAIN q \/ i = Len(q) + 1)
    BY <1>2
  <1>4. \A i \in DOMAIN q : q[i][1] \in 1 .. n
    BY DEF Below
  <1>5. Below(r, n + 1)
    <2>1. \A i \in DOMAIN r : r[i][1] \in 1 .. n \/ r[i][1] = n + 1
      BY <1>1, <1>2, <1>3, <1>4
    <2> QED
      BY <2>1 DEF Below
  <1>6. Ordered(r)
    <2> SUFFICES ASSUME NEW i \in DOMAIN r, NEW j \in DOMAIN r, i < j
                 PROVE  r[i][1] < r[j][1]
      BY DEF Ordered
    <2>1. i \in DOMAIN q
      BY <1>2, <1>3
    <2>2. CASE j \in DOMAIN q
      BY <1>2, <2>1, <2>2 DEF Ordered
    <2>3. CASE j = Len(q) + 1
      <3>1. q[i][1] \in 1 .. n /\ r[i] = q[i] /\ r[j][1] = n + 1
        BY <1>1, <1>2, <1>4, <2>1, <2>3
      <3> QED
        BY <3>1
    <2> QED
      BY <1>3, <2>2, <2>3
  <1> QED
    BY <1>2, <1>5, <1>6 DEF e, r

----------------------------------------------------------------------------
(* The writers *)

LEMMA AppendElements ==
    ASSUME NEW S, NEW q \in Seq(S), NEW e
    PROVE  /\ \A i \in DOMAIN q : i \in DOMAIN Append(q, e) /\ Append(q, e)[i] = q[i]
           /\ Len(q) + 1 \in DOMAIN Append(q, e) /\ Append(q, e)[Len(q) + 1] = e
           /\ \A i \in DOMAIN Append(q, e) : i \in DOMAIN q \/ i = Len(q) + 1
  OBVIOUS

(* What a finished line does to its file, and to the messages in it. *)
LEMMA EndLineFile ==
    ASSUME TypeOK, FileInv, NEW f \in Folders, NEW kind \in Kinds, EndLine(f, kind)
    PROVE  LET m == messagesOf(files[f])
               m_ == messagesOf(files'[f])
               line == <<written + 1, kind>>
           IN  /\ files' = [files EXCEPT ![f] = Append(files[f], line)]
               /\ files[f] \in Seq(Nat \X Kinds) /\ files'[f] = Append(files[f], line)
               /\ m \in Seq(Nat \X Kinds) /\ m_ \in Seq(Nat \X Kinds)
               /\ Ordered(files'[f]) /\ Below(files'[f], written + 1)
               /\ Ordered(m_) /\ TakenFrom(m_, files'[f])
               /\ m_ = m \/ m_ = Append(m, line)
  <1> DEFINE q == files[f]
             line == <<written + 1, kind>>
             m == messagesOf(q)
  <1>1. /\ files' = [files EXCEPT ![f] = Append(files[f], line)]
        /\ files'[f] = Append(q, line)
        /\ q \in Seq(Nat \X Kinds) /\ written \in Nat
    BY DEF EndLine, TypeOK, HistoryOK
  <1>2. /\ Ordered(q) /\ Below(q, written) /\ m \in Seq(Nat \X Kinds) /\ Ordered(m) /\ TakenFrom(m, q)
    BY DEF FileInv
  <1>3. Ordered(Append(q, line)) /\ Below(Append(q, line), written + 1)
    BY <1>1, <1>2, OrderedAppend
  <1>4. messagesOf(Append(q, line)) \in {m, Append(m, line)}
    BY <1>1, MessagesGrow
  <1>5. Below(m, written)
    BY <1>2 DEF TakenFrom, Below
  <1>6. Append(m, line) \in Seq(Nat \X Kinds) /\ Ordered(Append(m, line))
    BY <1>1, <1>2, <1>5, OrderedAppend
  <1> HIDE DEF m, q, line
  <1>7. /\ \A i \in DOMAIN q : i \in DOMAIN Append(q, line) /\ Append(q, line)[i] = q[i]
        /\ Len(q) + 1 \in DOMAIN Append(q, line) /\ Append(q, line)[Len(q) + 1] = line
    BY <1>1, AppendElements
  <1>8. \A k \in DOMAIN Append(m, line) :
           Append(m, line)[k] = line \/ (k \in DOMAIN m /\ Append(m, line)[k] = m[k])
    BY <1>2, AppendElements
  <1>9. TakenFrom(m, Append(q, line)) /\ TakenFrom(Append(m, line), Append(q, line))
    BY <1>2, <1>7, <1>8 DEF TakenFrom
  <1> QED
    BY <1>1, <1>2, <1>3, <1>4, <1>6, <1>9 DEF m, q, line

LEMMA FileStep ==
    ASSUME TypeOK, FileInv, WriterStep
    PROVE  FileInv'
  <1>1. ASSUME UNCHANGED <<files, written>> PROVE FileInv'
    BY <1>1 DEF FileInv
  <1>2. ASSUME NEW f \in Folders, NewFile(f) \/ BeginLine(f) \/ GrowLine(f) PROVE FileInv'
    BY <1>1, <1>2 DEF NewFile, BeginLine, GrowLine
  <1>3. ASSUME NEW f \in Folders, NEW kind \in Kinds, EndLine(f, kind) PROVE FileInv'
    <2>1. /\ files' = [files EXCEPT ![f] = Append(files[f], <<written + 1, kind>>)]
          /\ Ordered(files'[f]) /\ Below(files'[f], written + 1)
          /\ messagesOf(files'[f]) \in Seq(Nat \X Kinds)
          /\ Ordered(messagesOf(files'[f])) /\ TakenFrom(messagesOf(files'[f]), files'[f])
      BY <1>3, EndLineFile
    <2>2. written' = written + 1 /\ written \in Nat
      BY <1>3 DEF EndLine, TypeOK, HistoryOK
    <2>3. \A g \in Folders : g # f => files'[g] = files[g]
      BY <2>1 DEF TypeOK, HistoryOK
    <2>4. \A g \in Folders : Below(files[g], written) => Below(files[g], written + 1)
      BY <2>2 DEF Below
    <2> QED
      BY <2>1, <2>2, <2>3, <2>4 DEF FileInv
  <1>4. ASSUME destroySession PROVE FileInv'
    <2>1. \A f \in Folders : files'[f] = << >>
      BY <1>4 DEF destroySession
    <2>2. << >> \in Seq(Nat \X Kinds) /\ DOMAIN << >> = {}
      OBVIOUS
    <2> QED
      BY <2>1, <2>2, MessagesOfNone DEF FileInv, Ordered, Below, TakenFrom
  <1> QED
    BY <1>2, <1>3, <1>4 DEF WriterStep

LEMMA PartStep ==
    ASSUME TypeOK, PartInv, WriterStep
    PROVE  PartInv' /\ HistoryOK'
  <1>1. /\ present \subseteq Folders /\ part \subseteq present /\ overlong \subseteq part
        /\ written \in Nat /\ MaxLines \in Nat
        /\ files \in [Folders -> Seq(Nat \X Kinds)] /\ written \in 0 .. MaxLines
        /\ IsFiniteSet(part) /\ Cardinality(part) \in Nat /\ written + Cardinality(part) <= MaxLines
    BY LimitsAssumption, FS_CardinalityType DEF TypeOK, HistoryOK, PartInv
  <1>2. ASSUME NEW f \in Folders, NewFile(f) PROVE PartInv' /\ HistoryOK'
    BY <1>1, <1>2 DEF NewFile, PartInv, HistoryOK
  <1>3. ASSUME NEW f \in Folders, BeginLine(f) PROVE PartInv' /\ HistoryOK'
    <2>1. /\ f \in present /\ f \notin part /\ written + Cardinality(part) < MaxLines
          /\ part' = part \cup {f} /\ UNCHANGED <<present, files, overlong, written>>
      BY <1>3 DEF BeginLine
    <2>2. IsFiniteSet(part') /\ Cardinality(part') = Cardinality(part) + 1
      BY <1>1, <2>1, FS_AddElement
    <2>3. written' + Cardinality(part') <= MaxLines
      BY <1>1, <2>1, <2>2
    <2> QED
      BY <1>1, <2>1, <2>2, <2>3 DEF PartInv, HistoryOK
  <1>4. ASSUME NEW f \in Folders, NEW kind \in Kinds, EndLine(f, kind) PROVE PartInv' /\ HistoryOK'
    <2>1. /\ f \in part /\ part' = part \ {f} /\ overlong' = overlong \ {f}
          /\ written' = written + 1 /\ UNCHANGED present
          /\ files' = [files EXCEPT ![f] = Append(@, <<written + 1, kind>>)]
      BY <1>4 DEF EndLine
    <2>2. IsFiniteSet(part') /\ Cardinality(part') = Cardinality(part) - 1 /\ Cardinality(part') \in Nat
      BY <1>1, <2>1, FS_RemoveElement, FS_CardinalityType
    <2>3. written' + Cardinality(part') <= MaxLines /\ written' \in 0 .. MaxLines
      BY <1>1, <2>1, <2>2
    <2>4. Append(files[f], <<written + 1, kind>>) \in Seq(Nat \X Kinds)
      BY <1>1
    <2>5. files' \in [Folders -> Seq(Nat \X Kinds)]
      BY <1>1, <2>1, <2>4
    <2> QED
      BY <1>1, <2>1, <2>2, <2>3, <2>5 DEF PartInv, HistoryOK
  <1>5. ASSUME destroySession PROVE PartInv' /\ HistoryOK'
    <2>1. IsFiniteSet({}) /\ Cardinality({}) = 0
      BY FS_EmptySet
    <2>2. /\ present' = {} /\ part' = {} /\ overlong' = {}
          /\ files' = [f \in Folders |-> << >>] /\ UNCHANGED written
      BY <1>5 DEF destroySession
    <2>3. files' \in [Folders -> Seq(Nat \X Kinds)]
      BY <2>2
    <2> QED
      BY <1>1, <2>1, <2>2, <2>3 DEF PartInv, HistoryOK
  <1>6. ASSUME NEW f \in Folders, GrowLine(f) PROVE PartInv' /\ HistoryOK'
    BY <1>1, <1>6 DEF GrowLine, PartInv, HistoryOK
  <1> QED
    BY <1>2, <1>3, <1>4, <1>5, <1>6 DEF WriterStep

----------------------------------------------------------------------------
(* Prefixes *)

LEMMA PrefixOf ==
    ASSUME NEW S, NEW q \in Seq(S), NEW n \in 0 .. Len(q)
    PROVE  /\ SubSeq(q, 1, n) \in Seq(S) /\ Len(SubSeq(q, 1, n)) = n
           /\ \A k \in DOMAIN SubSeq(q, 1, n) : k \in DOMAIN q /\ SubSeq(q, 1, n)[k] = q[k]
  OBVIOUS

LEMMA PrefixGrows ==
    ASSUME NEW S, NEW q \in Seq(S), NEW e \in S, NEW n \in 0 .. Len(q)
    PROVE  n \in 0 .. Len(Append(q, e)) /\ SubSeq(Append(q, e), 1, n) = SubSeq(q, 1, n)
  <1> DEFINE r == Append(q, e)
             a == SubSeq(q, 1, n)
             b == SubSeq(r, 1, n)
  <1>1. r \in Seq(S) /\ Len(r) = Len(q) + 1 /\ \A i \in 1 .. Len(q) : r[i] = q[i]
    OBVIOUS
  <1>2. n \in 0 .. Len(r)
    BY <1>1
  <1>3. a \in Seq(S) /\ Len(a) = n /\ \A k \in 1 .. n : a[k] = q[k]
    BY PrefixOf
  <1> HIDE DEF r
  <1>4. b \in Seq(S) /\ Len(b) = n /\ \A k \in 1 .. n : b[k] = r[k]
    BY <1>1, <1>2, PrefixOf
  <1> HIDE DEF a, b
  <1>5. \A k \in 1 .. n : a[k] = b[k]
    BY <1>1, <1>3, <1>4
  <1>6. a = b
    BY <1>3, <1>4, <1>5
  <1> QED
    BY <1>2, <1>6 DEF a, b, r

(* What a client has been shown is in the file it was read from. *)
LEMMA ShownIsWritten ==
    ASSUME TypeOK, FileInv, NEW c \in Clients, HasPrefix(c)
    PROVE  /\ findSessionFile \in Folders
           /\ \A k \in DOMAIN collected[c] :
                 \E i \in DOMAIN files[findSessionFile] :
                    files[findSessionFile][i] = collected[c][k]
           /\ \A j, k \in DOMAIN collected[c] : j < k => collected[c][j][1] < collected[c][k][1]
  <1> DEFINE m == messagesOf(files[findSessionFile])
  <1>1. findSessionFile \in Folders
    BY FirstFolder DEF TypeOK, HistoryOK, HasPrefix
  <1>2. m \in Seq(Nat \X Kinds) /\ Ordered(m) /\ TakenFrom(m, files[findSessionFile])
    BY <1>1 DEF FileInv
  <1>3. PICK n \in 0 .. Len(m) : collected[c] = SubSeq(m, 1, n)
    BY DEF HasPrefix
  <1> HIDE DEF m
  <1>4. \A k \in DOMAIN collected[c] : k \in DOMAIN m /\ collected[c][k] = m[k]
    BY <1>2, <1>3, PrefixOf
  <1> QED
    BY <1>1, <1>2, <1>4 DEF TakenFrom, Ordered

----------------------------------------------------------------------------
(* The pages *)

LEMMA PagesWriter ==
    ASSUME HistoryInv, WriterStep
    PROVE  PagesInv'
  <1> USE DEF HistoryInv
  <1>1. /\ UNCHANGED <<state, collected, total>>
        /\ torn' = IF findSessionFile' = findSessionFile THEN torn
                   ELSE torn \cup {c \in Clients : collected[c] # << >>}
    BY DEF WriterStep, clientVars
  <1>2. ASSUME NEW c \in Clients, HasPrefix(c), findSessionFile' = findSessionFile
        PROVE  HasPrefix(c)'
    <2> DEFINE f == findSessionFile
               m == messagesOf(files[f])
    <2>0. collected'[c] = collected[c] /\ findSessionFile' = f
      BY <1>1, <1>2
    <2>1. ASSUME files' = files PROVE HasPrefix(c)'
      BY <1>2, <2>0, <2>1 DEF HasPrefix
    <2>2. ASSUME NEW g \in Folders, NewFile(g) \/ BeginLine(g) \/ GrowLine(g)
          PROVE  HasPrefix(c)'
      BY <2>1, <2>2 DEF NewFile, BeginLine, GrowLine
    <2>3. ASSUME NEW g \in Folders, NEW kind \in Kinds, EndLine(g, kind) PROVE HasPrefix(c)'
      <3>1. CASE g # f
        <4>1. files'[f] = files[f]
          BY <2>3, <3>1, <1>2, ShownIsWritten DEF EndLine, TypeOK, HistoryOK
        <4> QED
          BY <1>2, <2>0, <4>1 DEF HasPrefix
      <3>2. CASE g = f
        <4> DEFINE line == <<written + 1, kind>>
                   m_ == messagesOf(files'[f])
        <4>1. /\ files[f] \in Seq(Nat \X Kinds) /\ files'[f] = Append(files[f], line)
              /\ m \in Seq(Nat \X Kinds) /\ m_ \in {m, Append(m, line)}
          BY <2>3, <3>2, EndLineFile
        <4>2. written \in Nat /\ line \in Nat \X Kinds /\ line[1] = written + 1
          BY DEF TypeOK, HistoryOK
        <4>3. PICK n \in 0 .. Len(m) : collected[c] = SubSeq(m, 1, n)
          BY <1>2 DEF HasPrefix
        <4> HIDE DEF m_, m, line
        <4>4. n \in 0 .. Len(m_) /\ collected[c] = SubSeq(m_, 1, n)
          <5>1. /\ n \in 0 .. Len(Append(m, line))
                /\ SubSeq(Append(m, line), 1, n) = SubSeq(m, 1, n)
            BY <4>1, <4>2, <4>3, PrefixGrows
          <5>2. CASE m_ = m
            BY <4>3, <5>2
          <5>3. CASE m_ = Append(m, line)
            BY <4>3, <5>1, <5>3
          <5> QED
            BY <4>1, <5>2, <5>3
        <4>5. \A k \in DOMAIN collected[c] : collected[c][k][1] \in 1 .. written
          <5>1. Below(files[f], written)
            BY <2>3, <3>2 DEF FileInv
          <5> QED
            BY <1>2, <5>1, ShownIsWritten DEF Below
        <4>6. \A i \in DOMAIN files'[f] :
                 \/ i \in DOMAIN files[f] /\ files'[f][i] = files[f][i]
                 \/ files'[f][i][1] = written + 1
          BY <4>1, <4>2, AppendElements
        <4>7. \A k \in DOMAIN collected[c], i \in DOMAIN files'[f] :
                 files'[f][i][1] <= collected[c][k][1] => files'[f][i][2] # "huge"
          <5> SUFFICES ASSUME NEW k \in DOMAIN collected[c], NEW i \in DOMAIN files'[f],
                              files'[f][i][1] <= collected[c][k][1]
                       PROVE  files'[f][i][2] # "huge"
            OBVIOUS
          <5>1. files'[f][i][1] # written + 1
            BY <4>2, <4>5
          <5>2. i \in DOMAIN files[f] /\ files'[f][i] = files[f][i]
            BY <4>6, <5>1
          <5> QED
            BY <1>2, <5>2 DEF HasPrefix
        <4>8. f # 0
          BY <1>2 DEF HasPrefix
        <4>9. \E k \in 0 .. Len(m_) : collected[c] = SubSeq(m_, 1, k)
          BY <4>4
        <4> QED
          BY <2>0, <4>7, <4>8, <4>9 DEF HasPrefix, m_
      <3> QED
        BY <3>1, <3>2
    <2>4. ~destroySession
      BY <1>2 DEF destroySession, findSessionFile, HasPrefix
    <2> QED
      BY <2>2, <2>3, <2>4 DEF WriterStep
  <1>3. ASSUME NEW c \in Clients \ torn'
        PROVE  /\ collected'[c] # << >> => HasPrefix(c)'
               /\ c \in Pagers /\ state'[c] = "complete" => Len(collected'[c]) = total'[c]
    <2>1. c \notin torn /\ (collected[c] # << >> => findSessionFile' = findSessionFile)
      BY <1>1
    <2> QED
      BY <1>1, <1>2, <2>1 DEF PagesInv
  <1> QED
    BY <1>1, <1>3 DEF PagesInv

(* A page starts behind what the client has and ends within the messages.   *)
LEMMA PageBounds ==
    ASSUME HistoryOK, NEW f \in Folders, NEW limit \in Limits, NEW offset \in Nat,
           messagesOf(files[f]) \in Seq(Nat \X Kinds)
    PROVE  LET m == messagesOf(files[f])
               page == ListMessages(f, offset, limit)
           IN  \E start, end \in Nat :
                 /\ start = Least(offset, Len(m)) /\ start <= end /\ end <= Len(m)
                 /\ page.messages = SubSeq(m, start + 1, end)
                 /\ page.total = Len(m) /\ page.hasMore = (end < Len(m))
  <1> DEFINE m == messagesOf(files[f])
             n == Len(m)
             start == Least(offset, n)
             end == Least(start + pageLimit(limit), n)
  <1>1. allMessages(f) = m
    BY HalfLineUnseen
  <1>2. n \in Nat
    OBVIOUS
  <1>3. pageLimit(limit) \in Nat
    BY LimitsAssumption DEF pageLimit
  <1>4. /\ ListMessages(f, offset, limit).messages = SubSeq(m, start + 1, end)
        /\ ListMessages(f, offset, limit).total = n
        /\ ListMessages(f, offset, limit).hasMore = (end < n)
    BY <1>1 DEF ListMessages
  <1> HIDE DEF m, n
  <1>5. start \in Nat /\ start <= n
    BY <1>2 DEF Least
  <1>6. end \in Nat /\ start <= end /\ end <= n
    BY <1>2, <1>3, <1>5 DEF Least
  <1> HIDE DEF start, end
  <1>7. start = Least(offset, n)
    BY DEF start
  <1> QED
    BY <1>4, <1>5, <1>6, <1>7 DEF m, n

LEMMA PagesReader ==
    ASSUME HistoryInv, NEW c \in Clients, SessionMessages(c)
    PROVE  /\ PagesInv'
           /\ collected' \in [Clients -> Seq(Nat \X Kinds)] /\ total' \in [Clients -> Nat]
           /\ state' \in [Clients -> {"asking", "complete", "notFound", "failed"}]
  <1> DEFINE f == findSessionFile
             m == messagesOf(files[f])
             types == /\ collected' \in [Clients -> Seq(Nat \X Kinds)] /\ total' \in [Clients -> Nat]
                      /\ state' \in [Clients -> {"asking", "complete", "notFound", "failed"}]
  <1> USE DEF HistoryInv
  <1>1. c \in Pagers /\ UNCHANGED <<files, present, part, torn>>
    BY DEF SessionMessages, historyVars
  <1>2. /\ collected \in [Clients -> Seq(Nat \X Kinds)] /\ total \in [Clients -> Nat]
        /\ state \in [Clients -> {"asking", "complete", "notFound", "failed"}]
    BY DEF TypeOK
  <1>3. findSessionFile' = findSessionFile
    BY <1>1 DEF findSessionFile
  <1>4. ASSUME NEW d \in Clients, HasPrefix(d), collected'[d] = collected[d] PROVE HasPrefix(d)'
    BY <1>1, <1>3, <1>4 DEF HasPrefix
  <1>5. CASE UNCHANGED <<collected, total>> /\ \E l \in {"notFound", "failed"} : state' = [state EXCEPT ![c] = l]
    <2>1. state'[c] # "complete" /\ \A d \in Clients : d # c => state'[d] = state[d]
      BY <1>2, <1>5
    <2>2. PagesInv'
      BY <1>1, <1>4, <1>5, <2>1 DEF PagesInv
    <2> QED
      BY <1>2, <1>5, <2>2
  <1>6. ASSUME f # 0, ~TooLong(f), NEW limit \in Limits,
               LET page == ListMessages(f, Len(collected[c]), limit)
               IN  /\ collected' = [collected EXCEPT ![c] = @ \o page.messages]
                   /\ total' = [total EXCEPT ![c] = page.total]
                   /\ state' = [state EXCEPT ![c] =
                                  IF page.hasMore THEN "asking" ELSE "complete"]
        PROVE  PagesInv' /\ types
    <2>1. f \in Folders
      BY <1>6, FirstFolder DEF TypeOK, HistoryOK
    <2>2. m \in Seq(Nat \X Kinds) /\ Len(m) \in Nat
      BY <2>1 DEF FileInv
    <2>3. collected[c] \in Seq(Nat \X Kinds) /\ Len(collected[c]) \in Nat
      BY <1>2
    <2> DEFINE page == ListMessages(f, Len(collected[c]), limit)
    <2>4. PICK start, end \in Nat :
             /\ start = Least(Len(collected[c]), Len(m)) /\ start <= end /\ end <= Len(m)
             /\ page.messages = SubSeq(m, start + 1, end)
             /\ page.total = Len(m) /\ page.hasMore = (end < Len(m))
      <3>1. HistoryOK
        BY DEF TypeOK
      <3> HIDE DEF f
      <3> QED
        BY <2>1, <2>2, <2>3, <3>1, PageBounds
    <2>5. /\ collected' = [collected EXCEPT ![c] = @ \o SubSeq(m, start + 1, end)]
          /\ total' = [total EXCEPT ![c] = Len(m)]
          /\ state' = [state EXCEPT ![c] = IF end < Len(m) THEN "asking" ELSE "complete"]
      BY <1>6, <2>4
    <2> HIDE DEF page, m, f
    <2>6. SubSeq(m, start + 1, end) \in Seq(Nat \X Kinds)
      BY <2>2, <2>4, SubSeqProperties
    <2>7. types
      BY <1>2, <2>2, <2>3, <2>5, <2>6
    <2>8. /\ collected'[c] = collected[c] \o SubSeq(m, start + 1, end)
          /\ total'[c] = Len(m) /\ (state'[c] = "complete" => ~(end < Len(m)))
          /\ \A d \in Clients : d # c => /\ collected'[d] = collected[d]
                                        /\ total'[d] = total[d] /\ state'[d] = state[d]
      BY <1>2, <2>5
    <2>9. ASSUME c \notin torn
          PROVE  collected'[c] = SubSeq(m, 1, end) /\ Len(collected'[c]) = end
      <3>1. \E n \in 0 .. Len(m) : collected[c] = SubSeq(m, 1, n)
        <4>1. CASE collected[c] = << >>
          <5>1. SubSeq(m, 1, 0) = << >> /\ 0 \in 0 .. Len(m)
            BY <2>2
          <5> QED
            BY <4>1, <5>1
        <4>2. CASE collected[c] # << >>
          <5>1. HasPrefix(c)
            BY <2>9, <4>2 DEF PagesInv
          <5> QED
            BY <5>1 DEF HasPrefix, m, f
        <4> QED
          BY <4>1, <4>2
      <3>2. PICK n \in 0 .. Len(m) : collected[c] = SubSeq(m, 1, n)
        BY <3>1
      <3>3. Len(collected[c]) = n
        BY <2>2, <3>2, PrefixOf
      <3>4. start = n
        BY <2>2, <2>4, <3>3 DEF Least
      <3>5. SubSeq(m, 1, n) \o SubSeq(m, n + 1, end) = SubSeq(m, 1, end)
        <4>1. 1 \in 1 .. Len(m) + 1 /\ n \in 1 - 1 .. Len(m) /\ end \in n .. Len(m)
          BY <2>2, <2>4, <3>4
        <4> QED
          BY <2>2, <4>1, ConcatAdjacentSubSeq
      <3>6. collected'[c] = SubSeq(m, 1, end)
        BY <2>8, <3>2, <3>4, <3>5
      <3>7. end \in 0 .. Len(m)
        BY <2>2, <2>4
      <3> QED
        BY <2>2, <3>6, <3>7, PrefixOf
    <2>10. ASSUME c \notin torn PROVE HasPrefix(c)'
      <3>1. \E n \in 0 .. Len(m) : collected'[c] = SubSeq(m, 1, n)
        <4>1. end \in 0 .. Len(m)
          BY <2>2, <2>4
        <4> QED
          BY <2>9, <2>10, <4>1
      <3>2. \A i \in DOMAIN files[f] : files[f][i][2] # "huge"
        <4>1. files[f] \in Seq(Nat \X Kinds)
          BY <2>1 DEF TypeOK, HistoryOK
        <4>2. \A i \in DOMAIN files[f] : i \in DOMAIN Scan(f) /\ Scan(f)[i] = files[f][i]
          <5>1. Scan(f) = files[f] \/ Scan(f) = Append(files[f], <<0, "partial">>)
            BY <2>1, HalfLineUnseen DEF TypeOK
          <5> DEFINE r == Append(files[f], <<0, "partial">>)
          <5>2. \A i \in DOMAIN files[f] : i \in DOMAIN r /\ r[i] = files[f][i]
            BY <4>1, AppendElements
          <5> HIDE DEF r
          <5>3. Scan(f) = files[f] \/ Scan(f) = r
            BY <5>1 DEF r
          <5> QED
            BY <5>2, <5>3
        <4> QED
          BY <1>6, <4>2 DEF TooLong, Fails
      <3> QED
        BY <1>1, <1>3, <1>6, <3>1, <3>2 DEF HasPrefix, m, f
    <2>11. ASSUME c \notin torn, state'[c] = "complete" PROVE Len(collected'[c]) = total'[c]
      BY <2>2, <2>4, <2>8, <2>9, <2>11
    <2>12. PagesInv'
      <3>1. \A d \in Clients \ Pagers : collected'[d] = << >>
        BY <1>1, <2>8 DEF PagesInv
      <3>2. ASSUME NEW d \in Clients \ torn
            PROVE  /\ collected'[d] # << >> => HasPrefix(d)'
                   /\ d \in Pagers /\ state'[d] = "complete" => Len(collected'[d]) = total'[d]
        <4>1. CASE d = c
          BY <2>10, <2>11, <4>1
        <4>2. CASE d # c
          BY <1>4, <2>8, <4>2 DEF PagesInv
        <4> QED
          BY <4>1, <4>2
      <3> QED
        BY <1>1, <3>1, <3>2 DEF PagesInv
    <2> QED
      BY <2>7, <2>12
  <1> QED
    BY <1>5, <1>6 DEF SessionMessages

----------------------------------------------------------------------------
(* The titles, the usage and the single messages *)

(* What the readers find in a file: its lines, and no more than that.       *)
LEMMA ScanLines ==
    ASSUME HistoryOK, NEW f \in Folders
    PROVE  /\ Len(Scan(f)) \in Nat /\ DOMAIN Scan(f) = 1 .. Len(Scan(f))
           /\ \A i \in DOMAIN files[f] : i \in DOMAIN Scan(f) /\ Scan(f)[i] = files[f][i]
           /\ \A i \in DOMAIN Scan(f) :
                 \/ i \in DOMAIN files[f] /\ Scan(f)[i] = files[f][i]
                 \/ i \notin DOMAIN files[f] /\ Scan(f)[i] = <<0, "partial">>
           /\ files[f] \in Seq(Nat \X Kinds) /\ DOMAIN files[f] = 1 .. Len(files[f])
  <1> DEFINE q == files[f]
             e == <<0, "partial">>
             r == Append(q, e)
  <1>1. q \in Seq(Nat \X Kinds)
    BY DEF HistoryOK
  <1>2. Scan(f) = q \/ Scan(f) = r
    BY HalfLineUnseen
  <1>3. Len(q) \in Nat /\ DOMAIN q = 1 .. Len(q)
    BY <1>1
  <1> HIDE DEF e
  <1>4. Len(r) = Len(q) + 1 /\ DOMAIN r = 1 .. Len(q) + 1
    BY <1>1
  <1>5. /\ \A i \in DOMAIN q : i \in DOMAIN r /\ r[i] = q[i]
        /\ Len(q) + 1 \in DOMAIN r /\ r[Len(q) + 1] = e
        /\ \A i \in DOMAIN r : i \in DOMAIN q \/ i = Len(q) + 1
    BY <1>1, AppendElements
  <1> HIDE DEF q, r
  <1>6. Len(q) + 1 \notin DOMAIN q
    BY <1>3
  <1>7. CASE Scan(f) = q
    BY <1>1, <1>3, <1>7 DEF q
  <1>8. CASE Scan(f) = r
    <2>1. \A i \in DOMAIN r : i \in DOMAIN q \/ (i \notin DOMAIN q /\ r[i] = e)
      BY <1>5, <1>6
    <2>2. Len(r) \in Nat /\ DOMAIN r = 1 .. Len(r)
      BY <1>3, <1>4
    <2>3. Len(Scan(f)) \in Nat /\ DOMAIN Scan(f) = 1 .. Len(Scan(f))
      BY <1>8, <2>2
    <2>4. \A i \in DOMAIN q : i \in DOMAIN Scan(f) /\ Scan(f)[i] = q[i]
      BY <1>5, <1>8
    <2>5. ASSUME NEW i \in DOMAIN Scan(f)
          PROVE  \/ i \in DOMAIN q /\ Scan(f)[i] = q[i]
                 \/ i \notin DOMAIN q /\ Scan(f)[i] = e
      BY <1>5, <1>8, <2>1
    <2> QED
      BY <1>1, <1>3, <2>3, <2>4, <2>5 DEF q, e
  <1> QED
    BY <1>2, <1>7, <1>8

LEMMA CountedFinite ==
    ASSUME HistoryOK, NEW f \in Folders
    PROVE  IsFiniteSet(Counted(f)) /\ Cardinality(Counted(f)) \in Nat
  <1>1. Counted(f) \in SUBSET (1 .. Len(Scan(f)))
    BY ScanLines DEF Counted
  <1>2. IsFiniteSet(1 .. Len(Scan(f)))
    BY ScanLines, FS_Interval
  <1> QED
    BY <1>1, <1>2, FS_Subset, FS_CardinalityType

(* GetTitle answers with the last title of the file. *)
LEMMA LastTitle ==
    ASSUME TypeOK, FileInv, NEW f \in Folders, Titles(f) # {}
    PROVE  LET last == CHOOSE t \in Titles(f) : \A u \in Titles(f) : u <= t
           IN  last \in Nat /\ \A u \in Titles(f) : u <= last
  <1>1. HistoryOK /\ written \in Nat
    BY DEF TypeOK, HistoryOK
  <1>2. Below(files[f], written)
    BY DEF FileInv
  <1>3. \A i \in DOMAIN Scan(f) : Scan(f)[i][2] = "custom-title" => Scan(f)[i][1] \in 1 .. written
    BY <1>1, <1>2, ScanLines DEF Below
  <1>4. \A t \in Titles(f) : t \in 1 .. written
    BY <1>3 DEF Titles
  <1>5. Titles(f) \in SUBSET Nat /\ \A t \in Titles(f) : t <= written
    BY <1>1, <1>4
  <1>6. \E t \in Titles(f) : \A u \in Titles(f) : u <= t
    BY <1>1, <1>5, GreatestElement
  <1> QED
    BY <1>5, <1>6

LEMMA AnswerTypes ==
    ASSUME TypeOK, FileInv
    PROVE  GetTitle(findSessionFile) \in Nat /\ AggregateUsage(findSessionFile) \in Nat \cup {NoUsage}
  <1>1. findSessionFile = 0 \/ findSessionFile \in Folders
    BY FirstFolder DEF TypeOK, HistoryOK
  <1>2. ASSUME findSessionFile \in Folders, Titles(findSessionFile) # {}
        PROVE  (CHOOSE t \in Titles(findSessionFile) :
                   \A u \in Titles(findSessionFile) : u <= t) \in Nat
    BY <1>2, LastTitle
  <1>3. GetTitle(findSessionFile) \in Nat
    BY <1>1, <1>2 DEF GetTitle
  <1>4. AggregateUsage(findSessionFile) \in Nat \cup {NoUsage}
    BY <1>1, CountedFinite DEF AggregateUsage, TypeOK
  <1> QED
    BY <1>3, <1>4

LEMMA HistoryStep ==
    ASSUME LimitInv, HistoryInv, [Next]_vars
    PROVE  HistoryInv'
  <1> USE DEF HistoryInv
  <1>l. LimitOK'
    BY LimitStep DEF LimitInv
  <1>t. /\ HistoryOK
        /\ cpc \in [Clients -> {"idle", "limited", "admitted"}]
        /\ state \in [Clients -> {"asking", "complete", "notFound", "failed"}]
        /\ collected \in [Clients -> Seq(Nat \X Kinds)] /\ total \in [Clients -> Nat]
        /\ overview \in [Clients -> [title : Nat, usage : Nat \cup {NoUsage}]]
        /\ fetched \in [Clients -> {"no", "found", "notFound", "error"}]
        /\ torn \subseteq Clients
    BY DEF TypeOK
  <1>h. ASSUME UNCHANGED historyVars PROVE HistoryOK' /\ FileInv' /\ PartInv' /\ findSessionFile' = findSessionFile
    BY <1>h, <1>t DEF historyVars, HistoryOK, FileInv, PartInv, findSessionFile
  <1>p. ASSUME UNCHANGED <<historyVars, collected, total, torn>>,
               \A c \in Pagers : state'[c] = state[c]
        PROVE  PagesInv'
    <2>1. \A c \in Clients : HasPrefix(c)' = HasPrefix(c)
      BY <1>h, <1>p DEF HasPrefix, historyVars
    <2> QED
      BY <1>p, <2>1 DEF PagesInv
  <1>1. CASE WriterStep
    <2>1. TypeOK'
      BY <1>1, <1>l, <1>t, PartStep DEF WriterStep, clientVars, TypeOK
    <2> QED
      BY <1>1, <2>1, FileStep, PartStep, PagesWriter
  <1>2. CASE LimiterStep \/ UNCHANGED vars
    <2>1. UNCHANGED <<historyVars, clientVars, torn>>
      BY <1>2 DEF LimiterStep, vars
    <2>2. TypeOK'
      BY <2>1, <1>l, <1>t, <1>h DEF TypeOK, clientVars
    <2> QED
      BY <2>1, <2>2, <1>h, <1>p DEF clientVars
  <1>3. ASSUME NEW c \in Clients, Ask(c) \/ Pass(c) \/ Refuse(c) PROVE HistoryInv'
    <2>1. /\ UNCHANGED <<historyVars, state, collected, total, overview, fetched, torn>>
          /\ \E label \in {"idle", "limited", "admitted"} : cpc' = [cpc EXCEPT ![c] = label]
      BY <1>3 DEF Ask, Pass, Refuse, CpcGoto
    <2>2. TypeOK'
      BY <2>1, <1>l, <1>t, <1>h DEF TypeOK
    <2> QED
      BY <2>1, <2>2, <1>h, <1>p
  <1>4. ASSUME NEW c \in Clients, SessionMessages(c) PROVE HistoryInv'
    <2>1. UNCHANGED <<historyVars, overview, fetched, torn>> /\ cpc' = [cpc EXCEPT ![c] = "idle"]
      BY <1>4 DEF SessionMessages, CpcGoto
    <2>2. /\ PagesInv'
          /\ collected' \in [Clients -> Seq(Nat \X Kinds)] /\ total' \in [Clients -> Nat]
          /\ state' \in [Clients -> {"asking", "complete", "notFound", "failed"}]
      BY <1>4, PagesReader
    <2>3. TypeOK'
      BY <2>1, <2>2, <1>l, <1>t, <1>h DEF TypeOK
    <2> QED
      BY <2>1, <2>2, <2>3, <1>h
  <1>5. ASSUME NEW c \in Clients, Summarise(c) PROVE HistoryInv'
    <2>1. /\ UNCHANGED <<historyVars, collected, total, fetched, torn>> /\ c \notin Pagers
          /\ cpc' = [cpc EXCEPT ![c] = "idle"] /\ state' = [state EXCEPT ![c] = "complete"]
          /\ \/ overview' = [overview EXCEPT ![c].title = GetTitle(findSessionFile)]
             \/ overview' = [overview EXCEPT ![c].usage = AggregateUsage(findSessionFile)]
      BY <1>5 DEF Summarise, CpcGoto
    <2>2. overview' \in [Clients -> [title : Nat, usage : Nat \cup {NoUsage}]]
      <3>1. overview \in [Clients -> [title : Nat, usage : Nat \cup {NoUsage}]]
        BY <1>t
      <3>2. GetTitle(findSessionFile) \in Nat /\ AggregateUsage(findSessionFile) \in Nat \cup {NoUsage}
        BY AnswerTypes
      <3>3. CASE overview' = [overview EXCEPT ![c].title = GetTitle(findSessionFile)]
        BY ONLY <3>1, <3>2, <3>3
      <3>4. CASE overview' = [overview EXCEPT ![c].usage = AggregateUsage(findSessionFile)]
        BY ONLY <3>1, <3>2, <3>4
      <3> QED
        BY <2>1, <3>3, <3>4
    <2>3. TypeOK'
      BY <2>1, <2>2, <1>l, <1>t, <1>h DEF TypeOK
    <2>4. \A d \in Pagers : state'[d] = state[d]
      BY <2>1, <1>t, PagersAssumption
    <2> QED
      BY <2>1, <2>3, <2>4, <1>h, <1>p
  <1>6. ASSUME NEW c \in Clients, SessionMessage(c) PROVE HistoryInv'
    <2>1. /\ UNCHANGED <<historyVars, state, collected, total, overview, torn>>
          /\ cpc' = [cpc EXCEPT ![c] = "idle"]
          /\ \E answer \in {"found", "notFound", "error"} : fetched' = [fetched EXCEPT ![c] = answer]
      BY <1>6 DEF SessionMessage, CpcGoto, GetMessage
    <2>2. TypeOK'
      BY <2>1, <1>l, <1>t, <1>h DEF TypeOK
    <2> QED
      BY <2>1, <2>2, <1>h, <1>p
  <1> QED
    BY <1>1, <1>2, <1>3, <1>4, <1>5, <1>6 DEF Next, ClientStep

----------------------------------------------------------------------------
(* The theorems about the history *)

LEMMA HistoryStart == Init => HistoryInv
  <1> SUFFICES ASSUME Init PROVE HistoryInv
    OBVIOUS
  <1> USE DEF Init, HistoryInit
  <1>1. LimitOK
    BY LimitStart DEF LimitInv
  <1>2. HistoryOK
    BY LimitsAssumption DEF HistoryOK
  <1>3. TypeOK
    <2>1. NoOverview \in [title : Nat, usage : Nat \cup {NoUsage}]
      BY DEF NoOverview
    <2>2. collected \in [Clients -> Seq(Nat \X Kinds)] /\ total \in [Clients -> Nat]
      OBVIOUS
    <2>3. overview \in [Clients -> [title : Nat, usage : Nat \cup {NoUsage}]]
      BY <2>1
    <2> QED
      BY <1>1, <1>2, <2>2, <2>3 DEF TypeOK
  <1>4. FileInv
    <2>1. << >> \in Seq(Nat \X Kinds) /\ DOMAIN << >> = {}
      OBVIOUS
    <2>2. Ordered(<< >>) /\ Below(<< >>, written) /\ TakenFrom(<< >>, << >>)
      BY <2>1 DEF Ordered, Below, TakenFrom
    <2>3. \A f \in Folders : files[f] = << >>
      OBVIOUS
    <2> QED
      BY <2>1, <2>2, <2>3, MessagesOfNone DEF FileInv
  <1>5. PartInv
    BY LimitsAssumption, FS_EmptySet DEF PartInv
  <1>6. PagesInv
    BY DEF PagesInv
  <1> QED
    BY <1>3, <1>4, <1>5, <1>6 DEF HistoryInv

(* The lines of a file are in the order of their serial numbers, and so are *)
(* the messages the loop takes from it; every client whose file is still    *)
(* the first match has a prefix of them, with no line before its last       *)
(* message too long to read.  reader.go:81-157                              *)
THEOREM HistoryInvariance == Spec => []HistoryInv
  <1>1. LimitInv /\ HistoryInv /\ [Next]_vars => HistoryInv'
    BY HistoryStep
  <1> QED
    BY <1>1, HistoryStart, LimitInvariance, PTL DEF Spec

(* The variables keep their types: the pages, the titles and the usage are  *)
(* made of what is in the files.  reader.go:81-306, session_history.go      *)
THEOREM Typing == Spec => []TypeOK
  <1>1. HistoryInv => TypeOK
    BY DEF HistoryInv
  <1> QED
    BY <1>1, HistoryInvariance, PTL

(* Pages of any sizes, asked for while the file grows, put together are the *)
(* beginning of the conversation, and who was told there is no more has as  *)
(* many messages as it was told there are.  reader.go:81-157                *)
THEOREM PagesWhole == Spec => []PagesAreWhole
  <1>1. HistoryInv => PagesAreWhole
    <2> SUFFICES ASSUME HistoryInv, NEW c \in Pagers \ torn
                 PROVE  /\ collected[c] # << >> =>
                              \E n \in 0 .. Len(allMessages(findSessionFile)) :
                                 collected[c] = SubSeq(allMessages(findSessionFile), 1, n)
                        /\ state[c] = "complete" => Len(collected[c]) = total[c]
      BY DEF PagesAreWhole
    <2>1. c \in Clients \ torn
      BY PagersAssumption
    <2>2. ASSUME collected[c] # << >>
          PROVE  \E n \in 0 .. Len(allMessages(findSessionFile)) :
                    collected[c] = SubSeq(allMessages(findSessionFile), 1, n)
      <3>1. HasPrefix(c)
        BY <2>1, <2>2 DEF HistoryInv, PagesInv
      <3>2. findSessionFile \in Folders
        BY <2>1, <3>1, ShownIsWritten DEF HistoryInv
      <3>3. allMessages(findSessionFile) = messagesOf(files[findSessionFile])
        BY <3>2, HalfLineUnseen DEF HistoryInv, TypeOK
      <3> QED
        BY <3>1, <3>3 DEF HasPrefix
    <2> QED
      BY <2>1, <2>2 DEF HistoryInv, PagesInv
  <1> QED
    BY <1>1, HistoryInvariance, PTL

(* The search for a message that was shown ends before a line that is too long. *)
LEMMA ShownIsFound ==
    ASSUME HistoryInv, NEW c \in Clients \ torn, NEW uuid \in Fetchable(c)
    PROVE  findSessionFile # 0 /\ GetMessage(findSessionFile, uuid) = "found"
  <1> DEFINE f == findSessionFile
  <1>1. PICK k \in DOMAIN collected[c] :
            collected[c][k] \in Nat \X {"assistant"} /\ uuid = collected[c][k][1]
    BY DEF Fetchable
  <1>2. HasPrefix(c)
    BY <1>1 DEF HistoryInv, PagesInv
  <1>3. f \in Folders /\ f # 0 /\ HistoryOK
    BY <1>2, ShownIsWritten DEF HistoryInv, HasPrefix, TypeOK
  <1>4. PICK i \in DOMAIN files[f] : files[f][i] = collected[c][k]
    BY <1>1, <1>2, ShownIsWritten DEF HistoryInv
  <1>5. /\ i \in DOMAIN Scan(f) /\ i \in Nat
        /\ Scan(f)[i][1] = uuid /\ Scan(f)[i][2] = "assistant"
    BY <1>1, <1>3, <1>4, ScanLines
  <1>6. ASSUME NEW j \in ReadUpTo(f, uuid) PROVE Scan(f)[j][2] # "huge"
    <2>1. j \in DOMAIN Scan(f) /\ DOMAIN Scan(f) = 1 .. Len(Scan(f)) /\ Len(Scan(f)) \in Nat
      BY <1>3, <1>6, ScanLines DEF ReadUpTo
    <2>2. j <= i
      <3>1. ASSUME i < j PROVE FALSE
        <4>1. i \in 1 .. j - 1
          BY <1>5, <2>1, <3>1
        <4> QED
          BY <1>5, <1>6, <4>1 DEF ReadUpTo
      <3> QED
        BY <1>5, <2>1, <3>1
    <2>3. CASE j \in DOMAIN files[f]
      <3>1. Scan(f)[j] = files[f][j]
        BY <1>3, <2>3, ScanLines
      <3>2. files[f] \in Seq(Nat \X Kinds) /\ DOMAIN files[f] = 1 .. Len(files[f])
        BY <1>3, ScanLines
      <3>3. files[f][j] \in Nat \X Kinds /\ files[f][i] \in Nat \X Kinds
        BY <2>3, <3>2
      <3>4. files[f][j][1] \in Nat /\ files[f][i][1] \in Nat
        BY <3>3
      <3>5. Ordered(files[f])
        BY <1>3 DEF HistoryInv, FileInv
      <3>6. files[f][j][1] <= files[f][i][1]
        BY <1>5, <2>1, <2>2, <2>3, <3>4, <3>5 DEF Ordered
      <3>7. files[f][j][2] # "huge"
        BY <1>1, <1>2, <1>4, <2>3, <3>6 DEF HasPrefix
      <3> QED
        BY <3>1, <3>7
    <2>4. CASE j \notin DOMAIN files[f]
      BY <1>3, <2>1, <2>4, ScanLines
    <2> QED
      BY <2>3, <2>4
  <1>7. HasUUID(Scan(f)[i])
    BY <1>5 DEF HasUUID, parseMessage
  <1>8. f \in overlong => Len(Scan(f)) \notin ReadUpTo(f, uuid)
    <2> SUFFICES ASSUME f \in overlong PROVE Len(Scan(f)) \notin ReadUpTo(f, uuid)
      OBVIOUS
    <2>1. f \in part
      BY <1>3 DEF HistoryOK
    <2>2. files[f] \in Seq(Nat \X Kinds)
      BY <1>3, ScanLines
    <2> HIDE DEF f
    <2>3. Scan(f) = files[f] \o <<<<0, "partial">>>>
      BY <2>1 DEF Scan
    <2>4. Len(Scan(f)) = Len(files[f]) + 1 /\ Len(files[f]) \in Nat
      BY <2>2, <2>3
    <2>5. i \in 1 .. Len(Scan(f)) - 1
      BY <1>4, <2>2, <2>4 DEF f
    <2> QED
      BY <1>5, <2>5 DEF ReadUpTo
  <1> HIDE DEF f
  <1>9. GetMessage(f, uuid) = "found"
    BY <1>5, <1>6, <1>7, <1>8 DEF GetMessage, Fails
  <1> QED
    BY <1>3, <1>9 DEF f

(* A message that a list has shown is found by its uuid while its file is   *)
(* the first match: GetMessage stops before a line that came later and is   *)
(* too long.  reader.go:160-197                                             *)
THEOREM ListedFetchable == Spec => ListedIsFetchable
  <1>1. ASSUME HistoryInv, [Next]_vars, NEW c \in Clients \ torn
        PROVE  fetched'[c] \in {"no", "found"} \/ fetched'[c] = fetched[c]
    <2>1. ASSUME NEW d \in Clients, ClientStep(d)
          PROVE  fetched'[c] \in {"no", "found"} \/ fetched'[c] = fetched[c]
      <3>1. CASE SessionMessage(d)
        <4>1. fetched \in [Clients -> {"no", "found", "notFound", "error"}]
          BY <1>1 DEF HistoryInv, TypeOK
        <4>2. CASE d # c
          BY <3>1, <4>1, <4>2 DEF SessionMessage
        <4>3. CASE d = c
          <5>1. PICK uuid \in Fetchable(c) :
                   fetched' = [fetched EXCEPT ![c] =
                      IF findSessionFile = 0 THEN "notFound" ELSE GetMessage(findSessionFile, uuid)]
            BY <3>1, <4>3 DEF SessionMessage
          <5>2. findSessionFile # 0 /\ GetMessage(findSessionFile, uuid) = "found"
            BY <1>1, ShownIsFound
          <5> QED
            BY <4>1, <5>1, <5>2
        <4> QED
          BY <4>2, <4>3
      <3>2. CASE ~SessionMessage(d)
        BY <2>1, <3>2 DEF ClientStep, Ask, Pass, Refuse, SessionMessages, Summarise
      <3> QED
        BY <3>1, <3>2
    <2> QED
      BY <1>1, <2>1 DEF Next, WriterStep, LimiterStep, clientVars, vars
  <1>2. HistoryInv /\ [Next]_vars =>
          [\A c \in Clients \ torn : fetched'[c] \in {"no", "found"} \/ fetched'[c] = fetched[c]]_vars
    BY <1>1
  <1> QED
    BY <1>2, HistoryInvariance, PTL DEF Spec, ListedIsFetchable

(* The lines of one kind that a client has been shown are lines of the file. *)
LEMMA ShownCounted ==
    ASSUME HistoryInv, NEW d \in Clients \ torn, findSessionFile # 0
    PROVE  Cardinality({i \in DOMAIN collected[d] : collected[d][i][2] = "assistant"})
             <= Cardinality(Counted(findSessionFile))
  <1> DEFINE f == findSessionFile
             shown == {i \in DOMAIN collected[d] : collected[d][i][2] = "assistant"}
             place == [k \in shown |-> CHOOSE i \in DOMAIN files[f] : files[f][i] = collected[d][k]]
  <1>1. TypeOK /\ FileInv /\ HistoryOK
    BY DEF HistoryInv, TypeOK
  <1>2. f \in Folders
    BY <1>1, FirstFolder DEF HistoryOK
  <1>3. IsFiniteSet(Counted(f)) /\ Cardinality(Counted(f)) \in Nat
    BY <1>1, <1>2, CountedFinite
  <1>4. CASE collected[d] = << >>
    <2>1. shown = {}
      BY <1>4
    <2>2. Cardinality(shown) = 0
      BY <2>1, FS_EmptySet
    <2> QED
      BY <1>3, <2>2
  <1>5. CASE collected[d] # << >>
    <2>1. HasPrefix(d)
      BY <1>5 DEF HistoryInv, PagesInv
    <2>2. \A k \in shown : \E i \in DOMAIN files[f] : files[f][i] = collected[d][k]
      BY <1>1, <2>1, ShownIsWritten
    <2>3. \A j, k \in DOMAIN collected[d] : j < k => collected[d][j][1] < collected[d][k][1]
      BY <1>1, <2>1, ShownIsWritten
    <2>4. \A k \in shown : place[k] \in DOMAIN files[f] /\ files[f][place[k]] = collected[d][k]
      BY <2>2
    <2>5. \A k \in shown : place[k] \in Counted(f)
      <3> SUFFICES ASSUME NEW k \in shown PROVE place[k] \in Counted(f)
        OBVIOUS
      <3>1. place[k] \in DOMAIN Scan(f) /\ Scan(f)[place[k]] = collected[d][k]
        BY <1>1, <1>2, <2>4, ScanLines
      <3>2. collected[d][k][2] = "assistant"
        OBVIOUS
      <3> HIDE DEF place, f
      <3> QED
        BY <3>1, <3>2 DEF Counted, HasUUID, parseMessage
    <2>6. ASSUME NEW j \in shown, NEW k \in shown, place[j] = place[k] PROVE j = k
      <3>1. collected[d][j] = collected[d][k]
        BY <2>4, <2>6
      <3>2. collected[d] \in Seq(Nat \X Kinds)
        BY <1>1 DEF TypeOK
      <3>3. j \in Nat /\ k \in Nat /\ collected[d][j] \in Nat \X Kinds /\ collected[d][k] \in Nat \X Kinds
        BY <3>2
      <3>4. collected[d][j][1] \in Nat /\ collected[d][k][1] \in Nat
        BY <3>3
      <3>5. ~(j < k) /\ ~(k < j)
        BY <2>3, <3>1, <3>4
      <3> QED
        BY <3>3, <3>5
    <2>7. place \in [shown -> Counted(f)]
      BY <2>5
    <2>8. \A j, k \in DOMAIN place : place[j] = place[k] => j = k
      BY <2>6
    <2> HIDE DEF place, shown
    <2>9. place \in Injection(shown, Counted(f))
      BY <2>7, <2>8 DEF Injection, IsInjective
    <2> QED
      BY <1>3, <2>9, FS_Injection DEF shown, f
  <1> QED
    BY <1>4, <1>5

LEMMA ShownTitled ==
    ASSUME HistoryInv, NEW d \in Clients \ torn, findSessionFile # 0,
           Titles(findSessionFile) # {}, NEW i \in DOMAIN collected[d],
           collected[d][i][2] = "custom-title"
    PROVE  collected[d][i][1] <= CHOOSE t \in Titles(findSessionFile) :
                                    \A u \in Titles(findSessionFile) : u <= t
  <1> DEFINE f == findSessionFile
  <1>1. TypeOK /\ FileInv /\ HistoryOK
    BY DEF HistoryInv, TypeOK
  <1>2. HasPrefix(d)
    BY DEF HistoryInv, PagesInv
  <1>3. f \in Folders
    BY <1>1, FirstFolder DEF HistoryOK
  <1>4. PICK k \in DOMAIN files[f] : files[f][k] = collected[d][i]
    BY <1>1, <1>2, ShownIsWritten
  <1>5. k \in DOMAIN Scan(f) /\ Scan(f)[k] = collected[d][i]
    BY <1>1, <1>3, <1>4, ScanLines
  <1> HIDE DEF f
  <1>6. collected[d][i][1] \in Titles(f)
    BY <1>5 DEF Titles
  <1> QED
    BY <1>1, <1>3, <1>6, LastTitle DEF f

(* A usage counts every message any client has been shown before, and a     *)
(* title is at least as recent as any that was shown.  reader.go:204-306    *)
THEOREM OverviewCovers == Spec => OverviewCoversPages
  <1> DEFINE shown(d, kind) == {i \in DOMAIN collected[d] : collected[d][i][2] = kind}
             Covers(c, d) ==
               /\ overview'[c].usage \notin {overview[c].usage, NoUsage} =>
                    Cardinality(shown(d, "assistant")) <= overview'[c].usage
               /\ overview'[c].title \notin {overview[c].title, 0} =>
                    \A i \in shown(d, "custom-title") : collected[d][i][1] <= overview'[c].title
  <1>1. ASSUME HistoryInv, [Next]_vars, NEW c \in Clients, NEW d \in Pagers \ torn
        PROVE  Covers(c, d)
    <2>t. overview \in [Clients -> [title : Nat, usage : Nat \cup {NoUsage}]]
      BY <1>1 DEF HistoryInv, TypeOK
    <2>d. d \in Clients \ torn
      BY PagersAssumption
    <2>1. ASSUME NEW b \in Clients, Summarise(b) PROVE Covers(c, d)
      <3>1. CASE b # c
        <4>1. overview'[c] = overview[c]
          BY <2>1, <2>t, <3>1 DEF Summarise
        <4> QED
          BY <4>1
      <3>2. CASE b = c /\ overview' = [overview EXCEPT ![c].title = GetTitle(findSessionFile)]
        <4>1. overview'[c].title = GetTitle(findSessionFile) /\ overview'[c].usage = overview[c].usage
          BY <2>t, <3>2
        <4>2. ASSUME overview'[c].title \notin {overview[c].title, 0},
                     NEW i \in shown(d, "custom-title")
              PROVE  collected[d][i][1] <= overview'[c].title
          <5>1. /\ findSessionFile # 0 /\ Titles(findSessionFile) # {}
                /\ GetTitle(findSessionFile) =
                     CHOOSE t \in Titles(findSessionFile) : \A u \in Titles(findSessionFile) : u <= t
            BY <4>1, <4>2 DEF GetTitle
          <5> QED
            BY <1>1, <2>d, <4>1, <4>2, <5>1, ShownTitled
        <4> QED
          BY <4>1, <4>2
      <3>3. CASE b = c /\ overview' = [overview EXCEPT ![c].usage = AggregateUsage(findSessionFile)]
        <4>1. overview'[c].usage = AggregateUsage(findSessionFile) /\ overview'[c].title = overview[c].title
          BY <2>t, <3>3
        <4>2. ASSUME overview'[c].usage \notin {overview[c].usage, NoUsage}
              PROVE  Cardinality(shown(d, "assistant")) <= overview'[c].usage
          <5>1. /\ findSessionFile # 0
                /\ AggregateUsage(findSessionFile) = Cardinality(Counted(findSessionFile))
            BY <4>1, <4>2 DEF AggregateUsage
          <5> QED
            BY <1>1, <2>d, <4>1, <5>1, ShownCounted
        <4> QED
          BY <4>1, <4>2
      <3> QED
        BY <2>1, <3>1, <3>2, <3>3 DEF Summarise
    <2>2. ASSUME UNCHANGED overview PROVE Covers(c, d)
      BY <2>2
    <2>3. UNCHANGED overview \/ \E b \in Clients : Summarise(b)
      BY <1>1 DEF Next, WriterStep, LimiterStep, clientVars, vars,
         ClientStep, Ask, Pass, Refuse, SessionMessages, SessionMessage
    <2> QED
      BY <2>1, <2>2, <2>3
  <1>2. HistoryInv /\ [Next]_vars => [\A c \in Clients, d \in Pagers \ torn : Covers(c, d)]_vars
    BY <1>1
  <1> QED
    BY <1>2, HistoryInvariance, PTL DEF Spec, OverviewCoversPages
=============================================================================
