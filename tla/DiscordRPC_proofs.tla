-------------------------- MODULE DiscordRPC_proofs --------------------------
(***************************************************************************)
(* What holds of Discord Rich Presence for any number of clients, songs,   *)
(* tokens and any lengths of the waits.                                    *)
(***************************************************************************)
EXTENDS DiscordRPC, FiniteSetTheorems, TLAPS

----------------------------------------------------------------------------
(* What the helpers return.                                                *)

(* Only the newest of the writes are kept, a unit older (_has_token).      *)
LEMMA OlderIsPrefix ==
  ASSUME NEW ages \in Seq(Nat)
  PROVE  /\ Older(ages) \in Seq(Nat)
         /\ Len(Older(ages)) = Cardinality({k \in DOMAIN ages : ages[k] + 1 < Window})
         /\ Len(Older(ages)) <= Len(ages)
         /\ \A i \in 1 .. Len(Older(ages)) : Older(ages)[i] = ages[i] + 1
<1> DEFINE young == {k \in DOMAIN ages : ages[k] + 1 < Window}
           n == Cardinality(young)
<1>1. DOMAIN ages = 1 .. Len(ages) /\ Len(ages) \in Nat
  OBVIOUS
<1>2. IsFiniteSet(DOMAIN ages) /\ Cardinality(DOMAIN ages) = Len(ages)
  <2>1. IsFiniteSet(1 .. Len(ages)) /\ Cardinality(1 .. Len(ages)) = Len(ages)
    <3>1. /\ IsFiniteSet(1 .. Len(ages))
          /\ Cardinality(1 .. Len(ages)) = IF 1 > Len(ages) THEN 0 ELSE Len(ages) - 1 + 1
      BY <1>1, FS_Interval
    <3> QED  BY <1>1, <3>1
  <2> QED  BY <1>1, <2>1
<1>3. n \in Nat /\ n <= Len(ages)
  <2>1. IsFiniteSet(young) /\ Cardinality(young) <= Cardinality(DOMAIN ages)
    BY <1>2, FS_Subset
  <2> QED  BY <1>2, <2>1, FS_CardinalityType
<1>4. Older(ages) = [i \in 1 .. n |-> ages[i] + 1]
  BY DEF Older
<1> HIDE DEF n
<1>5. \A i \in 1 .. n : ages[i] + 1 \in Nat
  BY <1>3
<1>6. Older(ages) \in Seq(Nat) /\ Len(Older(ages)) = n
  BY <1>3, <1>4, <1>5
<1>7. \A i \in 1 .. n : Older(ages)[i] = ages[i] + 1
  BY <1>4
<1> QED  BY <1>3, <1>6, <1>7 DEF n

LEMMA BadIsFinite ==
  ASSUME NEW answer, DOMAIN answer \subseteq Clients
  PROVE  Cardinality(Bad(answer)) \in Nat
<1>1. Bad(answer) \subseteq Clients
  BY DEF Bad
<1> QED  BY <1>1, DiscordAssumption, FS_Subset, FS_CardinalityType

LEMMA AllowedType ==
  ASSUME NEW answer, DOMAIN answer \subseteq Clients, Allowed(answer), events \in Nat
  PROVE  events' \in Nat
<1>1. Cardinality(Bad(answer)) \in Nat
  BY BadIsFinite
<1> QED  BY <1>1 DEF Allowed

(* The clients that are asked are clients.                                 *)
LEMMA AskedAreClients == Targets \subseteq Clients /\ \A answer : Asked(answer) \subseteq Targets
  BY DEF Targets, Live, Asked

----------------------------------------------------------------------------
(* Types.                                                                  *)

LinkTypes ==
  /\ discord \in [Clients -> {"gone", "starting", "ready"}]
  /\ open \subseteq Clients /\ denied \subseteq Clients /\ presences \subseteq Clients
  /\ shows \in [Clients -> Songs \cup {None}]

WaitTypes ==
  /\ status \in Status /\ retryIn \in Nat /\ backoff \in Nat
  /\ tries \in Nat /\ signedAge \in Nat

SentTypes ==
  /\ fault \in Fault /\ last \in Songs \cup {None} /\ sentAge \in Nat
  /\ cleared \in BOOLEAN
  /\ writes \in Seq(Nat) /\ refused \in [Songs -> Refusal \cup {None}]

TurnTypes ==
  /\ pc \in Phase /\ job \in Job /\ force \in BOOLEAN /\ pending \in Job
  /\ sharingOff \in BOOLEAN /\ inbox \in Job /\ inboxForce \in BOOLEAN
  /\ allClients \in BOOLEAN /\ sharing \in BOOLEAN /\ wanted \in Songs \cup {Clear}
  /\ daemon \in Stage

GhostTypes ==
  /\ published \in [connected : BOOLEAN, state : State]
  /\ written \in Seq(Nat) /\ reopened \in Seq(Nat) /\ hushed \in BOOLEAN /\ events \in Nat

LEMMA TypeParts == TypeOK <=> LinkTypes /\ WaitTypes /\ SentTypes /\ TurnTypes /\ GhostTypes
  BY DEF TypeOK, LinkTypes, WaitTypes, SentTypes, TurnTypes, GhostTypes

LEMMA LesserType == \A m, n \in Nat : Lesser(m, n) \in Nat
  BY DEF Lesser

LEMMA SentIsNotClear == None \notin Songs /\ Clear \notin Songs /\ Clear # None
  BY DiscordAssumption

LEMMA ZeroIsNat == 0 \in Nat
  OBVIOUS

LEMMA NothingIsASeq == <<>> \in Seq(Nat)
  OBVIOUS

LEMMA WaitsAreNat ==
  /\ MaxBackoff \in Nat /\ MinBackoff \in Nat /\ Rescan \in Nat /\ SignedOutRetry \in Nat
  /\ SignedOutTries \in Nat /\ SignedOutGrace \in Nat /\ Resend \in Nat
  BY DiscordAssumption

LEMMA RetryTypes ==
  ASSUME WaitTypes, RetryLater
  PROVE  retryIn' \in Nat /\ backoff' \in Nat
<1>1. 2 * backoff \in Nat /\ MaxBackoff \in Nat
  BY WaitsAreNat DEF WaitTypes
<1> QED  BY <1>1, LesserType DEF WaitTypes, RetryLater

(* A sweep keeps the types of what it may change.                          *)
LEMMA SweepTypes ==
  ASSUME LinkTypes, WaitTypes, SentTypes,
         NEW answer, DOMAIN answer = Targets,
         Sweep(answer), UNCHANGED <<discord, sentAge, writes>>
  PROVE  LinkTypes' /\ WaitTypes' /\ SentTypes'
<1> DEFINE got == {c \in Asked(answer) : answer[c] = "ok"}
<1>1. got \subseteq Clients
  BY AskedAreClients
<1>2. LinkTypes'
  <2>1. presences' = presences \cup got /\ open' = open \cup got /\ denied' = denied \ got
    BY DEF Sweep
  <2>2. shows' = [c \in Clients |-> IF c \in got THEN None ELSE shows[c]]
    BY DEF Sweep
  <2> HIDE DEF got
  <2> QED  BY <1>1, <2>1, <2>2 DEF LinkTypes
<1>3. WaitTypes'
  <2>1. Lesser(tries + 1, SignedOutTries) \in Nat
    BY LesserType, WaitsAreNat DEF WaitTypes
  <2>2. tries' \in Nat /\ signedAge' \in Nat
    <3> DEFINE waited == (\E c \in Asked(answer) : answer[c] = "not ready") /\ got = {}
               tried == IF waited THEN Lesser(tries + 1, SignedOutTries) ELSE 0
               since == IF waited /\ tries > 0 THEN signedAge ELSE 0
    <3>1. tried \in Nat /\ since \in Nat
      BY <2>1 DEF WaitTypes
    <3>2. (tries' = tried /\ signedAge' = since) \/ UNCHANGED <<tries, signedAge>>
      BY Zenon DEF Sweep
    <3> HIDE DEF tried, since
    <3> QED  BY <3>1, <3>2 DEF WaitTypes
  <2>3. retryIn' \in Nat /\ backoff' \in Nat
    BY RetryTypes, WaitsAreNat DEF Sweep, WaitTypes
  <2>4. status' \in Status
    BY DEF Sweep, Status
  <2> QED  BY <2>2, <2>3, <2>4 DEF WaitTypes
<1>4. SentTypes'
  <2>1. fault' \in Fault /\ last' \in Songs \cup {None} /\ cleared' \in BOOLEAN
    BY DEF Sweep, Connected, SentTypes, Fault
  <2>2. refused' \in [Songs -> Refusal \cup {None}]
    BY DEF Sweep, Connected, SentTypes
  <2> QED  BY <2>1, <2>2 DEF SentTypes
<1> QED  BY <1>2, <1>3, <1>4

LEMMA DialTypes ==
  ASSUME TypeOK, EnsureConnected
  PROVE  LinkTypes' /\ WaitTypes' /\ SentTypes' /\ events' \in Nat
<1>1. LinkTypes /\ WaitTypes /\ SentTypes /\ events \in Nat
  BY TypeParts DEF GhostTypes
<1>2. UNCHANGED <<discord, sentAge, writes>>
  BY DEF EnsureConnected
<1>3. CASE UNCHANGED <<open, shows, denied, presences, dialVars, fault, last, cleared, refused, events>>
  BY <1>1, <1>2, <1>3 DEF dialVars, LinkTypes, WaitTypes, SentTypes
<1>4. CASE /\ retryIn' = Rescan
           /\ UNCHANGED <<open, shows, denied, presences, status, backoff, tries, signedAge, fault,
                          last, cleared, refused, events>>
  BY <1>1, <1>2, <1>4, WaitsAreNat DEF LinkTypes, WaitTypes, SentTypes
<1>5. CASE \E answer \in [Targets -> {"ok", "not ready", "rejected", "silent"}] :
             Allowed(answer) /\ Sweep(answer)
  <2>1. PICK answer \in [Targets -> {"ok", "not ready", "rejected", "silent"}] :
               Allowed(answer) /\ Sweep(answer)
    BY <1>5
  <2>2. DOMAIN answer = Targets
    OBVIOUS
  <2>3. LinkTypes' /\ WaitTypes' /\ SentTypes'
    BY <1>1, <1>2, <2>1, <2>2, SweepTypes
  <2>4. DOMAIN answer \subseteq Clients
    BY <2>2, AskedAreClients
  <2>5. events' \in Nat
    BY <1>1, <2>1, <2>4, AllowedType
  <2> QED  BY <2>3, <2>5
<1> QED
  <2>1. \/ UNCHANGED <<open, shows, denied, presences, dialVars, fault, last, cleared, refused, events>>
        \/ /\ retryIn' = Rescan
           /\ UNCHANGED <<open, shows, denied, presences, status, backoff, tries, signedAge, fault,
                          last, cleared, refused, events>>
        \/ \E answer \in [Targets -> {"ok", "not ready", "rejected", "silent"}] :
             Allowed(answer) /\ Sweep(answer)
    BY Zenon DEF EnsureConnected
  <2> QED  BY <1>3, <1>4, <1>5, <2>1

LEMMA WrittenTypes ==
  ASSUME LinkTypes, NEW answer, NEW what \in Songs \cup {None}, Written(answer, what),
         UNCHANGED discord
  PROVE  LinkTypes'
<1> DEFINE failed == Said(answer, "dead") \cup Said(answer, "silent")
<1>1. Said(answer, "refused") \subseteq presences
  BY DEF Said
<1>2. /\ presences' = presences \ failed /\ open' = open \ failed
      /\ denied' = (denied \cup Said(answer, "refused")) \ failed
  BY DEF Written
<1>3. shows' = [c \in Clients |-> IF c \in failed THEN None
                                 ELSE IF c \in Said(answer, "ok") THEN what ELSE shows[c]]
  BY DEF Written
<1> HIDE DEF failed
<1>4. shows' \in [Clients -> Songs \cup {None}]
  BY <1>3 DEF LinkTypes
<1> QED  BY <1>1, <1>2, <1>4 DEF LinkTypes

LEMMA SpendTypes ==
  ASSUME NEW answer, NEW forced \in BOOLEAN, Spend(answer, forced),
         writes \in Seq(Nat), written \in Seq(Nat)
  PROVE  writes' \in Seq(Nat) /\ written' \in Seq(Nat)
<1>1. <<0>> \o writes \in Seq(Nat) /\ <<0>> \o written \in Seq(Nat)
  OBVIOUS
<1> QED  BY <1>1 DEF Spend

LEMMA UpdateTypes ==
  ASSUME LinkTypes, WaitTypes, SentTypes, written \in Seq(Nat),
         NEW song \in Songs, NEW answer, NEW forced \in BOOLEAN,
         SendUpdate(song, answer, forced), UNCHANGED discord
  PROVE  /\ LinkTypes' /\ WaitTypes' /\ SentTypes'
         /\ pending' \in Job /\ written' \in Seq(Nat)
<1>1. LinkTypes'
  <2>1. Written(answer, song)
    BY Zenon DEF SendUpdate
  <2> QED  BY <2>1, WrittenTypes
<1>2. WaitTypes'
  BY RetryTypes DEF SendUpdate, WaitTypes
<1>3. writes' \in Seq(Nat) /\ written' \in Seq(Nat)
  <2>1. Spend(answer, forced) \/ UNCHANGED <<writes, written>>
    BY Zenon DEF SendUpdate
  <2> QED  BY <2>1, SpendTypes DEF SentTypes
<1>4. refused' \in [Songs -> Refusal \cup {None}]
  <2> DEFINE before == refused[song]
             more == IF before = None THEN [age |-> 0, times |-> 1]
                     ELSE [age |-> before.age, times |-> before.times + 1]
  <2>1. more \in Refusal
    <3>1. before \in Refusal \cup {None}
      BY DEF SentTypes
    <3> QED  BY <3>1 DEF Refusal
  <2>2. UNCHANGED refused \/ refused' = [refused EXCEPT ![song] = more]
    BY Zenon DEF SendUpdate
  <2> HIDE DEF more
  <2> QED  BY <2>1, <2>2 DEF SentTypes
<1>5. /\ fault' \in Fault /\ last' \in Songs \cup {None} /\ sentAge' \in Nat
      /\ cleared' \in BOOLEAN
  <2>1. /\ fault' = "" \/ fault' = "refused" \/ fault' = "silent" \/ fault' = fault
        /\ last' = song \/ last' = last \/ last' = None
        /\ sentAge' = 0 \/ sentAge' = sentAge
        /\ cleared' = FALSE \/ cleared' = cleared
    BY Zenon DEF SendUpdate
  <2>2. cleared' \in BOOLEAN
    BY <2>1, Zenon DEF SentTypes
  <2>3. fault' \in Fault /\ last' \in Songs \cup {None}
    BY <2>1, Zenon DEF SentTypes, Fault
  <2>4. sentAge' \in Nat
    BY <2>1, ZeroIsNat, Zenon DEF SentTypes
  <2> QED  BY <2>2, <2>3, <2>4
<1>6. pending' \in Job
  BY DEF SendUpdate, Job
<1> QED  BY <1>1, <1>2, <1>3, <1>4, <1>5, <1>6 DEF SentTypes

LEMMA ClearTypes ==
  ASSUME LinkTypes, WaitTypes, SentTypes, written \in Seq(Nat),
         NEW answer, NEW forced \in BOOLEAN,
         SendClear(answer, forced), UNCHANGED discord
  PROVE  /\ LinkTypes' /\ WaitTypes' /\ SentTypes'
         /\ pending' \in Job /\ written' \in Seq(Nat)
<1>1. LinkTypes'
  <2>1. Written(answer, None)
    BY Zenon DEF SendClear
  <2> QED  BY <2>1, WrittenTypes
<1>2. WaitTypes'
  BY RetryTypes DEF SendClear, WaitTypes
<1>3. writes' \in Seq(Nat) /\ written' \in Seq(Nat)
  <2>1. Spend(answer, forced) \/ UNCHANGED <<writes, written>>
    BY Zenon DEF SendClear
  <2> QED  BY <2>1, SpendTypes DEF SentTypes
<1>4. /\ fault' \in Fault /\ last' \in Songs \cup {None} /\ sentAge' \in Nat
      /\ cleared' \in BOOLEAN /\ refused' \in [Songs -> Refusal \cup {None}]
  <2>1. /\ fault' = fault /\ refused' = refused /\ last' = None
        /\ sentAge' = 0 \/ sentAge' = sentAge
        /\ cleared' = FALSE \/ cleared' = TRUE \/ cleared' = cleared
    BY Zenon DEF SendClear
  <2>2. cleared' \in BOOLEAN
    BY <2>1, Zenon DEF SentTypes
  <2>3. sentAge' \in Nat
    BY <2>1 DEF SentTypes
  <2> QED  BY <2>1, <2>2, <2>3 DEF SentTypes
<1>5. pending' \in Job
  BY DEF SendClear, Job
<1> QED  BY <1>1, <1>2, <1>3, <1>4, <1>5 DEF SentTypes

(* What pump may do: hold back, clear, or send a song.                     *)
LEMMA SendCases ==
  ASSUME NEW what, NEW forced, Send(what, forced)
  PROVE  /\ UNCHANGED discord
         /\ \/ /\ UNCHANGED <<open, shows, denied, presences, dialVars, fault, last, sentAge, cleared,
                             writes, refused, written, events>>
               /\ pending' \in {what, None}
            \/ \E answer \in [presences -> {"ok", "refused", "silent", "dead"}] :
                 /\ \A c \in presences : answer[c] \in SendAnswers(c)
                 /\ Allowed(answer)
                 /\ what # None /\ (forced \/ HasToken)
                 /\ \/ what = Clear /\ SendClear(answer, forced)
                    \/ what # Clear /\ SendUpdate(what, answer, forced)
<1>1. CASE what = None \/ presences = {} \/ Settled(what) \/ ~(forced \/ HasToken)
  BY <1>1, Zenon DEF Send
<1>2. CASE ~(what = None \/ presences = {} \/ Settled(what) \/ ~(forced \/ HasToken))
  BY <1>2, Zenon DEF Send
<1> QED  BY <1>1, <1>2

LEMMA SendTypes ==
  ASSUME TypeOK, NEW what \in Job, NEW forced \in BOOLEAN, Send(what, forced)
  PROVE  /\ LinkTypes' /\ WaitTypes' /\ SentTypes'
         /\ pending' \in Job /\ written' \in Seq(Nat) /\ events' \in Nat
<1>1. /\ LinkTypes /\ WaitTypes /\ SentTypes /\ written \in Seq(Nat) /\ events \in Nat
      /\ presences \subseteq Clients /\ UNCHANGED discord
  BY TypeParts, SendCases DEF GhostTypes, LinkTypes
<1>2. CASE /\ UNCHANGED <<open, shows, denied, presences, dialVars, fault, last, sentAge, cleared,
                          writes, refused, written, events>>
           /\ pending' \in {what, None}
  BY <1>1, <1>2 DEF dialVars, LinkTypes, WaitTypes, SentTypes, Job
<1>3. ASSUME NEW answer, DOMAIN answer = presences, Allowed(answer), what # None,
             \/ what = Clear /\ SendClear(answer, forced)
             \/ what # Clear /\ SendUpdate(what, answer, forced)
      PROVE  /\ LinkTypes' /\ WaitTypes' /\ SentTypes'
             /\ pending' \in Job /\ written' \in Seq(Nat) /\ events' \in Nat
  <2>1. events' \in Nat
    BY <1>1, <1>3, AllowedType
  <2>2. CASE what = Clear /\ SendClear(answer, forced)
    BY <1>1, <2>1, <2>2, ClearTypes
  <2>3. CASE what # Clear /\ SendUpdate(what, answer, forced)
    <3>1. what \in Songs
      BY <1>3, <2>3 DEF Job
    <3> QED  BY <1>1, <2>1, <2>3, <3>1, UpdateTypes
  <2> QED  BY <1>3, <2>2, <2>3
<1>4. \/ /\ UNCHANGED <<open, shows, denied, presences, dialVars, fault, last, sentAge, cleared,
                          writes, refused, written, events>>
         /\ pending' \in {what, None}
      \/ \E answer : /\ DOMAIN answer = presences /\ Allowed(answer) /\ what # None
                     /\ \/ what = Clear /\ SendClear(answer, forced)
                        \/ what # Clear /\ SendUpdate(what, answer, forced)
  BY SendCases
<1> QED  BY <1>2, <1>3, <1>4

LEMMA PublishTypes ==
  ASSUME status' \in Status, Publish
  PROVE  published' \in [connected : BOOLEAN, state : State]
<1>1. LiveState(presences', status', fault', last') \in State
  BY DEF LiveState, Status, State
<1>2. (presences' # {}) \in BOOLEAN
  OBVIOUS
<1> QED  BY <1>1, <1>2 DEF Publish

LEMMA InitTypes == Init => TypeOK
<1> SUFFICES ASSUME Init PROVE TypeOK
  OBVIOUS
<1>1. Resend \in Nat /\ MinBackoff \in Nat /\ 0 \in Nat
  BY WaitsAreNat
<1>2. LinkTypes /\ WaitTypes /\ SentTypes
  <2>1. LinkTypes
    BY DEF Init, LinkTypes
  <2>2. WaitTypes
    BY <1>1, Zenon DEF Init, WaitTypes, Status
  <2>3. refused \in [Songs -> Refusal \cup {None}]
    BY DEF Init
  <2>4. SentTypes
    BY <1>1, <2>3, NothingIsASeq, Zenon DEF Init, SentTypes, Fault
  <2> QED  BY <2>1, <2>2, <2>4
<1>3. AllClients \subseteq BOOLEAN
  BY DiscordAssumption
<1>4. allClients \in BOOLEAN /\ sharing \in BOOLEAN /\ sharingOff \in BOOLEAN
  BY <1>3, Zenon DEF Init
<1>5. TurnTypes
  BY <1>4 DEF Init, TurnTypes, Phase, Job, Stage
<1>6. GhostTypes
  <2>1. [connected |-> FALSE, state |-> "no_client"] \in [connected : BOOLEAN, state : State]
    BY DEF State
  <2> QED  BY <1>1, <2>1, NothingIsASeq, Zenon DEF Init, GhostTypes
<1> QED  BY <1>2, <1>5, <1>6, TypeParts

LEMMA TickTypes ==
  ASSUME TypeOK, Tick
  PROVE  WaitTypes' /\ SentTypes' /\ written' \in Seq(Nat) /\ reopened' \in Seq(Nat)
<1>1. WaitTypes /\ SentTypes /\ written \in Seq(Nat) /\ reopened \in Seq(Nat)
  BY TypeParts DEF GhostTypes
<1>2. WaitTypes'
  <2>1. Sooner(retryIn) \in Nat
    BY <1>1 DEF WaitTypes, Sooner
  <2>2. Lesser(signedAge + 1, SignedOutGrace) \in Nat
    <3>1. signedAge + 1 \in Nat
      BY <1>1 DEF WaitTypes
    <3> QED  BY <3>1, LesserType, WaitsAreNat, Zenon
  <2>3. signedAge' \in Nat
    BY <2>2 DEF Tick
  <2>4. retryIn' = Sooner(retryIn) /\ status' = status /\ backoff' = backoff /\ tries' = tries
    BY Zenon DEF Tick
  <2> QED  BY <1>1, <2>1, <2>3, <2>4 DEF WaitTypes
<1>3. writes' \in Seq(Nat) /\ written' \in Seq(Nat) /\ reopened' \in Seq(Nat)
  BY <1>1, OlderIsPrefix DEF Tick, SentTypes
<1>4. sentAge' \in Nat
  <2>1. Lesser(sentAge + 1, Resend) \in Nat
    <3>1. sentAge + 1 \in Nat
      BY <1>1 DEF SentTypes
    <3> QED  BY <3>1, LesserType, WaitsAreNat, Zenon
  <2> QED  BY <2>1, Zenon DEF Tick
<1>5. refused' \in [Songs -> Refusal \cup {None}]
  <2>1. ASSUME NEW s \in Songs
        PROVE  RefusalOlder(refused[s]) \in Refusal \cup {None}
    <3>1. refused[s] \in Refusal \cup {None}
      BY <1>1 DEF SentTypes
    <3> QED  BY <3>1 DEF Refusal, RefusalOlder
  <2>2. refused' = [s \in Songs |-> RefusalOlder(refused[s])]
    BY Zenon DEF Tick
  <2> QED  BY <2>1, <2>2
<1>6. fault' = fault /\ last' = last /\ cleared' = cleared
  BY Zenon DEF Tick
<1>7. fault' \in Fault /\ last' \in Songs \cup {None} /\ cleared' \in BOOLEAN
  BY <1>1, <1>6, Zenon DEF SentTypes
<1> QED  BY <1>2, <1>3, <1>4, <1>5, <1>7 DEF SentTypes

LEMMA TypeStep == TypeOK /\ [Next]_vars => TypeOK'
<1> SUFFICES ASSUME TypeOK, [Next]_vars PROVE TypeOK'
  OBVIOUS
<1>a. LinkTypes /\ WaitTypes /\ SentTypes /\ TurnTypes /\ GhostTypes
  BY TypeParts
<1>b. LinkTypes' /\ WaitTypes' /\ SentTypes' /\ TurnTypes' /\ GhostTypes' => TypeOK'
  BY DEF TypeOK, LinkTypes, WaitTypes, SentTypes, TurnTypes, GhostTypes
<1>1. CASE Take
  <2>1. LinkTypes' /\ WaitTypes' /\ SentTypes'
    BY <1>1, <1>a DEF Take, discordVars, dialVars, sentVars, LinkTypes, WaitTypes, SentTypes
  <2>2. TurnTypes'
    BY <1>1, <1>a DEF Take, userVars, sentVars, TurnTypes, Phase, Job
  <2>3. GhostTypes'
    <3>1. hushed' \in BOOLEAN
      BY <1>1, <1>a, Zenon DEF Take, GhostTypes, TurnTypes
    <3> QED  BY <1>1, <1>a, <3>1 DEF Take, GhostTypes
  <2> QED  BY <1>b, <2>1, <2>2, <2>3
<1>2. CASE Dial
  <2>1. LinkTypes' /\ WaitTypes' /\ SentTypes' /\ events' \in Nat
    <3>1. CASE EnsureConnected
      BY <3>1, DialTypes
    <3>2. CASE UNCHANGED <<discordVars, presences, dialVars, fault, last, sentAge, cleared, writes,
                           refused, events>>
      BY <1>a, <3>2 DEF discordVars, dialVars, LinkTypes, WaitTypes, SentTypes, GhostTypes
    <3> QED  BY <1>2, <3>1, <3>2, Zenon DEF Dial
  <2>2. TurnTypes'
    BY <1>2, <1>a DEF Dial, userVars, postVars, TurnTypes, Phase
  <2>3. GhostTypes'
    BY <1>2, <1>a, <2>1 DEF Dial, ghosts, GhostTypes
  <2> QED  BY <1>b, <2>1, <2>2, <2>3
<1>3. CASE DialFor
  <2>1. LinkTypes' /\ WaitTypes' /\ SentTypes' /\ events' \in Nat
    BY <1>3, DialTypes, Zenon DEF DialFor
  <2>2. TurnTypes'
    BY <1>3, <1>a DEF DialFor, userVars, postVars, TurnTypes, Phase, Job
  <2>3. published' \in [connected : BOOLEAN, state : State]
    <3>1. published' = published \/ Publish
      BY <1>3, Zenon DEF DialFor
    <3>2. status' \in Status
      BY <2>1 DEF WaitTypes
    <3> QED  BY <1>a, <3>1, <3>2, PublishTypes DEF GhostTypes
  <2>4. GhostTypes'
    BY <1>3, <1>a, <2>1, <2>3 DEF DialFor, ghosts, GhostTypes
  <2> QED  BY <1>b, <2>1, <2>2, <2>4
<1>4. CASE Pump
  <2> DEFINE what == IF job = Clear THEN Clear ELSE pending
             forced == job = Clear /\ force
  <2>1. what \in Job /\ forced \in BOOLEAN
    BY <1>a DEF TurnTypes, Job
  <2>2. Send(what, forced)
    BY <1>4, Zenon DEF Pump
  <2> HIDE DEF what, forced
  <2>3. /\ LinkTypes' /\ WaitTypes' /\ SentTypes'
        /\ pending' \in Job /\ written' \in Seq(Nat) /\ events' \in Nat
    BY <2>1, <2>2, SendTypes
  <2>4. /\ pc' = "waiting" /\ job' = None /\ force' = FALSE /\ Publish
        /\ UNCHANGED <<userVars, daemon, postVars, reopened, hushed>>
    BY <1>4, Zenon DEF Pump
  <2>5. TurnTypes'
    BY <1>a, <2>3, <2>4 DEF userVars, postVars, TurnTypes, Phase, Job
  <2>6. status' \in Status
    BY <2>3 DEF WaitTypes
  <2>7. GhostTypes'
    BY <1>a, <2>3, <2>4, <2>6, PublishTypes DEF GhostTypes
  <2> QED  BY <1>b, <2>3, <2>5, <2>7
<1>5. CASE Leave
  <2>1. LinkTypes' /\ WaitTypes'
    BY <1>5, <1>a DEF Leave, dialVars, LinkTypes, WaitTypes
  <2>2. SentTypes'
    BY <1>5, <1>a DEF Leave, SentTypes
  <2>3. TurnTypes'
    BY <1>5, <1>a DEF Leave, userVars, postVars, TurnTypes, Phase, Job
  <2>4. GhostTypes'
    <3>1. status' \in Status
      BY <2>1 DEF WaitTypes
    <3> QED  BY <1>5, <1>a, <3>1, PublishTypes DEF Leave, ghosts, GhostTypes
  <2> QED  BY <1>b, <2>1, <2>2, <2>3, <2>4
<1>6. CASE PollFlag \/ PollPost \/ HoldBack \/ Quit \/ Close \/ Renew
  <2>1. UNCHANGED <<discordVars, presences, dialVars, sentVars, published, written, reopened>>
    BY <1>6 DEF PollFlag, PollPost, HoldBack, Quit, Close, Renew, ghosts
  <2>2. LinkTypes' /\ WaitTypes' /\ SentTypes'
    BY <1>a, <2>1 DEF discordVars, dialVars, sentVars, LinkTypes, WaitTypes, SentTypes
  <2>3. sharing' = sharing /\ wanted' = wanted /\ allClients' = allClients /\ pending' = pending
        /\ pc' = pc /\ job' = job /\ force' = force
    BY <1>6 DEF PollFlag, PollPost, HoldBack, Quit, Close, Renew, userVars, turnVars, sentVars
  <2>4. daemon' \in Stage
    BY <1>6 DEF PollFlag, PollPost, HoldBack, Quit, Close, Renew, Stage
  <2>5. inbox' \in Job
    BY <1>6, <1>a DEF PollFlag, PollPost, HoldBack, Quit, Close, Renew, postVars, TurnTypes, Job
  <2>6. sharingOff' \in BOOLEAN /\ inboxForce' \in BOOLEAN /\ hushed' \in BOOLEAN
    BY <1>6, <1>a, Zenon
       DEF PollFlag, PollPost, HoldBack, Quit, Close, Renew, postVars, ghosts, TurnTypes, GhostTypes
  <2>7. events' \in Nat
    BY <1>6, <1>a DEF PollFlag, PollPost, HoldBack, Quit, Close, Renew, GhostTypes
  <2>8. TurnTypes'
    BY <1>a, <2>3, <2>4, <2>5, <2>6 DEF TurnTypes
  <2>9. GhostTypes'
    BY <1>a, <2>1, <2>6, <2>7 DEF GhostTypes
  <2> QED  BY <1>b, <2>2, <2>8, <2>9
<1>7. CASE Reopen
  <2>1. LinkTypes'
    BY <1>7, <1>a DEF Reopen, discordVars, LinkTypes
  <2>2. WaitTypes' /\ SentTypes'
    <3>1. WaitTypes'
      BY <1>7, WaitsAreNat, ZeroIsNat, Zenon DEF Reopen, WaitTypes, Status
    <3>2. refused' \in [Songs -> Refusal \cup {None}]
      BY <1>7 DEF Reopen
    <3> QED  BY <1>7, <3>1, <3>2, WaitsAreNat, NothingIsASeq, Zenon DEF Reopen, SentTypes, Fault
  <2>3. TurnTypes'
    BY <1>7, <1>a DEF Reopen, userVars, TurnTypes, Phase, Job, Stage
  <2>4. GhostTypes'
    <3>1. [connected |-> FALSE, state |-> "no_client"] \in [connected : BOOLEAN, state : State]
      BY DEF State
    <3>2. written' = written /\ reopened' = <<0>> \o reopened
      BY <1>7, Zenon DEF Reopen
    <3>3. written' \in Seq(Nat) /\ reopened' \in Seq(Nat)
      BY <1>a, <3>2 DEF GhostTypes
    <3> QED  BY <1>7, <1>a, <3>1, <3>3, Zenon DEF Reopen, GhostTypes
  <2> QED  BY <1>b, <2>1, <2>2, <2>3, <2>4
<1>8. CASE (\E what \in Songs \cup {Clear} : Play(what)) \/ (\E on \in BOOLEAN : Share(on))
  <2>1. /\ UNCHANGED <<discordVars, presences, dialVars, sentVars, published, ghosts, postVars,
                      turnVars, daemon, allClients>>
        /\ wanted' \in Songs \cup {Clear} /\ sharing' \in BOOLEAN /\ events' = events + 1
    BY <1>8, <1>a DEF Play, Share, TurnTypes
  <2>2. LinkTypes' /\ WaitTypes' /\ SentTypes'
    BY <1>a, <2>1 DEF discordVars, dialVars, sentVars, LinkTypes, WaitTypes, SentTypes
  <2>3. TurnTypes'
    BY <1>a, <2>1 DEF postVars, turnVars, sentVars, TurnTypes
  <2>4. GhostTypes'
    BY <1>a, <2>1 DEF ghosts, GhostTypes
  <2> QED  BY <1>b, <2>2, <2>3, <2>4
<1>9. CASE \E c \in Clients : \E to \in {"gone", "starting", "ready"} : DiscordMoves(c, to)
  <2>1. PICK c \in Clients, to \in {"gone", "starting", "ready"} : DiscordMoves(c, to)
    BY <1>9
  <2>2. LinkTypes'
    BY <1>a, <2>1 DEF DiscordMoves, LinkTypes
  <2>3. WaitTypes' /\ SentTypes'
    BY <1>a, <2>1 DEF DiscordMoves, dialVars, sentVars, WaitTypes, SentTypes
  <2>4. TurnTypes'
    BY <1>a, <2>1 DEF DiscordMoves, userVars, postVars, turnVars, sentVars, TurnTypes
  <2>5. GhostTypes'
    BY <1>a, <2>1 DEF DiscordMoves, ghosts, GhostTypes
  <2> QED  BY <1>b, <2>2, <2>3, <2>4, <2>5
<1>10. CASE Tick
  <2>1. WaitTypes' /\ SentTypes' /\ written' \in Seq(Nat) /\ reopened' \in Seq(Nat)
    BY <1>10, TickTypes
  <2>2. /\ UNCHANGED <<discordVars, userVars, daemon, postVars, turnVars, presences, published,
                      hushed, events, pending>>
    BY <1>10, Zenon DEF Tick
  <2>3. LinkTypes' /\ TurnTypes' /\ GhostTypes'
    BY <1>a, <2>1, <2>2 DEF discordVars, userVars, postVars, turnVars, LinkTypes, TurnTypes, GhostTypes
  <2> QED  BY <1>b, <2>1, <2>3
<1>11. CASE UNCHANGED vars
  BY <1>11, <1>a, <1>b
     DEF vars, discordVars, userVars, postVars, turnVars, dialVars, sentVars, ghosts,
         LinkTypes, WaitTypes, SentTypes, TurnTypes, GhostTypes
<1> QED
  BY <1>1, <1>2, <1>3, <1>4, <1>5, <1>6, <1>7, <1>8, <1>9, <1>10, <1>11, Zenon
     DEF Next, ThreadNext, DaemonNext

(* Every variable keeps its type, whatever the clients, the songs and the  *)
(* waits are, and however often Discord and the user do what they may do.  *)
THEOREM TypeCorrect == Spec => []TypeOK
<1> QED  BY InitTypes, TypeStep, PTL DEF Spec

----------------------------------------------------------------------------
(* What is believed to be shown.                                           *)

LEMMA CacheFrame ==
  ASSUME CacheIsTrue, UNCHANGED <<open, shows, denied, presences, last, cleared>>
  PROVE  CacheIsTrue'
  BY DEF CacheIsTrue

(* A sweep adds connections on which nothing is shown yet, and then        *)
(* forgets what the others show.                                           *)
LEMMA SweepCache ==
  ASSUME LinkTypes, CacheIsTrue, NEW answer, Sweep(answer)
  PROVE  CacheIsTrue'
<1> DEFINE got == {c \in Asked(answer) : answer[c] = "ok"}
<1>1. got \subseteq Clients
  BY AskedAreClients
<1>2. presences' = presences \cup got /\ open' = open \cup got /\ denied' = denied \ got
  BY DEF Sweep
<1>3. shows' = [c \in Clients |-> IF c \in got THEN None ELSE shows[c]]
  BY DEF Sweep
<1>4. got # {} => last' = None /\ cleared' = FALSE
  <2>1. presences' = presences \cup got
    BY <1>2
  <2> QED  BY <2>1 DEF Sweep, Connected
<1>5. got = {} => last' = last /\ cleared' = cleared
  BY Zenon DEF Sweep
<1> HIDE DEF got
<1> QED  BY <1>1, <1>2, <1>3, <1>4, <1>5 DEF CacheIsTrue, LinkTypes

LEMMA DialCache ==
  ASSUME LinkTypes, CacheIsTrue, EnsureConnected
  PROVE  CacheIsTrue'
<1>1. CASE \E answer : Sweep(answer)
  BY <1>1, SweepCache
<1>2. CASE UNCHANGED <<open, shows, denied, presences, last, cleared>>
  BY <1>2, CacheFrame
<1>3. (\E answer : Sweep(answer)) \/ UNCHANGED <<open, shows, denied, presences, last, cleared>>
  <2>1. \/ UNCHANGED <<open, shows, denied, presences, dialVars, fault, last, cleared, refused, events>>
        \/ UNCHANGED <<open, shows, denied, presences, status, backoff, tries, signedAge, fault,
                       last, cleared, refused, events>>
        \/ \E answer : Sweep(answer)
    BY Zenon DEF EnsureConnected
  <2> QED  BY <2>1
<1> QED  BY <1>1, <1>2, <1>3

(* After a write each client that is still connected shows what it was     *)
(* sent, or has refused it.                                                *)
LEMMA WrittenShows ==
  ASSUME LinkTypes, CacheIsTrue, NEW answer, NEW what,
         \A c \in presences : answer[c] \in SendAnswers(c), Written(answer, what)
  PROVE  /\ presences' \subseteq presences
         /\ open' \subseteq open /\ open' \subseteq presences'
         /\ \A c \in Clients \ open' : shows'[c] = None
         /\ \A c \in open' : \/ answer[c] = "ok" /\ shows'[c] = what
                             \/ answer[c] = "refused" /\ shows'[c] = shows[c] /\ c \in denied'
         /\ \A c \in open' : c \in denied => c \in denied'
<1> DEFINE failed == {c \in presences : answer[c] = "dead"} \cup {c \in presences : answer[c] = "silent"}
<1>1. /\ presences' = presences \ failed /\ open' = open \ failed
      /\ denied' = (denied \cup {c \in presences : answer[c] = "refused"}) \ failed
  BY DEF Written, Said
<1>2. \A c \in Clients : shows'[c] = IF c \in failed THEN None
                               ELSE IF c \in presences /\ answer[c] = "ok" THEN what ELSE shows[c]
  BY DEF Written, Said
<1>3. open \subseteq presences /\ presences \subseteq Clients
  BY DEF CacheIsTrue, LinkTypes
<1>4. \A c \in presences \ failed : c \in open /\ answer[c] \in {"ok", "refused"}
  BY DEF SendAnswers
<1>5. \A c \in Clients \ open : shows[c] = None
  BY DEF CacheIsTrue
<1>6. open' \subseteq open /\ open' \subseteq presences' /\ presences' \subseteq presences
  BY <1>1, <1>3
<1>7. \A c \in Clients \ open' : shows'[c] = None
  BY <1>1, <1>2, <1>4, <1>5
<1>8. \A c \in open' : \/ answer[c] = "ok" /\ shows'[c] = what
                       \/ answer[c] = "refused" /\ shows'[c] = shows[c] /\ c \in denied'
  <2> TAKE c \in open'
  <2>1. c \in presences \ failed /\ c \in Clients
    BY <1>1, <1>3
  <2>2. answer[c] \in {"ok", "refused"}
    BY <1>4, <2>1
  <2> QED  BY <1>1, <1>2, <2>1, <2>2
<1>9. \A c \in open' : c \in denied => c \in denied'
  BY <1>1
<1> HIDE DEF failed
<1> QED  BY <1>6, <1>7, <1>8, <1>9, Zenon

LEMMA UpdateCache ==
  ASSUME LinkTypes, CacheIsTrue, NEW song \in Songs, NEW answer, NEW forced,
         \A c \in presences : answer[c] \in SendAnswers(c), SendUpdate(song, answer, forced)
  PROVE  CacheIsTrue'
<1>1. Written(answer, song)
  BY Zenon DEF SendUpdate
<1>2. /\ open' \subseteq open /\ open' \subseteq presences' /\ presences' \subseteq presences
      /\ \A c \in Clients \ open' : shows'[c] = None
      /\ \A c \in open' : \/ answer[c] = "ok" /\ shows'[c] = song
                          \/ answer[c] = "refused" /\ shows'[c] = shows[c] /\ c \in denied'
      /\ \A c \in open' : c \in denied => c \in denied'
  BY <1>1, WrittenShows
<1>3. open \subseteq presences
  BY DEF CacheIsTrue
<1>4. CASE last' = song /\ cleared' = FALSE
  BY <1>2, <1>4 DEF CacheIsTrue
<1>5. CASE Said(answer, "ok") = {} /\ last' \in {last, None} /\ cleared' = cleared
  <2>1. \A c \in open' : shows'[c] = shows[c] /\ (c \in denied => c \in denied')
    BY <1>2, <1>3, <1>5 DEF Said
  <2> QED  BY <1>2, <1>5, <2>1 DEF CacheIsTrue
<1>6. \/ last' = song /\ cleared' = FALSE
      \/ Said(answer, "ok") = {} /\ (last' = last \/ last' = None) /\ cleared' = cleared
  BY Zenon DEF SendUpdate
<1> QED  BY <1>4, <1>5, <1>6

LEMMA ClearCache ==
  ASSUME LinkTypes, CacheIsTrue, NEW answer, NEW forced,
         \A c \in presences : answer[c] \in SendAnswers(c), SendClear(answer, forced)
  PROVE  CacheIsTrue'
<1>1. Written(answer, None) /\ last' = None
  BY Zenon DEF SendClear
<1>2. /\ open' \subseteq open /\ open' \subseteq presences' /\ presences' \subseteq presences
      /\ \A c \in Clients \ open' : shows'[c] = None
      /\ \A c \in open' : \/ answer[c] = "ok" /\ shows'[c] = None
                          \/ answer[c] = "refused" /\ shows'[c] = shows[c] /\ c \in denied'
  BY <1>1, WrittenShows
<1>3. open \subseteq presences
  BY DEF CacheIsTrue
<1>4. CASE cleared' = FALSE
  BY <1>1, <1>2, <1>4 DEF CacheIsTrue
<1>5. CASE cleared' = cleared
  BY <1>1, <1>2, <1>5 DEF CacheIsTrue
<1>6. CASE Said(answer, "refused") = {}
  <2>1. \A c \in open' : shows'[c] = None
    BY <1>2, <1>3, <1>6 DEF Said
  <2> QED  BY <1>1, <1>2, <2>1 DEF CacheIsTrue
<1>7. cleared' = FALSE \/ cleared' = cleared \/ Said(answer, "refused") = {}
  BY Zenon DEF SendClear
<1> QED  BY <1>4, <1>5, <1>6, <1>7

LEMMA SendCache ==
  ASSUME LinkTypes, CacheIsTrue, NEW what \in Job, NEW forced, Send(what, forced)
  PROVE  CacheIsTrue'
<1>1. CASE UNCHANGED <<open, shows, denied, presences, dialVars, fault, last, sentAge, cleared,
                       writes, refused, written, events>>
  BY <1>1, CacheFrame
<1>2. ASSUME NEW answer, \A c \in presences : answer[c] \in SendAnswers(c), what # None,
             \/ what = Clear /\ SendClear(answer, forced)
             \/ what # Clear /\ SendUpdate(what, answer, forced)
      PROVE  CacheIsTrue'
  <2>1. what # Clear => what \in Songs
    BY <1>2 DEF Job
  <2> QED  BY <1>2, <2>1, UpdateCache, ClearCache
<1>3. \/ UNCHANGED <<open, shows, denied, presences, dialVars, fault, last, sentAge, cleared,
                     writes, refused, written, events>>
      \/ \E answer : /\ \A c \in presences : answer[c] \in SendAnswers(c)
                     /\ what # None
                     /\ \/ what = Clear /\ SendClear(answer, forced)
                        \/ what # Clear /\ SendUpdate(what, answer, forced)
  BY SendCases
<1> QED  BY <1>1, <1>2, <1>3

LEMMA CacheStep == TypeOK /\ CacheIsTrue /\ [Next]_vars => CacheIsTrue'
<1> SUFFICES ASSUME TypeOK, CacheIsTrue, [Next]_vars PROVE CacheIsTrue'
  OBVIOUS
<1>a. LinkTypes /\ TurnTypes
  BY TypeParts
<1>1. CASE Dial
  BY <1>1, <1>a, DialCache, CacheFrame DEF Dial, discordVars
<1>2. CASE DialFor
  BY <1>2, <1>a, DialCache, Zenon DEF DialFor
<1>3. CASE Pump
  <2> DEFINE what == IF job = Clear THEN Clear ELSE pending
             forced == job = Clear /\ force
  <2>1. what \in Job
    BY <1>a DEF TurnTypes, Job
  <2>2. Send(what, forced)
    BY <1>3, Zenon DEF Pump
  <2> HIDE DEF what, forced
  <2> QED  BY <1>a, <2>1, <2>2, SendCache
<1>4. CASE Leave
  <2>1. /\ open' = {} /\ shows' = [c \in Clients |-> None]
        /\ presences = {} => last' = last
        /\ presences # {} => last' = None /\ cleared' = FALSE
    BY <1>4, Zenon DEF Leave
  <2> QED  BY <2>1 DEF CacheIsTrue
<1>5. CASE Reopen
  BY <1>5 DEF Reopen, discordVars, CacheIsTrue
<1>6. CASE \E c \in Clients : \E to \in {"gone", "starting", "ready"} : DiscordMoves(c, to)
  <2>1. PICK c \in Clients, to \in {"gone", "starting", "ready"} : DiscordMoves(c, to)
    BY <1>6
  <2>2. /\ open' = (IF to = "gone" THEN open \ {c} ELSE open)
        /\ shows' = (IF to = "gone" THEN [shows EXCEPT ![c] = None] ELSE shows)
        /\ UNCHANGED <<denied, presences, last, cleared>>
    BY <2>1 DEF DiscordMoves, sentVars
  <2> QED  BY <1>a, <2>2 DEF CacheIsTrue, LinkTypes
<1>7. CASE \/ Take \/ PollFlag \/ PollPost \/ HoldBack \/ Quit \/ Close \/ Renew \/ Tick
           \/ (\E what \in Songs \cup {Clear} : Play(what)) \/ (\E on \in BOOLEAN : Share(on))
           \/ UNCHANGED vars
  <2>1. UNCHANGED <<open, shows, denied, presences, last, cleared>>
    BY <1>7 DEF Take, PollFlag, PollPost, HoldBack, Quit, Close, Renew, Tick, Play, Share, vars,
                discordVars, sentVars
  <2> QED  BY <2>1, CacheFrame
<1> QED
  BY <1>1, <1>2, <1>3, <1>4, <1>5, <1>6, <1>7, Zenon DEF Next, ThreadNext, DaemonNext

(* What the thread believes to be shown is shown, for any number of        *)
(* clients that start, end, refuse and fall silent: what was last sent is  *)
(* forgotten with every connection that comes, and a clear counts only     *)
(* when every client took it.                                              *)
THEOREM ShownIsBelieved == Spec => []CacheIsTrue
<1>1. Init => CacheIsTrue
  BY DEF Init, CacheIsTrue
<1> QED  BY <1>1, TypeCorrect, CacheStep, PTL DEF Spec

----------------------------------------------------------------------------
(* The rate limit.                                                         *)

Sorted(ages) == \A i, j \in 1 .. Len(ages) : i <= j => ages[i] <= ages[j]

(* The newest n of the answered writes are the connection's own, each      *)
(* matched, at its place, by one in writes that is not older; the k-th     *)
(* lot of Tokens before them came before the k-th latest reopening.        *)
Own(n) ==
  /\ n <= Len(written) /\ n <= Len(writes)
  /\ \A i \in 1 .. n : writes[i] <= written[i]
  /\ \A i \in 1 .. Len(written), k \in Nat :
       i > n + Tokens * k => k + 1 <= Len(reopened) /\ reopened[k + 1] <= written[i]

RateInv ==
  /\ Sorted(writes) /\ Sorted(written) /\ Sorted(reopened)
  /\ \E n \in 0 .. Tokens : Own(n)

(* What is new comes first, and what is sorted stays so.                   *)
LEMMA NewestIsFirst ==
  ASSUME NEW ages \in Seq(Nat), Sorted(ages)
  PROVE  LET more == <<0>> \o ages
         IN  /\ more \in Seq(Nat) /\ Len(more) = Len(ages) + 1 /\ more[1] = 0
             /\ \A i \in 1 .. Len(ages) : more[i + 1] = ages[i]
             /\ Sorted(more)
<1> DEFINE more == <<0>> \o ages
<1>1. /\ more \in Seq(Nat) /\ Len(more) = Len(ages) + 1 /\ more[1] = 0
      /\ \A i \in 2 .. Len(more) : more[i] = ages[i - 1]
      /\ \A i \in 1 .. Len(ages) : more[i + 1] = ages[i]
  OBVIOUS
<1>2. Len(ages) \in Nat /\ \A i \in 1 .. Len(ages) : ages[i] \in Nat
  OBVIOUS
<1> HIDE DEF more
<1>3. Sorted(more)
  <2> SUFFICES ASSUME NEW i \in 1 .. Len(more), NEW j \in 1 .. Len(more), i <= j
               PROVE  more[i] <= more[j]
    BY DEF Sorted
  <2>1. CASE i = 1
    <3>1. more[j] \in Nat
      BY <1>1
    <3> QED  BY <1>1, <2>1, <3>1
  <2>2. CASE i # 1
    <3>1. /\ i \in 2 .. Len(more) /\ j \in 2 .. Len(more) /\ i - 1 <= j - 1
          /\ i - 1 \in 1 .. Len(ages) /\ j - 1 \in 1 .. Len(ages)
      BY <1>1, <1>2, <2>2
    <3>2. ages[i - 1] <= ages[j - 1]
      BY <3>1, Zenon DEF Sorted
    <3> QED  BY <1>1, <3>1, <3>2
  <2> QED  BY <2>1, <2>2
<1> QED  BY <1>1, <1>3 DEF more

(* Of what is sorted, exactly what is young stays.                         *)
LEMMA OlderOfSorted ==
  ASSUME NEW ages \in Seq(Nat), Sorted(ages)
  PROVE  /\ Sorted(Older(ages))
         /\ \A i \in 1 .. Len(ages) : i <= Len(Older(ages)) <=> ages[i] + 1 < Window
<1> DEFINE young == {k \in DOMAIN ages : ages[k] + 1 < Window}
           old == Older(ages)
<1>1. /\ old \in Seq(Nat) /\ Len(old) <= Len(ages) /\ Len(old) = Cardinality(young)
      /\ \A i \in 1 .. Len(old) : old[i] = ages[i] + 1
  BY OlderIsPrefix
<1>2. /\ DOMAIN ages = 1 .. Len(ages) /\ Len(ages) \in Nat /\ Window \in Nat
      /\ \A i \in 1 .. Len(ages) : ages[i] \in Nat
  <2>1. Window \in Nat
    BY DiscordAssumption
  <2>2. /\ DOMAIN ages = 1 .. Len(ages) /\ Len(ages) \in Nat
        /\ \A i \in 1 .. Len(ages) : ages[i] \in Nat
    OBVIOUS
  <2> QED  BY <2>1, <2>2
<1>3. Len(old) \in Nat
  BY <1>1
<1> HIDE DEF old
<1>4. \A i, j \in 1 .. Len(ages) : i <= j => ages[i] <= ages[j]
  BY Zenon DEF Sorted
<1>5. Sorted(old)
  <2> SUFFICES ASSUME NEW i \in 1 .. Len(old), NEW j \in 1 .. Len(old), i <= j
               PROVE  old[i] <= old[j]
    BY DEF Sorted
  <2>1. i \in 1 .. Len(ages) /\ j \in 1 .. Len(ages)
    BY <1>1, <1>2, <1>3
  <2>2. ages[i] <= ages[j] /\ ages[i] \in Nat /\ ages[j] \in Nat
    BY <1>2, <1>4, <2>1
  <2>3. old[i] = ages[i] + 1 /\ old[j] = ages[j] + 1
    BY <1>1, Zenon
  <2> QED  BY <2>2, <2>3
<1>6. ASSUME NEW i \in 1 .. Len(ages) PROVE i <= Len(old) <=> ages[i] + 1 < Window
  <2>1. /\ IsFiniteSet(young)
        /\ \A m \in 0 .. Len(ages) :
             IsFiniteSet(1 .. m) /\ Cardinality(1 .. m) = m
    <3>1. IsFiniteSet(1 .. Len(ages))
      BY FS_Interval
    <3>2. IsFiniteSet(young)
      BY <1>2, <3>1, FS_Subset
    <3>3. ASSUME NEW m \in 0 .. Len(ages)
          PROVE  IsFiniteSet(1 .. m) /\ Cardinality(1 .. m) = m
      <4>1. m \in Int /\ IsFiniteSet(1 .. m)
            /\ Cardinality(1 .. m) = IF 1 > m THEN 0 ELSE m - 1 + 1
        BY FS_Interval
      <4> QED  BY <4>1
    <3> QED  BY <3>2, <3>3
  <2>2. CASE ages[i] + 1 < Window
    <3>1. ASSUME NEW k \in 1 .. i PROVE k \in young
      <4>1. k \in 1 .. Len(ages) /\ k <= i
        BY <1>2
      <4>2. ages[k] <= ages[i] /\ ages[k] \in Nat /\ ages[i] \in Nat
        BY <1>2, <1>4, <4>1
      <4> QED  BY <1>2, <2>2, <4>1, <4>2
    <3>2. Cardinality(1 .. i) <= Cardinality(young)
      <4>1. 1 .. i \subseteq young
        BY <3>1
      <4> QED  BY <2>1, <4>1, FS_Subset
    <3>3. i \in 0 .. Len(ages)
      BY <1>2
    <3> QED  BY <1>1, <2>1, <2>2, <3>2, <3>3
  <2>3. CASE ~(ages[i] + 1 < Window)
    <3>1. ASSUME NEW k \in young PROVE k \in 1 .. (i - 1)
      <4>1. k \in 1 .. Len(ages) /\ ages[k] + 1 < Window
        BY <1>2
      <4>2. i <= k => ages[i] <= ages[k]
        BY <1>4, <4>1
      <4>3. ages[k] \in Nat /\ ages[i] \in Nat
        BY <1>2, <4>1
      <4> QED  BY <1>2, <2>3, <4>1, <4>2, <4>3
    <3>2. Cardinality(young) <= Cardinality(1 .. (i - 1))
      <4>1. young \subseteq 1 .. (i - 1)
        BY <3>1
      <4>2. i - 1 \in 0 .. Len(ages)
        BY <1>2
      <4> QED  BY <2>1, <4>1, <4>2, FS_Subset
    <3>3. i - 1 \in 0 .. Len(ages)
      BY <1>2
    <3>4. Cardinality(1 .. (i - 1)) = i - 1
      BY <2>1, <3>3
    <3>5. Len(old) <= i - 1
      BY <1>1, <3>2, <3>4
    <3> QED  BY <1>2, <1>3, <2>3, <3>5
  <2> QED  BY <2>2, <2>3
<1> QED  BY <1>5, <1>6 DEF old

LEMMA TokensAreNat == Tokens \in Nat /\ \A k \in Nat : Tokens * k \in Nat
<1>1. Tokens \in Nat
  BY DiscordAssumption
<1> QED  BY <1>1

(* The sequences of the rate limit and their lengths.                      *)
LEMMA RateTypes ==
  ASSUME writes \in Seq(Nat), written \in Seq(Nat), reopened \in Seq(Nat)
  PROVE  /\ Len(writes) \in Nat /\ Len(written) \in Nat /\ Len(reopened) \in Nat
         /\ \A i \in 1 .. Len(writes) : writes[i] \in Nat
         /\ \A i \in 1 .. Len(written) : written[i] \in Nat
         /\ \A i \in 1 .. Len(reopened) : reopened[i] \in Nat
  OBVIOUS

LEMMA RateFollows ==
  ASSUME written \in Seq(Nat), reopened \in Seq(Nat), RateInv
  PROVE  RateKept
<1>1. PICK n \in 0 .. Tokens : Own(n)
  BY Zenon DEF RateInv
<1> DEFINE i == Len(written)
           k == Len(reopened)
<1>2. i \in Nat /\ k \in Nat
  OBVIOUS
<1>3. \A j \in 1 .. i, m \in Nat : j > n + Tokens * m => m + 1 <= k
  BY <1>1, Zenon DEF Own
<1> HIDE DEF i, k
<1>4. i <= n + Tokens * k
  <2> SUFFICES ASSUME i > n + Tokens * k PROVE FALSE
    BY <1>2, TokensAreNat
  <2>1. i \in 1 .. i
    BY <1>2, TokensAreNat
  <2>2. k + 1 <= k
    BY <1>2, <1>3, <2>1
  <2> QED  BY <1>2, <2>2
<1>5. Tokens * (1 + k) = Tokens + Tokens * k
  BY <1>2, TokensAreNat
<1>6. i <= Tokens * (1 + k)
  BY <1>2, <1>4, <1>5, TokensAreNat
<1> QED  BY <1>6 DEF RateKept, i, k

LEMMA SpendKeepsRate ==
  ASSUME writes \in Seq(Nat), written \in Seq(Nat), reopened \in Seq(Nat), RateInv,
         NEW answer, NEW forced \in BOOLEAN, forced \/ HasToken, Spend(answer, forced),
         reopened' = reopened
  PROVE  RateInv'
<1> DEFINE spent == <<0>> \o writes
           more == <<0>> \o written
<1>1. /\ Len(spent) = Len(writes) + 1 /\ spent[1] = 0 /\ Sorted(spent)
      /\ spent \in Seq(Nat) /\ \A i \in 1 .. Len(writes) : spent[i + 1] = writes[i]
  BY NewestIsFirst DEF RateInv
<1>2. /\ Len(more) = Len(written) + 1 /\ more[1] = 0 /\ Sorted(more)
      /\ more \in Seq(Nat) /\ \A i \in 1 .. Len(written) : more[i + 1] = written[i]
  BY NewestIsFirst DEF RateInv
<1>3. PICK n \in 0 .. Tokens : Own(n)
  BY Zenon DEF RateInv
<1> HIDE DEF spent, more
<1>4. writes' = spent /\ reopened' = reopened
  BY Zenon DEF Spend, spent
<1>5. /\ n <= Len(written) /\ n <= Len(writes)
      /\ \A i \in 1 .. n : writes[i] <= written[i]
      /\ \A i \in 1 .. Len(written), k \in Nat :
           i > n + Tokens * k => k + 1 <= Len(reopened) /\ reopened[k + 1] <= written[i]
  BY <1>3, Zenon DEF Own
<1>6. Sorted(writes) /\ Sorted(written) /\ Sorted(reopened) /\ n \in Nat /\ n <= Tokens
  BY <1>3, TokensAreNat DEF RateInv
<1>7. CASE forced
  <2>1. written' = written
    BY <1>7, Zenon DEF Spend
  <2>2. ASSUME NEW i \in 1 .. n PROVE spent[i] <= written[i]
    <3>1. i \in 1 .. Len(writes) /\ i \in 1 .. Len(written) /\ writes[i] <= written[i]
      BY <1>5, <1>6, RateTypes
    <3>2. writes[i] \in Nat /\ written[i] \in Nat
      BY <3>1, RateTypes
    <3>3. CASE i = 1
      BY <1>1, <3>2, <3>3
    <3>4. CASE i # 1
      <4>1. i - 1 \in 1 .. Len(writes) /\ i - 1 <= i /\ (i - 1) + 1 = i
        BY <3>1, <3>4, RateTypes
      <4>2. writes[i - 1] <= writes[i]
        BY <1>6, <3>1, <4>1, Zenon DEF Sorted
      <4>3. spent[i] = writes[i - 1] /\ writes[i - 1] \in Nat
        BY <1>1, <4>1, RateTypes
      <4> QED  BY <3>1, <3>2, <4>2, <4>3
    <3> QED  BY <3>3, <3>4
  <2>3. n <= Len(spent)
    BY <1>1, <1>5, <1>6, RateTypes
  <2>4. Own(n)'
    BY <1>4, <1>5, <2>1, <2>2, <2>3, Zenon DEF Own
  <2> QED  BY <1>1, <1>3, <1>4, <1>6, <2>1, <2>4, Zenon DEF RateInv, Sorted
<1>8. CASE ~forced
  <2>1. written' = more
    BY <1>8, Zenon DEF Spend, more
  <2>2. n + 1 \in 0 .. Tokens
    BY <1>5, <1>6, <1>8, RateTypes, TokensAreNat DEF HasToken
  <2>3. ASSUME NEW i \in 1 .. (n + 1) PROVE spent[i] <= more[i]
    <3>1. CASE i = 1
      BY <1>1, <1>2, <3>1
    <3>2. CASE i # 1
      <4>1. /\ i - 1 \in 1 .. n /\ i - 1 \in 1 .. Len(writes) /\ i - 1 \in 1 .. Len(written)
            /\ (i - 1) + 1 = i
        BY <1>5, <1>6, <3>2, RateTypes
      <4>2. spent[i] = writes[i - 1] /\ more[i] = written[i - 1]
        BY <1>1, <1>2, <4>1
      <4> QED  BY <1>5, <4>1, <4>2
    <3> QED  BY <3>1, <3>2
  <2>4. n + 1 <= Len(more) /\ n + 1 <= Len(spent)
    BY <1>1, <1>2, <1>5, <1>6, RateTypes
  <2>5. ASSUME NEW i \in 1 .. Len(more), NEW k \in Nat, i > (n + 1) + Tokens * k
        PROVE  k + 1 <= Len(reopened) /\ reopened[k + 1] <= more[i]
    <3>1. /\ i - 1 \in 1 .. Len(written) /\ i - 1 > n + Tokens * k /\ (i - 1) + 1 = i
      <4> DEFINE lot == Tokens * k
      <4>1. lot \in Nat
        BY TokensAreNat
      <4> HIDE DEF lot
      <4>2. i > (n + 1) + lot
        BY <2>5 DEF lot
      <4>3. i \in 1 .. (Len(written) + 1) /\ Len(written) \in Nat
        BY <1>2, RateTypes
      <4>4. i - 1 \in 1 .. Len(written) /\ i - 1 > n + lot /\ (i - 1) + 1 = i
        BY <1>6, <4>1, <4>2, <4>3
      <4> QED  BY <4>4 DEF lot
    <3>2. more[i] = written[i - 1]
      BY <1>2, <3>1
    <3> QED  BY <1>5, <3>1, <3>2
  <2>6. Own(n + 1)'
    BY <1>4, <2>1, <2>3, <2>4, <2>5, Zenon DEF Own
  <2> QED  BY <1>1, <1>2, <1>4, <1>6, <2>1, <2>2, <2>6, Zenon DEF RateInv, Sorted
<1> QED  BY <1>7, <1>8

(* A write that is too old to count is older than the reopening that let   *)
(* it, so that both are dropped together.                                  *)
LEMMA TickKeepsRate ==
  ASSUME writes \in Seq(Nat), written \in Seq(Nat), reopened \in Seq(Nat), RateInv, Tick
  PROVE  RateInv'
<1> DEFINE w == Older(writes)
           a == Older(written)
           o == Older(reopened)
<1>1. /\ w \in Seq(Nat) /\ Len(w) <= Len(writes)
      /\ \A i \in 1 .. Len(w) : w[i] = writes[i] + 1
      /\ Sorted(w)
      /\ \A i \in 1 .. Len(writes) : i <= Len(w) <=> writes[i] + 1 < Window
  BY OlderIsPrefix, OlderOfSorted DEF RateInv
<1>2. /\ a \in Seq(Nat) /\ Len(a) <= Len(written)
      /\ \A i \in 1 .. Len(a) : a[i] = written[i] + 1
      /\ Sorted(a)
      /\ \A i \in 1 .. Len(written) : i <= Len(a) <=> written[i] + 1 < Window
  BY OlderIsPrefix, OlderOfSorted DEF RateInv
<1>3. /\ o \in Seq(Nat) /\ Len(o) <= Len(reopened)
      /\ \A i \in 1 .. Len(o) : o[i] = reopened[i] + 1
      /\ Sorted(o)
      /\ \A i \in 1 .. Len(reopened) : i <= Len(o) <=> reopened[i] + 1 < Window
  BY OlderIsPrefix, OlderOfSorted DEF RateInv
<1>4. Len(w) \in Nat /\ Len(a) \in Nat /\ Len(o) \in Nat
  BY <1>1, <1>2, <1>3
<1>5. PICK n \in 0 .. Tokens : Own(n)
  BY Zenon DEF RateInv
<1>6. writes' = w /\ written' = a /\ reopened' = o
  BY Zenon DEF Tick
<1> HIDE DEF w, a, o
<1>7. /\ n <= Len(written) /\ n <= Len(writes) /\ n \in Nat /\ n <= Tokens
      /\ \A i \in 1 .. n : writes[i] <= written[i]
      /\ \A i \in 1 .. Len(written), k \in Nat :
           i > n + Tokens * k => k + 1 <= Len(reopened) /\ reopened[k + 1] <= written[i]
  BY <1>5, TokensAreNat DEF Own
<1>m. PICK m \in Nat : m = Lesser(n, Len(a))
  BY <1>4, <1>7, LesserType
<1>8. /\ m \in Nat /\ m <= n /\ m <= Len(a) /\ (m < Len(a) => m = n)
      /\ m \in 0 .. Tokens
  BY <1>4, <1>7, <1>m, TokensAreNat DEF Lesser
<1>9. ASSUME NEW i \in 1 .. m
      PROVE  i <= Len(w) /\ w[i] <= a[i]
  <2>1. i \in 1 .. n /\ i \in 1 .. Len(a) /\ i \in 1 .. Len(written) /\ i \in 1 .. Len(writes)
    <3>1. Len(a) <= Len(written) /\ m <= n /\ m <= Len(a) /\ n <= Len(writes)
      BY <1>2, <1>7, <1>8
    <3>2. Len(a) \in Nat /\ Len(written) \in Nat /\ Len(writes) \in Nat /\ n \in Nat /\ m \in Nat
      BY <1>4, <1>7, <1>8, RateTypes
    <3> QED  BY <3>1, <3>2
  <2>2. writes[i] <= written[i] /\ writes[i] \in Nat /\ written[i] \in Nat /\ Window \in Nat
    BY <1>7, <2>1, RateTypes, DiscordAssumption
  <2>3. written[i] + 1 < Window
    BY <1>2, <2>1
  <2>4. writes[i] + 1 < Window
    BY <2>2, <2>3
  <2>5. i <= Len(w)
    BY <1>1, <2>1, <2>4
  <2>6. w[i] = writes[i] + 1 /\ a[i] = written[i] + 1
    BY <1>1, <1>2, <1>4, <2>1, <2>5
  <2> QED  BY <2>2, <2>5, <2>6
<1>10. m <= Len(w)
  <2>1. CASE m = 0
    BY <1>4, <2>1
  <2>2. CASE m # 0
    <3>1. m \in 1 .. m
      BY <1>8, <2>2
    <3> QED  BY <1>9, <3>1
  <2> QED  BY <2>1, <2>2
<1>11. ASSUME NEW i \in 1 .. Len(a), NEW k \in Nat, i > m + Tokens * k
       PROVE  k + 1 <= Len(o) /\ o[k + 1] <= a[i]
  <2>1. m = n
    BY <1>4, <1>8, <1>11, TokensAreNat
  <2>2. i \in 1 .. Len(written) /\ i > n + Tokens * k
    BY <1>2, <1>4, <1>11, <2>1, RateTypes
  <2>3. k + 1 <= Len(reopened) /\ reopened[k + 1] <= written[i]
    BY <1>7, <2>2
  <2>4. k + 1 \in 1 .. Len(reopened)
    BY <2>3, RateTypes
  <2>5. reopened[k + 1] \in Nat /\ written[i] \in Nat /\ Window \in Nat
    BY <2>2, <2>4, RateTypes, DiscordAssumption
  <2>6. written[i] + 1 < Window
    BY <1>2, <1>4, <2>2
  <2>7. k + 1 <= Len(o)
    <3>1. reopened[k + 1] + 1 < Window
      BY <2>3, <2>5, <2>6
    <3> QED  BY <1>3, <2>4, <3>1, Zenon
  <2>8. k + 1 \in 1 .. Len(o)
    BY <1>4, <2>4, <2>7
  <2>9. o[k + 1] = reopened[k + 1] + 1 /\ a[i] = written[i] + 1
    BY <1>2, <1>3, <2>8
  <2> QED  BY <2>3, <2>5, <2>7, <2>9
<1>12. Own(m)'
  BY <1>6, <1>8, <1>9, <1>10, <1>11, Zenon DEF Own
<1> QED  BY <1>1, <1>2, <1>3, <1>6, <1>8, <1>12, Zenon DEF RateInv, Sorted

(* The writes of the connection before become one more lot.                *)
LEMMA ReopenKeepsRate ==
  ASSUME writes \in Seq(Nat), written \in Seq(Nat), reopened \in Seq(Nat), RateInv, Reopen
  PROVE  RateInv'
<1> DEFINE more == <<0>> \o reopened
<1>1. /\ Len(more) = Len(reopened) + 1 /\ more[1] = 0 /\ Sorted(more)
      /\ more \in Seq(Nat) /\ \A i \in 1 .. Len(reopened) : more[i + 1] = reopened[i]
  BY NewestIsFirst DEF RateInv
<1>2. writes' = <<>> /\ written' = written /\ reopened' = more
  BY Zenon DEF Reopen
<1>3. PICK n \in 0 .. Tokens : Own(n)
  BY Zenon DEF RateInv
<1> HIDE DEF more
<1>4. \A i \in 1 .. Len(written), k \in Nat :
        i > n + Tokens * k => k + 1 <= Len(reopened) /\ reopened[k + 1] <= written[i]
  BY <1>3, Zenon DEF Own
<1>5. ASSUME NEW i \in 1 .. Len(written), NEW k \in Nat, i > 0 + Tokens * k
      PROVE  k + 1 <= Len(more) /\ more[k + 1] <= written[i]
  <2>1. written[i] \in Nat
    BY RateTypes
  <2>2. CASE k = 0
    BY <1>1, <2>1, <2>2, RateTypes
  <2>3. CASE k # 0
    <3>1. k - 1 \in Nat /\ (k - 1) + 1 = k
      BY <2>3
    <3>2. Tokens * k = Tokens + Tokens * (k - 1)
      BY <3>1, TokensAreNat
    <3>3. i > n + Tokens * (k - 1)
      BY <1>5, <3>1, <3>2, TokensAreNat
    <3>4. k <= Len(reopened) /\ reopened[k] <= written[i]
      BY <1>4, <3>1, <3>3
    <3>5. k \in 1 .. Len(reopened)
      BY <2>3, <3>4, RateTypes
    <3>6. more[k + 1] = reopened[k]
      BY <1>1, <3>5
    <3> QED  BY <1>1, <3>4, <3>5, <3>6, RateTypes
  <2> QED  BY <2>2, <2>3
<1>6. Own(0)'
  <2>1. Len(written) \in Nat /\ Len(<<>>) = 0
    BY RateTypes
  <2>2. 0 <= Len(written) /\ 0 <= Len(<<>>) /\ 1 .. 0 = {}
    BY <2>1
  <2> QED  BY <1>2, <1>5, <2>2 DEF Own
<1>7. Sorted(<<>>) /\ Sorted(written) /\ 0 \in 0 .. Tokens
  BY TokensAreNat DEF Sorted, RateInv
<1> QED  BY <1>1, <1>2, <1>6, <1>7, Zenon DEF RateInv, Sorted

LEMMA RateFrame ==
  ASSUME RateInv, UNCHANGED <<writes, written, reopened>>
  PROVE  RateInv'
  BY DEF RateInv, Sorted, Own

LEMMA SendKeepsRate ==
  ASSUME writes \in Seq(Nat), written \in Seq(Nat), reopened \in Seq(Nat), RateInv,
         NEW what, NEW forced \in BOOLEAN, Send(what, forced), reopened' = reopened
  PROVE  RateInv'
<1>1. CASE UNCHANGED <<writes, written>>
  BY <1>1, RateFrame
<1>2. CASE (forced \/ HasToken) /\ \E answer : Spend(answer, forced)
  BY <1>2, SpendKeepsRate
<1>3. ASSUME NEW answer, SendClear(answer, forced) \/ SendUpdate(what, answer, forced)
      PROVE  Spend(answer, forced) \/ UNCHANGED <<writes, written>>
  BY <1>3, Zenon DEF SendClear, SendUpdate
<1>4. \/ UNCHANGED <<open, shows, denied, presences, dialVars, fault, last, sentAge, cleared,
                     writes, refused, written, events>>
      \/ /\ forced \/ HasToken
         /\ \E answer : SendClear(answer, forced) \/ SendUpdate(what, answer, forced)
  BY SendCases
<1> QED  BY <1>1, <1>2, <1>3, <1>4

LEMMA RateStep == TypeOK /\ RateInv /\ [Next]_vars => RateInv'
<1> SUFFICES ASSUME TypeOK, RateInv, [Next]_vars PROVE RateInv'
  OBVIOUS
<1>a. writes \in Seq(Nat) /\ written \in Seq(Nat) /\ reopened \in Seq(Nat)
  BY TypeParts DEF SentTypes, GhostTypes
<1>1. CASE Pump
  <2> DEFINE what == IF job = Clear THEN Clear ELSE pending
             forced == job = Clear /\ force
  <2>1. forced \in BOOLEAN
    OBVIOUS
  <2>2. Send(what, forced) /\ reopened' = reopened
    BY <1>1, Zenon DEF Pump
  <2> HIDE DEF what, forced
  <2> QED  BY <1>a, <2>1, <2>2, SendKeepsRate
<1>2. CASE Tick
  BY <1>a, <1>2, TickKeepsRate
<1>3. CASE Reopen
  BY <1>a, <1>3, ReopenKeepsRate
<1>4. CASE \/ Take \/ Dial \/ DialFor \/ Leave
           \/ PollFlag \/ PollPost \/ HoldBack \/ Quit \/ Close \/ Renew
           \/ (\E what \in Songs \cup {Clear} : Play(what)) \/ (\E on \in BOOLEAN : Share(on))
           \/ (\E c \in Clients : \E to \in {"gone", "starting", "ready"} : DiscordMoves(c, to))
           \/ UNCHANGED vars
  <2>1. EnsureConnected => writes' = writes
    BY Zenon DEF EnsureConnected
  <2>2. UNCHANGED <<writes, written, reopened>>
    BY <1>4, <2>1 DEF Take, Dial, DialFor, Leave, PollFlag, PollPost, HoldBack, Quit, Close, Renew, Play, Share,
                DiscordMoves, vars, sentVars, ghosts
  <2> QED  BY <2>2, RateFrame
<1> QED  BY <1>1, <1>2, <1>3, <1>4, Zenon DEF Next, ThreadNext, DaemonNext

(* However songs change and writes fail or are refused, Discord answers no *)
(* more than Tokens writes in a window, and Tokens more for each connection*)
(* opened anew in it, the clear on the way out aside.                      *)
THEOREM RateIsKept == Spec => []RateKept
<1>1. Init => RateInv
  <2> SUFFICES ASSUME Init PROVE RateInv
    OBVIOUS
  <2>1. writes = <<>> /\ written = <<>> /\ reopened = <<>>
    BY Zenon DEF Init
  <2>2. Len(<<>>) = 0 /\ 1 .. 0 = {}
    OBVIOUS
  <2>3. Sorted(<<>>) /\ Own(0) /\ 0 \in 0 .. Tokens
    BY <2>1, <2>2, TokensAreNat DEF Sorted, Own
  <2> QED  BY <2>1, <2>3, Zenon DEF RateInv
<1>2. TypeOK /\ RateInv => RateKept
  BY RateFollows DEF TypeOK
<1> QED  BY <1>1, <1>2, TypeCorrect, RateStep, PTL DEF Spec

----------------------------------------------------------------------------
(* Sharing is off.                                                         *)

Quiet == {Clear, None}

(* Nothing is left to be shown once the thread has taken the clear: its    *)
(* pending song is replaced before it looks at the inbox again.            *)
HushInv ==
  /\ daemon = "polling" => sharingOff = ~sharing
  /\ hushed =>
       /\ sharingOff
       /\ inbox \in Quiet /\ job \in Quiet
       /\ pending \in Quiet \/ (job = Clear /\ pc \in {"took", "dialled"})
       /\ pc # "linked"

LEMMA QuietIsNoSong == Quiet \cap Songs = {}
  BY DiscordAssumption DEF Quiet

LEMMA HushStep == TypeOK /\ HushInv /\ [Next]_vars => HushInv'
<1> SUFFICES ASSUME TypeOK, HushInv, [Next]_vars PROVE HushInv'
  OBVIOUS
<1>a. TurnTypes /\ hushed \in BOOLEAN
  BY TypeParts DEF GhostTypes
<1>1. CASE Take
  <2>1. /\ job' = inbox /\ inbox' = None /\ pc' = "took" /\ pc = "waiting"
        /\ hushed' = (hushed \/ (sharingOff /\ inbox = Clear))
        /\ UNCHANGED <<daemon, sharing, sharingOff, pending>>
    BY <1>1 DEF Take, userVars, sentVars
  <2> QED  BY <2>1 DEF HushInv, Quiet
<1>2. CASE Dial
  <2>1. pc = "took" /\ pc' = "dialled" /\ UNCHANGED <<daemon, sharing, sharingOff, inbox, job, pending, hushed>>
    BY <1>2 DEF Dial, userVars, postVars, ghosts
  <2> QED  BY <2>1 DEF HushInv
<1>3. CASE DialFor
  <2>1. job \in Songs /\ UNCHANGED <<daemon, sharing, sharingOff, hushed>>
    BY <1>3 DEF DialFor, userVars, postVars, ghosts
  <2> QED  BY <2>1, QuietIsNoSong DEF HushInv
<1>4. CASE Pump
  <2> DEFINE what == IF job = Clear THEN Clear ELSE pending
             forced == job = Clear /\ force
  <2>1. /\ Send(what, forced) /\ pc' = "waiting" /\ job' = None
        /\ UNCHANGED <<userVars, daemon, postVars, hushed>>
    BY <1>4, Zenon DEF Pump
  <2>2. hushed => what \in Quiet
    BY DEF HushInv, Quiet
  <2> HIDE DEF what, forced
  <2>3. ASSUME NEW answer, what \in Quiet, what # None,
               \/ what = Clear /\ SendClear(answer, forced)
               \/ what # Clear /\ SendUpdate(what, answer, forced)
        PROVE  pending' \in Quiet
    <3>1. SendClear(answer, forced)
      BY <2>3 DEF Quiet
    <3> QED  BY <3>1 DEF SendClear, Quiet
  <2>4. \/ pending' \in {what, None}
        \/ \E answer : /\ what # None
                       /\ \/ what = Clear /\ SendClear(answer, forced)
                          \/ what # Clear /\ SendUpdate(what, answer, forced)
    BY <2>1, SendCases
  <2>5. hushed => pending' \in Quiet
    BY <2>2, <2>3, <2>4 DEF Quiet
  <2> QED  BY <2>1, <2>5 DEF HushInv, userVars, postVars, Quiet
<1>5. CASE Leave
  <2>1. pending' = None /\ pc' = "ended" /\ UNCHANGED <<daemon, sharing, sharingOff, inbox, job, hushed>>
    BY <1>5 DEF Leave, userVars, postVars, ghosts
  <2> QED  BY <2>1 DEF HushInv, Quiet
<1>6. CASE PollFlag
  <2>1. /\ sharingOff' = ~sharing /\ hushed' = (hushed /\ ~sharing)
        /\ UNCHANGED <<sharing, inbox, pc, job, pending>>
    BY <1>6 DEF PollFlag, userVars, turnVars, sentVars
  <2> QED  BY <1>a, <2>1 DEF HushInv, TurnTypes
<1>7. CASE PollPost
  <2>1. /\ daemon = "polling" /\ daemon' = "idle" /\ inbox' = (IF sharing THEN wanted ELSE Clear)
        /\ UNCHANGED <<sharing, sharingOff, pc, job, pending, hushed>>
    BY <1>7 DEF PollPost, userVars, turnVars, sentVars, ghosts
  <2> QED  BY <1>a, <2>1 DEF HushInv, Quiet, TurnTypes
<1>8. CASE HoldBack \/ Close \/ Renew
  <2>1. /\ daemon' # "polling"
        /\ UNCHANGED <<sharing, sharingOff, inbox, pc, job, pending, hushed>>
    BY <1>8 DEF HoldBack, Close, Renew, userVars, postVars, turnVars, sentVars, ghosts
  <2> QED  BY <2>1 DEF HushInv
<1>9. CASE Quit
  <2>1. daemon' # "polling" /\ inbox' = Clear /\ UNCHANGED <<sharing, sharingOff, pc, job, pending, hushed>>
    BY <1>9 DEF Quit, userVars, turnVars, sentVars, ghosts
  <2> QED  BY <2>1 DEF HushInv, Quiet
<1>10. CASE Reopen
  <2>1. daemon' = "idle" /\ hushed' = FALSE
    BY <1>10, Zenon DEF Reopen
  <2> QED  BY <2>1 DEF HushInv
<1>11. CASE (\E what \in Songs \cup {Clear} : Play(what)) \/ (\E on \in BOOLEAN : Share(on))
  <2>1. daemon = "idle" /\ UNCHANGED <<daemon, sharingOff, inbox, pc, job, pending, hushed>>
    BY <1>11 DEF Play, Share, postVars, turnVars, sentVars, ghosts
  <2> QED  BY <2>1 DEF HushInv
<1>12. CASE \/ \E c \in Clients : \E to \in {"gone", "starting", "ready"} : DiscordMoves(c, to)
            \/ Tick \/ UNCHANGED vars
  <2>1. UNCHANGED <<daemon, sharing, sharingOff, inbox, pc, job, pending, hushed>>
    BY <1>12 DEF DiscordMoves, Tick, vars, userVars, postVars, turnVars, sentVars, ghosts
  <2> QED  BY <2>1 DEF HushInv
<1> QED
  BY <1>1, <1>2, <1>3, <1>4, <1>5, <1>6, <1>7, <1>8, <1>9, <1>10, <1>11, <1>12, Zenon
     DEF Next, ThreadNext, DaemonNext

(* What a write of a clear does to the connections.                        *)
LEMMA ClearOnlyHides ==
  ASSUME LinkTypes, CacheIsTrue, NEW answer, NEW forced,
         \A c \in presences : answer[c] \in SendAnswers(c), SendClear(answer, forced)
  PROVE  open' \subseteq open /\ \A c \in Clients : shows'[c] \in {shows[c], None}
<1>1. Written(answer, None)
  BY Zenon DEF SendClear
<1>2. open' \subseteq open
  BY <1>1, WrittenShows
<1>3. \A c \in Clients : shows'[c] \in {shows[c], None}
  BY <1>1 DEF Written
<1> QED  BY <1>2, <1>3

HushStays ==
  hushed /\ hushed' => open' \subseteq open /\ \A c \in Clients : shows'[c] \in {shows[c], None}

LEMMA HushedStep == TypeOK /\ CacheIsTrue /\ HushInv /\ [Next]_vars => HushStays
<1> SUFFICES ASSUME TypeOK, CacheIsTrue, HushInv, [Next]_vars, hushed, hushed'
             PROVE  open' \subseteq open /\ \A c \in Clients : shows'[c] \in {shows[c], None}
  BY DEF HushStays
<1>a. LinkTypes
  BY TypeParts
<1>1. CASE UNCHANGED <<open, shows>>
  BY <1>1
<1>2. CASE Dial
  <2>1. UNCHANGED discordVars
    BY <1>2, Zenon DEF Dial, HushInv
  <2> QED  BY <1>1, <2>1 DEF discordVars
<1>3. CASE DialFor
  BY <1>3, QuietIsNoSong DEF DialFor, HushInv
<1>4. CASE Pump
  <2> DEFINE what == IF job = Clear THEN Clear ELSE pending
             forced == job = Clear /\ force
  <2>1. Send(what, forced)
    BY <1>4, Zenon DEF Pump
  <2>2. what \in Quiet
    BY DEF HushInv, Quiet
  <2> HIDE DEF what, forced
  <2>3. ASSUME NEW answer, \A c \in presences : answer[c] \in SendAnswers(c),
               SendClear(answer, forced)
        PROVE  open' \subseteq open /\ \A c \in Clients : shows'[c] \in {shows[c], None}
    BY <1>a, <2>3, ClearOnlyHides
  <2>4. \/ UNCHANGED <<open, shows, denied, presences, dialVars, fault, last, sentAge, cleared,
                       writes, refused, written, events>>
        \/ \E answer : /\ \A c \in presences : answer[c] \in SendAnswers(c)
                       /\ what # None
                       /\ \/ what = Clear /\ SendClear(answer, forced)
                          \/ what # Clear /\ SendUpdate(what, answer, forced)
    BY <2>1, SendCases
  <2>5. \/ UNCHANGED <<open, shows>>
        \/ \E answer : /\ \A c \in presences : answer[c] \in SendAnswers(c)
                       /\ SendClear(answer, forced)
    BY <2>2, <2>4 DEF Quiet
  <2> QED  BY <1>1, <2>3, <2>5
<1>5. CASE Leave
  BY <1>5 DEF Leave
<1>6. CASE \E c \in Clients : \E to \in {"gone", "starting", "ready"} : DiscordMoves(c, to)
  BY <1>6, <1>a DEF DiscordMoves, LinkTypes
<1>7. CASE \/ Take \/ PollFlag \/ PollPost \/ HoldBack \/ Quit \/ Close \/ Renew \/ Reopen \/ Tick
           \/ (\E what \in Songs \cup {Clear} : Play(what)) \/ (\E on \in BOOLEAN : Share(on))
           \/ UNCHANGED vars
  <2>1. UNCHANGED <<open, shows>>
    BY <1>7 DEF Take, PollFlag, PollPost, HoldBack, Quit, Close, Renew, Reopen, Tick, Play, Share,
                vars, discordVars
  <2> QED  BY <1>1, <2>1
<1> QED
  BY <1>2, <1>3, <1>4, <1>5, <1>6, <1>7, Zenon DEF Next, ThreadNext, DaemonNext

(* With sharing off, and the clear taken, no connection is made and no     *)
(* song comes up, for any number of clients and songs.                     *)
THEOREM SharingOffIsQuiet == Spec => HushedStaysQuiet
<1>1. Init => HushInv
  BY DEF Init, HushInv
<1>2. HushStays <=> (hushed /\ hushed' =>
                       /\ open' \subseteq open
                       /\ \A c \in Clients : shows'[c] \in {shows[c], None})
  BY DEF HushStays
<1> QED  BY <1>1, <1>2, TypeCorrect, ShownIsBelieved, HushStep, HushedStep, PTL
         DEF Spec, HushedStaysQuiet
=============================================================================
