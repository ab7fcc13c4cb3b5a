--------------------------- MODULE IdentityProofs ---------------------------
(***************************************************************************)
(* Theorems about what an agent remembers of itself, for all values of the *)
(* constants: with the present client, with the older one, and in the      *)
(* vault under the present one.                                            *)
(***************************************************************************)
EXTENDS MCServices, Integers, TLAPS

(* The present client *)

ProfileDocument == Seq(1 .. MaxEdits) \cup {NoDocument}
CallPlace == {"idle", "reading", "read", "reading vault", "vault read", "vaulting", "writing"}
CallState == [pc : CallPlace, edit : 0 .. MaxEdits, value : ProfileDocument, cold : BOOLEAN]

\* A document, if there is one, has every edit that was acknowledged.
Carries(document) == document = NoDocument \/ acked \subseteq EditsOf(document)

\* The copy that outlives the process, and with a vault a read of Ensue that fails.
Kept == IF useStoracha THEN vault ELSE ensue

\* What a call that is alone has in hand.
CallHolds(c) ==
  /\ At(c, "read") =>
       Carries(call[c].value) /\ (~useStoracha => acked \subseteq EditsOf(call[c].value))
  /\ At(c, "reading vault") => useStoracha
  /\ At(c, "vault read") => useStoracha /\ acked \subseteq EditsOf(call[c].value)
  /\ call[c].pc \in {"vaulting", "writing"} =>
       /\ acked \cup {call[c].edit} \subseteq EditsOf(call[c].value)
       /\ cache # NoDocument => call[c].edit \in EditsOf(cache)
  /\ At(c, "writing") /\ useStoracha => call[c].edit \in EditsOf(vault)

Sequential == sequential /\ faults = 0

\* What holds as long as callers wait for each other and no call fails.
EditsKept ==
  /\ \A c, d \in Call : ~At(c, "idle") /\ ~At(d, "idle") => c = d
  /\ Carries(cache) /\ Carries(ensue) /\ acked \subseteq EditsOf(Kept)
  /\ \A document \in repopulating : acked \subseteq EditsOf(document)
  /\ \A c \in Call : CallHolds(c)

ProfileTyped ==
  /\ cache \in ProfileDocument /\ ensue \in ProfileDocument /\ vault \in ProfileDocument
  /\ repopulating \subseteq Seq(1 .. MaxEdits)
  /\ call \in [Call -> CallState]
  /\ edits \in 0 .. MaxEdits /\ acked \subseteq 1 .. edits
  /\ faults \in Nat /\ rekeys \in Nat

\* What a call has in hand, however others overlap with it.
CallTyped(k) ==
  /\ k.edit <= edits
  /\ k.pc \in {"reading", "read", "reading vault", "vault read"} => k.cold
  /\ k.pc \in {"vaulting", "writing"} => k.edit # 0

\* The inductive invariant of ProfileInv.
ProfileIInv ==
  /\ ProfileTyped
  /\ \A c \in Call : CallTyped(call[c])
  /\ ~useStoracha => vault = NoDocument
  /\ Sequential => EditsKept

LEMMA ProfileNames ==
  /\ NoCall \in CallState /\ NoCall.pc = "idle" /\ NoCall.edit = 0 /\ NoCall.cold = FALSE
  /\ << >> \in Seq(1 .. MaxEdits) /\ EditsOf(<< >>) = {} /\ EditsOf(NoDocument) = {}
<1>1. NoCall \in CallState /\ NoCall.pc = "idle" /\ NoCall.edit = 0 /\ NoCall.cold = FALSE
  BY ProfileAssumption DEF NoCall, CallState, CallPlace, ProfileDocument
<1>2. << >> \in Seq(1 .. MaxEdits) /\ EditsOf(<< >>) = {}
  BY ProfileAssumption DEF EditsOf, ToSet
<1> QED BY <1>1, <1>2 DEF EditsOf

LEMMA AppendAdds ==
  ASSUME NEW document \in Seq(1 .. MaxEdits), NEW e \in 1 .. MaxEdits
  PROVE  /\ Append(document, e) \in Seq(1 .. MaxEdits)
         /\ Append(document, e) # NoDocument /\ document # NoDocument
         /\ EditsOf(Append(document, e)) = EditsOf(document) \cup {e}
<1>1. /\ Append(document, e) \in Seq(1 .. MaxEdits)
      /\ Append(document, e) # NoDocument /\ document # NoDocument
  <2>1. Append(document, e) \in Seq(1 .. MaxEdits)
    OBVIOUS
  <2>2. NoDocument \notin Seq(1 .. MaxEdits)
    BY ProfileAssumption
  <2> QED BY <2>1, <2>2, Zenon
<1>2. /\ Len(Append(document, e)) = Len(document) + 1
      /\ \A i \in 1 .. Len(document) : Append(document, e)[i] = document[i]
      /\ Append(document, e)[Len(document) + 1] = e
  OBVIOUS
<1>3. ToSet(Append(document, e)) = ToSet(document) \cup {e}
  BY <1>1, <1>2 DEF ToSet
<1> QED BY <1>1, <1>3 DEF EditsOf

LEMMA ProfileInitHolds == ProfileInit => ProfileIInv
<1> SUFFICES ASSUME ProfileInit PROVE ProfileIInv
  OBVIOUS
<1>1. ProfileTyped
  BY ProfileNames, ProfileAssumption DEF ProfileInit, ProfileTyped, ProfileDocument
<1>2. \A c \in Call : CallTyped(call[c]) /\ At(c, "idle")
  <2>1. CallTyped(NoCall)
    BY ProfileNames DEF ProfileInit, CallTyped
  <2>2. \A c \in Call : call[c] = NoCall
    BY DEF ProfileInit
  <2> QED BY <2>1, <2>2, ProfileNames DEF At
<1>3. EditsKept
  <2>1. \A c \in Call : CallHolds(c)
    BY <1>2 DEF CallHolds, At
  <2>2. Carries(cache) /\ Carries(ensue) /\ acked \subseteq EditsOf(Kept) /\ repopulating = {}
    BY DEF ProfileInit, Carries
  <2> QED BY <1>2, <2>1, <2>2 DEF EditsKept
<1> QED BY <1>1, <1>2, <1>3 DEF ProfileInit, ProfileIInv

\* A call that takes a step: nothing is said of the others anew, and where callers
\* wait for each other there are none.
LEMMA StepOfCall ==
  ASSUME ProfileIInv, NEW c \in Call, NEW k \in CallState,
         call' = [call EXCEPT ![c] = k], MayBegin(c) \/ ~At(c, "idle"),
         UNCHANGED <<settings, rekeys>>, CallTyped(k)',
         edits' \in 0 .. MaxEdits, edits <= edits', acked' \subseteq 1 .. edits',
         faults' \in Nat, faults <= faults',
         cache' \in ProfileDocument, ensue' \in ProfileDocument,
         vault' \in ProfileDocument, useStoracha \/ vault' = vault,
         repopulating' \subseteq Seq(1 .. MaxEdits)
  PROVE  /\ ProfileTyped' /\ (\A d \in Call : CallTyped(call[d]))'
         /\ (~useStoracha => vault = NoDocument)' /\ call'[c] = k
         /\ Sequential' =>
              /\ Sequential /\ EditsKept
              /\ (\A d, e \in Call : ~At(d, "idle") /\ ~At(e, "idle") => d = e)'
              /\ \A d \in Call \ {c} : CallHolds(d)'
<1>1. call' \in [Call -> CallState] /\ call'[c] = k /\ \A d \in Call \ {c} : call'[d] = call[d]
  BY DEF ProfileIInv, ProfileTyped
<1>2. ProfileTyped'
  BY <1>1 DEF ProfileTyped, ProfileIInv
<1>3. \A d \in Call : CallTyped(call[d])'
  <2> SUFFICES ASSUME NEW d \in Call PROVE CallTyped(call[d])'
    OBVIOUS
  <2>1. CASE d = c
    BY <1>1, <2>1 DEF CallTyped
  <2>2. CASE d # c
    <3>1. call'[d] = call[d] /\ call[d] \in CallState /\ CallTyped(call[d])
      BY <1>1, <2>2 DEF ProfileIInv, ProfileTyped
    <3>2. call[d].edit \in Nat /\ edits \in Nat /\ edits' \in Nat
      BY <3>1 DEF CallState, ProfileIInv, ProfileTyped
    <3>3. PICK r \in CallState : r = call[d] /\ r = call'[d]
      BY <3>1
    <3>4. CallTyped(r) /\ r.edit \in Nat /\ edits \in Nat /\ edits' \in Nat
      BY <3>1, <3>2, <3>3
    <3>5. r.edit <= edits'
      <4>1. r.edit <= edits
        BY <3>4, Zenon DEF CallTyped
      <4> QED BY <3>4, <4>1
    <3>6. CallTyped(r)'
      BY <3>4, <3>5 DEF CallTyped
    <3> QED BY <3>3, <3>6 DEF CallTyped
  <2> QED BY <2>1, <2>2
<1>4. (~useStoracha => vault = NoDocument)'
  BY DEF ProfileIInv, settings
<1>5. ASSUME Sequential'
      PROVE  /\ Sequential /\ EditsKept
             /\ (\A d, e \in Call : ~At(d, "idle") /\ ~At(e, "idle") => d = e)'
             /\ \A d \in Call \ {c} : CallHolds(d)'
  <2>1. Sequential
    BY <1>5 DEF Sequential, settings, ProfileIInv, ProfileTyped
  <2>2. EditsKept
    BY <2>1 DEF ProfileIInv
  <2>3. \A d \in Call \ {c} : At(d, "idle")
    BY <2>1, <2>2 DEF EditsKept, Sequential, MayBegin
  <2>4. \A d \in Call \ {c} : At(d, "idle")'
    BY <1>1, <2>3 DEF At
  <2>5. \A d \in Call \ {c} : CallHolds(d)'
    BY <2>4 DEF CallHolds, At
  <2>6. (\A d, e \in Call : ~At(d, "idle") /\ ~At(e, "idle") => d = e)'
    BY <2>4
  <2> QED BY <2>1, <2>2, <2>5, <2>6
<1> QED BY <1>1, <1>2, <1>3, <1>4, <1>5

\* What every call has, whatever it is at.
LEMMA CallSays ==
  ASSUME ProfileIInv, NEW c \in Call
  PROVE  /\ call[c] \in CallState /\ CallTyped(call[c])
         /\ call[c].edit \in 0 .. MaxEdits /\ call[c].edit <= edits
         /\ call[c].value \in ProfileDocument /\ edits \in 0 .. MaxEdits
<1>1. call[c] \in CallState /\ CallTyped(call[c]) /\ edits \in 0 .. MaxEdits
  BY DEF ProfileIInv, ProfileTyped
<1>2. call[c].edit \in 0 .. MaxEdits /\ call[c].value \in ProfileDocument
  BY <1>1 DEF CallState
<1>3. call[c].edit <= edits
  BY <1>1, Zenon DEF CallTyped
<1> QED BY <1>1, <1>2, <1>3

LEMMA ColdCallTyped ==
  ASSUME NEW e \in 0 .. MaxEdits
  PROVE  [pc |-> "reading", edit |-> e, value |-> NoDocument, cold |-> TRUE] \in CallState
BY DEF CallState, CallPlace, ProfileDocument

LEMMA ExtendedCall ==
  ASSUME NEW e, NEW v
  PROVE  [NoCall EXCEPT !.pc = "vaulting", !.edit = e, !.value = v]
           = [pc |-> "vaulting", edit |-> e, value |-> v, cold |-> FALSE]
<1> DEFINE r == [NoCall EXCEPT !.pc = "vaulting", !.edit = e, !.value = v]
<1>1. NoCall = [pc |-> "idle", edit |-> 0, value |-> NoDocument, cold |-> FALSE]
  BY DEF NoCall
<1>2. r = [x \in {"pc", "edit", "value", "cold"} |-> r[x]]
  BY <1>1
<1>3. r.pc = "vaulting" /\ r.edit = e /\ r.value = v
  BY <1>1
<1>4. r.cold = FALSE
  BY <1>1, Zenon
<1> HIDE DEF r
<1>5. r = [pc |-> "vaulting", edit |-> e, value |-> v, cold |-> FALSE]
  BY <1>2, <1>3, <1>4
<1> QED BY <1>5 DEF r

LEMMA ColdCall ==
  ASSUME NEW e
  PROVE  [NoCall EXCEPT !.pc = "reading", !.edit = e, !.cold = TRUE]
           = [pc |-> "reading", edit |-> e, value |-> NoDocument, cold |-> TRUE]
<1> DEFINE r == [NoCall EXCEPT !.pc = "reading", !.edit = e, !.cold = TRUE]
<1>1. NoCall = [pc |-> "idle", edit |-> 0, value |-> NoDocument, cold |-> FALSE]
  BY DEF NoCall
<1>2. r = [x \in {"pc", "edit", "value", "cold"} |-> r[x]]
  BY <1>1
<1>3. r.pc = "reading" /\ r.edit = e /\ r.value = NoDocument
  BY <1>1
<1>4. r.cold = TRUE
  BY <1>1, Zenon
<1> HIDE DEF r
<1>5. r = [pc |-> "reading", edit |-> e, value |-> NoDocument, cold |-> TRUE]
  BY <1>2, <1>3, <1>4
<1> QED BY <1>5 DEF r

\* What is found, and extended if the call is to write.
LEMMA FoundSays ==
  ASSUME NEW c \in Call, NEW document \in Seq(1 .. MaxEdits), NEW e \in 0 .. MaxEdits,
         Found(c, document, e)
  PROVE  \E k \in CallState :
           /\ call' = [call EXCEPT ![c] = k]
           /\ cache' \in Seq(1 .. MaxEdits) /\ cache' # NoDocument
           /\ EditsOf(document) \subseteq EditsOf(cache')
           /\ \/ k.pc = "idle" /\ k.edit = 0
              \/ k.pc = "vaulting" /\ k.edit = e /\ e # 0 /\ k.value = cache'
                   /\ e \in EditsOf(cache')
<1>1. CASE e = 0
  BY <1>1, ProfileNames, ProfileAssumption DEF Found
<1>2. CASE e # 0
  <2> DEFINE k == [pc |-> "vaulting", edit |-> e, value |-> Append(document, e), cold |-> FALSE]
  <2>1. [NoCall EXCEPT !.pc = "vaulting", !.edit = e, !.value = Append(document, e)] = k
    BY ExtendedCall
  <2>2. cache' = Append(document, e) /\ call' = [call EXCEPT ![c] = k]
    BY <1>2, <2>1 DEF Found
  <2>3. e \in 1 .. MaxEdits
    BY <1>2, ProfileAssumption
  <2>4. k \in CallState
    BY <2>3, AppendAdds DEF CallState, CallPlace, ProfileDocument
  <2> QED BY <1>2, <2>2, <2>3, <2>4, AppendAdds
<1> QED BY <1>1, <1>2

\* A call that has found the document, with what it is to hold.
LEMMA FoundKeeps ==
  ASSUME ProfileIInv, NEW c \in Call, NEW document \in Seq(1 .. MaxEdits), NEW e \in 0 .. MaxEdits,
         Found(c, document, e), MayBegin(c) \/ ~At(c, "idle"), e <= edits',
         UNCHANGED <<settings, ensue, vault, acked, counters>>,
         edits' \in 0 .. MaxEdits, edits <= edits',
         repopulating' \subseteq repopulating \cup {document},
         Sequential => acked \subseteq EditsOf(document)
  PROVE  ProfileIInv'
<1>1. PICK k \in CallState :
           /\ call' = [call EXCEPT ![c] = k]
           /\ cache' \in Seq(1 .. MaxEdits) /\ cache' # NoDocument
           /\ EditsOf(document) \subseteq EditsOf(cache')
           /\ \/ k.pc = "idle" /\ k.edit = 0
              \/ k.pc = "vaulting" /\ k.edit = e /\ e # 0 /\ k.value = cache'
                   /\ e \in EditsOf(cache')
  BY FoundSays
<1>2. CallTyped(k)'
  <2>1. e <= edits' /\ 0 <= edits'
    BY DEF ProfileIInv, ProfileTyped
  <2>2. k.edit <= edits' /\ k.pc \in {"idle", "vaulting"} /\ (k.pc = "vaulting" => k.edit # 0)
    BY <1>1, <2>1
  <2> QED BY <2>2 DEF CallTyped
<1>3. /\ acked' \subseteq 1 .. edits' /\ faults' = faults /\ faults \in Nat /\ rekeys' = rekeys
      /\ cache' \in ProfileDocument /\ ensue' \in ProfileDocument /\ vault' \in ProfileDocument
      /\ repopulating' \subseteq Seq(1 .. MaxEdits)
  BY <1>1 DEF ProfileIInv, ProfileTyped, ProfileDocument, counters
<1>4. /\ ProfileTyped' /\ (\A d \in Call : CallTyped(call[d]))'
      /\ (~useStoracha => vault = NoDocument)' /\ call'[c] = k
      /\ Sequential' =>
           /\ Sequential /\ EditsKept
           /\ (\A d, f \in Call : ~At(d, "idle") /\ ~At(f, "idle") => d = f)'
           /\ \A d \in Call \ {c} : CallHolds(d)'
  <2>1. /\ UNCHANGED <<settings, rekeys>> /\ faults <= faults' /\ (useStoracha \/ vault' = vault)
        /\ faults' \in Nat /\ edits <= edits' /\ edits' \in 0 .. MaxEdits
    BY <1>3
  <2>2. call' = [call EXCEPT ![c] = k]
    BY <1>1
  <2> QED BY <1>2, <1>3, <2>1, <2>2, StepOfCall
<1>5. ASSUME Sequential' PROVE EditsKept'
  <2>1. Sequential /\ EditsKept /\ acked \subseteq EditsOf(document)
    BY <1>4, <1>5
  <2>2. acked' = acked /\ Carries(cache)' /\ Carries(ensue)' /\ (acked \subseteq EditsOf(Kept))'
    BY <1>1, <2>1 DEF EditsKept, Carries, Kept, settings
  <2>3. \A d \in repopulating' : acked' \subseteq EditsOf(d)
    BY <2>1 DEF EditsKept
  <2>4. CallHolds(c)'
    BY <1>1, <1>4, <2>1 DEF CallHolds, At
  <2>5. (\A d \in Call : CallHolds(d))'
    BY <1>4, <1>5, <2>4
  <2> QED BY <1>4, <1>5, <2>2, <2>3, <2>5 DEF EditsKept
<1> QED BY <1>4, <1>5 DEF ProfileIInv

LEMMA OnlyCallKeeps ==
  ASSUME ProfileIInv, NEW c \in Call, NEW k \in CallState,
         call' = [call EXCEPT ![c] = k], MayBegin(c) \/ ~At(c, "idle"),
         UNCHANGED <<settings, cache, ensue, vault, repopulating, acked, rekeys>>,
         edits' \in 0 .. MaxEdits, edits <= edits', faults' \in {faults, faults + 1},
         CallTyped(k)',
         (Sequential /\ faults' = faults /\ call'[c] = k) => CallHolds(c)'
  PROVE  ProfileIInv'
<1>1. /\ acked' \subseteq 1 .. edits' /\ faults' \in Nat /\ faults <= faults'
      /\ cache' \in ProfileDocument /\ ensue' \in ProfileDocument /\ vault' \in ProfileDocument
      /\ repopulating' \subseteq Seq(1 .. MaxEdits) /\ (useStoracha \/ vault' = vault)
      /\ UNCHANGED <<settings, rekeys>>
  BY DEF ProfileIInv, ProfileTyped
<1>2. /\ ProfileTyped' /\ (\A d \in Call : CallTyped(call[d]))'
      /\ (~useStoracha => vault = NoDocument)' /\ call'[c] = k
      /\ Sequential' =>
           /\ Sequential /\ EditsKept
           /\ (\A d, f \in Call : ~At(d, "idle") /\ ~At(f, "idle") => d = f)'
           /\ \A d \in Call \ {c} : CallHolds(d)'
  BY <1>1, StepOfCall
<1>3. ASSUME Sequential' PROVE EditsKept'
  <2>1. Sequential /\ EditsKept
    BY <1>2, <1>3
  <2>2. faults' = faults
    BY <1>1, <1>3, <2>1 DEF Sequential
  <2>3. CallHolds(c)'
    BY <1>2, <2>1, <2>2
  <2>4. (Carries(cache) /\ Carries(ensue) /\ acked \subseteq EditsOf(Kept))'
    BY <2>1 DEF EditsKept, Carries, Kept, settings
  <2>5. (\A d \in repopulating : acked \subseteq EditsOf(d))'
    BY <2>1 DEF EditsKept
  <2>6. (\A d \in Call : CallHolds(d))'
    BY <1>2, <1>3, <2>3
  <2> QED BY <1>2, <1>3, <2>4, <2>5, <2>6 DEF EditsKept
<1> QED BY <1>2, <1>3 DEF ProfileIInv

\* A call that is over, or that begins.
LEMMA LoadKeeps ==
  ASSUME ProfileIInv, NEW c \in Call, Load(c)
  PROVE  ProfileIInv'
<1> DEFINE k == [NoCall EXCEPT !.pc = "reading", !.cold = TRUE]
<1>1. k \in CallState /\ k.pc = "reading" /\ k.cold /\ k.edit = 0
  BY ProfileNames DEF NoCall, CallState, CallPlace
<1>2. call' = [call EXCEPT ![c] = k] /\ MayBegin(c)
      /\ UNCHANGED <<settings, cache, ensue, vault, repopulating, acked, rekeys, edits, faults>>
  BY DEF Load, counters
<1> HIDE DEF k
<1>3. edits' \in 0 .. MaxEdits /\ edits <= edits' /\ 0 <= edits'
  BY <1>2 DEF ProfileIInv, ProfileTyped
<1>4. CallTyped(k)'
  BY <1>1, <1>3 DEF CallTyped
<1>5. call'[c] = k => CallHolds(c)'
  BY <1>1 DEF CallHolds, At
<1> QED BY <1>1, <1>2, <1>3, <1>4, <1>5, OnlyCallKeeps

LEMMA SaveKeeps ==
  ASSUME ProfileIInv, NEW c \in Call, Save(c)
  PROVE  ProfileIInv'
<1>1. /\ edits \in Nat /\ edits + 1 \in 1 .. MaxEdits /\ edits' = edits + 1 /\ edits' \in 0 .. MaxEdits
      /\ edits <= edits' /\ MayBegin(c)
      /\ UNCHANGED <<settings, ensue, vault, repopulating, acked, counters>>
      /\ UNCHANGED <<rekeys, faults>>
  BY ProfileAssumption DEF Save, ProfileIInv, ProfileTyped, counters
<1>2. CASE cache # NoDocument
  <2>1. Found(c, cache, edits + 1) /\ cache \in Seq(1 .. MaxEdits)
    BY <1>2 DEF Save, ProfileIInv, ProfileTyped, ProfileDocument
  <2>2. Sequential => acked \subseteq EditsOf(cache)
    BY <1>2 DEF ProfileIInv, EditsKept, Carries
  <2>3. edits + 1 <= edits' /\ repopulating' \subseteq repopulating \cup {cache}
        /\ edits + 1 \in 0 .. MaxEdits
    BY <1>1
  <2> QED BY <1>1, <2>1, <2>2, <2>3, FoundKeeps
<1>3. CASE cache = NoDocument
  <2>1. PICK k \in CallState :
          /\ k = [pc |-> "reading", edit |-> edits + 1, value |-> NoDocument, cold |-> TRUE]
          /\ k.pc = "reading" /\ k.cold = TRUE /\ k.edit = edits + 1
    <3>1. edits + 1 \in 0 .. MaxEdits
      BY <1>1
    <3>2. [pc |-> "reading", edit |-> edits + 1, value |-> NoDocument, cold |-> TRUE] \in CallState
      BY <3>1, ColdCallTyped
    <3> QED BY <3>2
  <2>2. call' = [call EXCEPT ![c] = k] /\ cache' = cache
    <3>1. /\ call' = [call EXCEPT ![c] = [NoCall EXCEPT !.pc = "reading", !.edit = edits + 1,
                                                       !.cold = TRUE]]
          /\ cache' = cache
      BY <1>3, Zenon DEF Save
    <3> QED BY <2>1, <3>1, ColdCall
  <2>3. edits + 1 <= edits'
    BY <1>1
  <2>4. CallTyped(k)'
    BY <2>1, <2>3 DEF CallTyped
  <2>5. call'[c] = k => CallHolds(c)'
    BY <2>1 DEF CallHolds, At
  <2>6. UNCHANGED <<settings, cache, ensue, vault, repopulating, acked, rekeys>>
        /\ faults' \in {faults, faults + 1}
    BY <1>1, <2>2
  <2> QED BY <1>1, <2>1, <2>2, <2>4, <2>5, <2>6, OnlyCallKeeps
<1> QED BY <1>2, <1>3

\* A call that has read, from the memory or from the vault.
LEMMA ReadingKeeps ==
  ASSUME ProfileIInv, NEW c \in Call, readJsonFromEnsue(c) \/ readFromStoracha(c)
  PROVE  ProfileIInv'
<1>1. /\ call[c] \in CallState /\ CallTyped(call[c]) /\ ~At(c, "idle")
      /\ edits' \in 0 .. MaxEdits /\ edits <= edits' /\ edits' = edits
      /\ UNCHANGED <<settings, cache, ensue, vault, repopulating, acked, rekeys>>
      /\ faults' \in {faults, faults + 1}
  <2>1. call[c] \in CallState /\ CallTyped(call[c]) /\ edits \in 0 .. MaxEdits
    BY DEF ProfileIInv, ProfileTyped
  <2>2. ~At(c, "idle")
    BY DEF readJsonFromEnsue, readFromStoracha, At
  <2>3. /\ edits' = edits
        /\ UNCHANGED <<settings, cache, ensue, vault, repopulating, acked, rekeys>>
    BY DEF readJsonFromEnsue, readFromStoracha
  <2>4. faults' \in {faults, faults + 1}
    BY DEF readJsonFromEnsue, readFromStoracha, Fault
  <2> QED BY <2>1, <2>2, <2>3, <2>4
<1>2. call[c].cold = TRUE /\ call[c].pc \in {"reading", "reading vault"} /\ call[c].edit <= edits
  BY <1>1 DEF readJsonFromEnsue, readFromStoracha, At, CallTyped, CallState
<1>3. \E v \in ProfileDocument, to \in {"read", "vault read"} :
        /\ call' = [call EXCEPT ![c].pc = to, ![c].value = v]
        /\ to = "read" => At(c, "reading") /\ (faults' = faults => v = ensue \/ (v = NoDocument /\ useStoracha))
        /\ to = "vault read" => At(c, "reading vault") /\ (faults' = faults => v = vault)
  <2>1. ASSUME readJsonFromEnsue(c), call' = [call EXCEPT ![c].pc = "read", ![c].value = ensue]
        PROVE  <1>3
    BY <2>1 DEF readJsonFromEnsue, ProfileIInv, ProfileTyped
  <2>2. ASSUME readJsonFromEnsue(c), IF useStoracha THEN UNCHANGED faults ELSE Fault,
               call' = [call EXCEPT ![c].pc = "read", ![c].value = NoDocument]
        PROVE  <1>3
    <3>1. NoDocument \in ProfileDocument /\ (faults' = faults => useStoracha)
      BY <2>2 DEF Fault, ProfileIInv, ProfileTyped, ProfileDocument
    <3> QED BY <2>2, <3>1 DEF readJsonFromEnsue
  <2>3. ASSUME readFromStoracha(c), call' = [call EXCEPT ![c].pc = "vault read", ![c].value = vault]
        PROVE  <1>3
    BY <2>3 DEF readFromStoracha, ProfileIInv, ProfileTyped
  <2>4. ASSUME readFromStoracha(c), Fault, call' = [call EXCEPT ![c].pc = "vault read"]
        PROVE  <1>3
    <3>1. call' = [call EXCEPT ![c].pc = "vault read", ![c].value = call[c].value]
      BY <1>1, <2>4 DEF ProfileIInv, ProfileTyped, CallState
    <3>2. call[c].value \in ProfileDocument /\ faults' # faults
      <4>1. call[c].value \in ProfileDocument
        BY CallSays
      <4>2. faults' = faults + 1 /\ faults \in Nat
        BY <2>4 DEF Fault, ProfileIInv, ProfileTyped
      <4> QED BY <4>1, <4>2
    <3> QED BY <2>4, <3>1, <3>2 DEF readFromStoracha
  <2> QED BY <2>1, <2>2, <2>3, <2>4 DEF readJsonFromEnsue, readFromStoracha
<1>4. PICK v \in ProfileDocument, to \in {"read", "vault read"} :
        /\ call' = [call EXCEPT ![c].pc = to, ![c].value = v]
        /\ to = "read" => At(c, "reading") /\ (faults' = faults => v = ensue \/ (v = NoDocument /\ useStoracha))
        /\ to = "vault read" => At(c, "reading vault") /\ (faults' = faults => v = vault)
  BY <1>3
<1>5. PICK k : k = [call[c] EXCEPT !.pc = to, !.value = v] /\ call' = [call EXCEPT ![c] = k]
  BY <1>4 DEF ProfileIInv, ProfileTyped
<1>6. k \in CallState /\ k.pc = to /\ k.value = v /\ k.edit = call[c].edit /\ k.cold = TRUE
  BY <1>1, <1>2, <1>4, <1>5 DEF CallState, CallPlace
<1>7. CallTyped(k)'
  <2>1. k.edit <= edits' /\ k.pc \notin {"vaulting", "writing"} /\ k.cold
    BY <1>1, <1>2, <1>4, <1>6
  <2> QED BY <2>1 DEF CallTyped
<1>8. ASSUME Sequential, faults' = faults, call'[c] = k PROVE CallHolds(c)'
  <2>1. EditsKept /\ CallHolds(c)
    BY <1>8 DEF ProfileIInv, EditsKept
  <2>2. call'[c].pc = to /\ call'[c].value = v /\ useStoracha' = useStoracha /\ acked' = acked
    BY <1>1, <1>6, <1>8 DEF settings
  <2>3. CASE to = "read"
    <3>1. Carries(v)' /\ (~useStoracha => acked \subseteq EditsOf(v))
      BY <1>4, <1>8, <2>1, <2>2, <2>3 DEF EditsKept, Carries, Kept
    <3> QED BY <2>2, <2>3, <3>1 DEF CallHolds, At, Carries
  <2>4. CASE to = "vault read"
    <3>1. v = vault /\ useStoracha /\ acked \subseteq EditsOf(v)
      BY <1>4, <1>8, <2>1, <2>2, <2>4 DEF EditsKept, CallHolds, Kept
    <3> QED BY <2>2, <2>4, <3>1 DEF CallHolds, At
  <2> QED BY <1>4, <2>3, <2>4
<1> QED BY <1>1, <1>5, <1>6, <1>7, <1>8, OnlyCallKeeps

\* A call that goes on, with no more in hand than its edit.
LEMMA PcMoves ==
  ASSUME NEW k \in CallState, NEW to \in CallPlace
  PROVE  /\ [k EXCEPT !.pc = to] \in CallState
         /\ [k EXCEPT !.pc = to].pc = to /\ [k EXCEPT !.pc = to].edit = k.edit
         /\ [k EXCEPT !.pc = to].value = k.value /\ [k EXCEPT !.pc = to].cold = k.cold
BY DEF CallState

\* There is no document: a blank one is made, or remembered, or none.
LEMMA BlankKeeps ==
  ASSUME ProfileIInv, NEW c \in Call, ~At(c, "idle"), Blank(c), Sequential => acked = {},
         UNCHANGED <<settings, ensue, vault, repopulating, edits, acked, counters>>
  PROVE  ProfileIInv'
<1>1. /\ call[c].edit \in 0 .. MaxEdits /\ call[c].edit <= edits' /\ edits' \in 0 .. MaxEdits
      /\ edits <= edits' /\ UNCHANGED <<rekeys, faults>> /\ 0 <= edits'
  BY CallSays DEF counters
<1>2. CASE call[c].edit = 0 /\ ~blankCached
  <2>1. call' = [call EXCEPT ![c] = NoCall] /\ UNCHANGED cache
    BY <1>2 DEF Blank
  <2>2. CallTyped(NoCall)'
    BY <1>1, ProfileNames DEF CallTyped, NoCall
  <2>3. call'[c] = NoCall => CallHolds(c)'
    BY ProfileNames DEF CallHolds, At
  <2> QED BY <1>1, <2>1, <2>2, <2>3, ProfileNames, OnlyCallKeeps
<1>3. CASE ~(call[c].edit = 0 /\ ~blankCached)
  <2>1. PICK e \in 0 .. MaxEdits : e = call[c].edit /\ Found(c, << >>, e) /\ e <= edits'
    BY <1>1, <1>3 DEF Blank
  <2>2. << >> \in Seq(1 .. MaxEdits) /\ (Sequential => acked \subseteq EditsOf(<< >>))
    BY ProfileNames
  <2>3. repopulating' \subseteq repopulating \cup {<< >>}
    OBVIOUS
  <2> QED BY <1>1, <2>1, <2>2, <2>3, FoundKeeps
<1> QED BY <1>2, <1>3

LEMMA ReadKeeps ==
  ASSUME ProfileIInv, NEW c \in Call, Read(c) \/ ColdRead(c)
  PROVE  ProfileIInv'
<1>1. /\ call[c] \in CallState /\ CallTyped(call[c]) /\ ~At(c, "idle")
      /\ UNCHANGED <<settings, ensue, vault, edits, acked, counters>>
      /\ UNCHANGED <<rekeys, faults>> /\ (Sequential => EditsKept /\ CallHolds(c))
  BY DEF ProfileIInv, ProfileTyped, EditsKept, Read, ColdRead, At, counters
<1>2. /\ call[c].edit \in 0 .. MaxEdits /\ call[c].edit <= edits' /\ edits' \in 0 .. MaxEdits
      /\ edits <= edits' /\ call[c].value \in ProfileDocument
  BY <1>1, CallSays
<1>3. CASE /\ call[c].value = NoDocument /\ Blank(c) /\ UNCHANGED repopulating
           /\ ColdRead(c) \/ (Read(c) /\ ~useStoracha)
  <2>1. At(c, "vault read") \/ (At(c, "read") /\ ~useStoracha)
    BY <1>3 DEF Read, ColdRead
  <2>2. Sequential => acked = {}
    BY <1>1, <1>3, <2>1, ProfileNames DEF CallHolds
  <2> QED BY <1>1, <1>3, <2>2, BlankKeeps
<1>4. CASE /\ call[c].value # NoDocument /\ Found(c, call[c].value, call[c].edit)
           /\ repopulating' \subseteq repopulating \cup {call[c].value}
  <2>1. PICK d \in Seq(1 .. MaxEdits), e \in 0 .. MaxEdits :
          /\ d = call[c].value /\ e = call[c].edit /\ e <= edits'
          /\ repopulating' \subseteq repopulating \cup {d} /\ Found(c, d, e)
    BY <1>2, <1>4 DEF ProfileDocument
  <2>2. At(c, "read") \/ At(c, "vault read")
    BY DEF Read, ColdRead
  <2>3. Sequential => acked \subseteq EditsOf(d)
    BY <1>1, <1>4, <2>1, <2>2 DEF CallHolds, Carries
  <2> QED BY <1>1, <1>2, <2>1, <2>3, FoundKeeps
<1>5. CASE /\ Read(c) /\ useStoracha
           /\ call' = [call EXCEPT ![c].pc = "reading vault"] /\ UNCHANGED <<cache, repopulating>>
  <2>1. PICK k \in CallState : k = [call[c] EXCEPT !.pc = "reading vault"]
    BY <1>1, PcMoves DEF CallPlace
  <2>2. /\ call' = [call EXCEPT ![c] = k]
        /\ k.pc = "reading vault" /\ k.edit = call[c].edit /\ k.cold = call[c].cold
    BY <1>1, <1>5, <2>1, PcMoves DEF CallPlace, ProfileIInv, ProfileTyped
  <2>3. k.edit <= edits' /\ k.cold = TRUE
    BY <1>1, <1>2, <1>5, <2>2 DEF CallTyped, Read, At, CallState
  <2>4. CallTyped(k)'
    BY <2>2, <2>3 DEF CallTyped
  <2>5. call'[c] = k => CallHolds(c)'
    BY <1>1, <1>5, <2>2 DEF CallHolds, At, settings
  <2> QED BY <1>1, <1>2, <1>5, <2>1, <2>2, <2>4, <2>5, OnlyCallKeeps
<1>6. CASE Read(c)
  BY <1>3, <1>4, <1>5, <1>6 DEF Read
<1>7. CASE ColdRead(c)
  BY <1>3, <1>4, <1>7 DEF ColdRead
<1> QED BY <1>6, <1>7

LEMMA encryptAndVaultKeeps ==
  ASSUME ProfileIInv, NEW c \in Call, encryptAndVault(c)
  PROVE  ProfileIInv'
<1>1. /\ call[c] \in CallState /\ CallTyped(call[c]) /\ At(c, "vaulting") /\ ~At(c, "idle")
      /\ UNCHANGED <<settings, cache, ensue, repopulating, edits, acked, rekeys>>
      /\ UNCHANGED <<settings, rekeys>>
  BY DEF ProfileIInv, ProfileTyped, encryptAndVault, At
<1>2. /\ call[c].edit # 0 /\ call[c].edit <= edits' /\ edits' \in 0 .. MaxEdits
      /\ edits <= edits' /\ call[c].value \in ProfileDocument
  <2>1. call[c].edit # 0
    BY <1>1, Zenon DEF CallTyped, At
  <2> QED BY <1>1, <2>1, CallSays
<1>3. PICK k \in CallState : k = [call[c] EXCEPT !.pc = "writing"]
  BY <1>1, PcMoves DEF CallPlace
<1>4. /\ call' = [call EXCEPT ![c] = k]
      /\ k.pc = "writing" /\ k.edit = call[c].edit /\ k.value = call[c].value
  BY <1>1, <1>3, PcMoves DEF CallPlace, ProfileIInv, ProfileTyped, encryptAndVault
<1>5. CallTyped(k)'
  BY <1>2, <1>4 DEF CallTyped
<1>6. /\ faults' \in Nat /\ faults <= faults' /\ (useStoracha \/ vault' = vault)
      /\ faults' = faults => vault' = IF useStoracha THEN call[c].value ELSE vault
      /\ vault' \in ProfileDocument
  BY <1>2 DEF encryptAndVault, Fault, ProfileIInv, ProfileTyped
<1>7. /\ cache' \in ProfileDocument /\ ensue' \in ProfileDocument
      /\ repopulating' \subseteq Seq(1 .. MaxEdits) /\ acked' \subseteq 1 .. edits'
  BY <1>1 DEF ProfileIInv, ProfileTyped
<1>8. /\ ProfileTyped' /\ (\A d \in Call : CallTyped(call[d]))'
      /\ (~useStoracha => vault = NoDocument)' /\ call'[c] = k
      /\ Sequential' =>
           /\ Sequential /\ EditsKept
           /\ (\A d, f \in Call : ~At(d, "idle") /\ ~At(f, "idle") => d = f)'
           /\ \A d \in Call \ {c} : CallHolds(d)'
  BY <1>1, <1>2, <1>4, <1>5, <1>6, <1>7, StepOfCall
<1>9. ASSUME Sequential' PROVE EditsKept'
  <2>1. Sequential /\ EditsKept /\ CallHolds(c)
    BY <1>8, <1>9 DEF EditsKept
  <2>2. vault' = IF useStoracha THEN call[c].value ELSE vault
    BY <1>6, <1>9, <2>1 DEF Sequential
  <2>3. acked \cup {call[c].edit} \subseteq EditsOf(call[c].value)
        /\ (cache # NoDocument => call[c].edit \in EditsOf(cache))
    BY <1>1, <2>1 DEF CallHolds, At
  <2>4. (Carries(cache) /\ Carries(ensue) /\ acked \subseteq EditsOf(Kept))'
    BY <1>1, <2>1, <2>2, <2>3 DEF EditsKept, Carries, Kept, settings
  <2>5. (\A d \in repopulating : acked \subseteq EditsOf(d))'
    BY <1>1, <2>1 DEF EditsKept
  <2>6. CallHolds(c)'
    <3>1. /\ call'[c].pc = "writing" /\ call'[c].edit = call[c].edit
          /\ call'[c].value = call[c].value /\ useStoracha' = useStoracha
          /\ acked' = acked /\ cache' = cache
      BY <1>1, <1>4, <1>8 DEF settings
    <3>2. useStoracha => call[c].edit \in EditsOf(vault')
      BY <2>2, <2>3
    <3> QED BY <2>3, <3>1, <3>2 DEF CallHolds, At
  <2>7. (\A d \in Call : CallHolds(d))'
    BY <1>8, <1>9, <2>6
  <2> QED BY <1>8, <1>9, <2>4, <2>5, <2>7 DEF EditsKept
<1> QED BY <1>8, <1>9 DEF ProfileIInv

LEMMA writeJsonToEnsueKeeps ==
  ASSUME ProfileIInv, NEW c \in Call, writeJsonToEnsue(c)
  PROVE  ProfileIInv'
<1>1. /\ call[c] \in CallState /\ CallTyped(call[c]) /\ At(c, "writing") /\ ~At(c, "idle")
      /\ UNCHANGED <<settings, cache, vault, repopulating, edits, rekeys>>
      /\ UNCHANGED <<settings, rekeys>> /\ call' = [call EXCEPT ![c] = NoCall]
      /\ acked' = acked \cup {call[c].edit}
      /\ sequential => repopulating = {}
  BY DEF ProfileIInv, ProfileTyped, writeJsonToEnsue, At
<1>2. /\ call[c].edit # 0 /\ call[c].edit \in 1 .. edits' /\ edits' \in 0 .. MaxEdits
      /\ edits <= edits' /\ call[c].value \in ProfileDocument /\ 0 <= edits'
  <2>1. call[c].edit \in 0 .. MaxEdits /\ call[c].value \in ProfileDocument
    BY <1>1 DEF CallState
  <2>2. call[c].edit # 0 /\ call[c].edit <= edits
    BY <1>1 DEF CallTyped, At
  <2> QED BY <1>1, <2>1, <2>2 DEF ProfileIInv, ProfileTyped
<1>3. CallTyped(NoCall)' /\ NoCall \in CallState
  BY <1>2, ProfileNames DEF CallTyped, NoCall
<1>4. /\ faults' \in Nat /\ faults <= faults' /\ (useStoracha \/ vault' = vault)
      /\ faults' = faults => ensue' = call[c].value
      /\ ensue' \in ProfileDocument
  BY <1>1, <1>2 DEF writeJsonToEnsue, Fault, ProfileIInv, ProfileTyped
<1>5. /\ cache' \in ProfileDocument /\ vault' \in ProfileDocument
      /\ repopulating' \subseteq Seq(1 .. MaxEdits) /\ acked' \subseteq 1 .. edits'
  BY <1>1, <1>2 DEF ProfileIInv, ProfileTyped
<1>6. /\ ProfileTyped' /\ (\A d \in Call : CallTyped(call[d]))'
      /\ (~useStoracha => vault = NoDocument)' /\ call'[c] = NoCall
      /\ Sequential' =>
           /\ Sequential /\ EditsKept
           /\ (\A d, f \in Call : ~At(d, "idle") /\ ~At(f, "idle") => d = f)'
           /\ \A d \in Call \ {c} : CallHolds(d)'
  BY <1>1, <1>2, <1>3, <1>4, <1>5, StepOfCall
<1>7. ASSUME Sequential' PROVE EditsKept'
  <2>1. Sequential /\ EditsKept /\ CallHolds(c)
    BY <1>6, <1>7 DEF EditsKept
  <2>2. ensue' = call[c].value /\ repopulating' = {}
    BY <1>1, <1>4, <1>7, <2>1 DEF Sequential
  <2>3. /\ acked' \subseteq EditsOf(call[c].value)
        /\ cache # NoDocument => call[c].edit \in EditsOf(cache)
        /\ useStoracha => call[c].edit \in EditsOf(vault)
    BY <1>1, <2>1 DEF CallHolds, At
  <2>4. (Carries(cache) /\ Carries(ensue))'
    BY <1>1, <2>1, <2>2, <2>3 DEF EditsKept, Carries
  <2>5. (acked \subseteq EditsOf(Kept))'
    BY <1>1, <2>1, <2>2, <2>3 DEF EditsKept, Kept, settings
  <2>6. CallHolds(c)'
    BY <1>6, ProfileNames DEF CallHolds, At
  <2>7. (\A d \in Call : CallHolds(d))'
    BY <1>6, <1>7, <2>6
  <2> QED BY <1>6, <1>7, <2>2, <2>4, <2>5, <2>7 DEF EditsKept
<1> QED BY <1>6, <1>7 DEF ProfileIInv

LEMMA RepopulateKeeps ==
  ASSUME ProfileIInv, NEW document \in repopulating, Repopulate(document)
  PROVE  ProfileIInv'
<1>1. /\ UNCHANGED <<settings, cache, vault, call, edits, acked, counters>> /\ ensue' = document
      /\ repopulating' = repopulating \ {document} /\ UNCHANGED <<faults, rekeys>>
  BY DEF Repopulate, counters
<1>2. ProfileTyped'
  BY <1>1 DEF ProfileIInv, ProfileTyped, ProfileDocument
<1>3. (\A c \in Call : CallTyped(call[c]))'
  BY <1>1 DEF ProfileIInv, CallTyped
<1>4. (~useStoracha => vault = NoDocument)' /\ (Sequential' => Sequential)
  BY <1>1 DEF ProfileIInv, settings, Sequential
<1>5. ASSUME Sequential' PROVE EditsKept'
  <2>1. EditsKept /\ acked \subseteq EditsOf(document)
    BY <1>4, <1>5 DEF ProfileIInv, EditsKept
  <2>2. (\A c \in Call : CallHolds(c))' /\ (\A c, d \in Call : ~At(c, "idle") /\ ~At(d, "idle") => c = d)'
    BY <1>1, <2>1 DEF EditsKept, CallHolds, At, Carries, settings
  <2> QED BY <1>1, <2>1, <2>2 DEF EditsKept, Carries, Kept, settings
<1> QED BY <1>2, <1>3, <1>4, <1>5 DEF ProfileIInv

\* A worker that is started again, with its key or another.
LEMMA RestartKeeps ==
  ASSUME ProfileIInv, Restart \/ Rekey
  PROVE  ProfileIInv'
<1>1. /\ UNCHANGED <<settings, edits, faults>>
      /\ cache' = NoDocument /\ call' = [c \in Call |-> NoCall] /\ repopulating' = {}
      /\ \/ UNCHANGED <<ensue, vault, acked, rekeys>>
         \/ ensue' = NoDocument /\ vault' = NoDocument /\ acked' = {} /\ rekeys' = rekeys + 1
  <2>1. CASE Restart
    BY <2>1 DEF Restart
  <2>2. CASE Rekey
    BY <2>2 DEF Rekey
  <2> QED BY <2>1, <2>2
<1>2. ProfileTyped'
  <2>1. /\ NoDocument \in ProfileDocument /\ edits' = edits /\ edits \in 0 .. MaxEdits
        /\ faults' \in Nat /\ rekeys' \in Nat
    BY <1>1 DEF ProfileIInv, ProfileTyped, ProfileDocument
  <2>2. ensue' \in ProfileDocument /\ vault' \in ProfileDocument /\ acked' \subseteq 1 .. edits
    BY <1>1, <2>1 DEF ProfileIInv, ProfileTyped
  <2>3. cache' \in ProfileDocument /\ repopulating' \subseteq Seq(1 .. MaxEdits)
        /\ call' \in [Call -> CallState]
    BY <1>1, <2>1, ProfileNames
  <2> QED BY <2>1, <2>2, <2>3 DEF ProfileTyped
<1>3. (\A c \in Call : CallTyped(call[c]) /\ At(c, "idle"))'
  <2>1. edits' \in Nat
    BY <1>1 DEF ProfileIInv, ProfileTyped
  <2>2. CallTyped(NoCall)'
    BY <2>1, ProfileNames DEF CallTyped, NoCall
  <2> QED BY <1>1, <2>2, ProfileNames DEF At, CallTyped
<1>4. (~useStoracha => vault = NoDocument)'
  BY <1>1 DEF ProfileIInv, settings
<1>5. ASSUME Sequential' PROVE EditsKept'
  <2>1. Sequential /\ EditsKept
    BY <1>1, <1>5 DEF ProfileIInv, ProfileTyped, Sequential, settings
  <2>3. (Carries(cache) /\ Carries(ensue) /\ acked \subseteq EditsOf(Kept))'
    BY <1>1, <2>1 DEF EditsKept, Carries, Kept, settings
  <2>4. (\A c \in Call : CallHolds(c))'
    BY <1>3 DEF CallHolds, At
  <2> QED BY <1>1, <1>3, <2>3, <2>4 DEF EditsKept
<1> QED BY <1>2, <1>3, <1>4, <1>5 DEF ProfileIInv

LEMMA ProfileNextKeeps == ProfileIInv /\ [ProfileNext]_profileVars => ProfileIInv'
<1> SUFFICES ASSUME ProfileIInv, [ProfileNext]_profileVars PROVE ProfileIInv'
  OBVIOUS
<1>1. CASE ProfileNext
  BY <1>1, LoadKeeps, SaveKeeps, ReadingKeeps, ReadKeeps, encryptAndVaultKeeps,
     writeJsonToEnsueKeeps, RepopulateKeeps, RestartKeeps DEF ProfileNext
<1>2. CASE UNCHANGED profileVars
  <2>1. UNCHANGED <<settings, cache, ensue, vault, call, repopulating, edits, acked, counters>>
        /\ UNCHANGED <<faults, rekeys, useStoracha, sequential>>
    BY <1>2 DEF profileVars, counters, settings
  <2> QED BY <2>1 DEF ProfileIInv, ProfileTyped, CallTyped, Sequential, EditsKept, CallHolds, At,
                      Carries, Kept
<1> QED BY <1>1, <1>2

LEMMA ProfileHolds == ProfileIInv => ProfileInv
<1> SUFFICES ASSUME ProfileIInv PROVE ProfileInv
  OBVIOUS
<1>1. ProfileTypeOK
  BY ProfileAssumption DEF ProfileIInv, ProfileTyped, ProfileTypeOK, ProfileDocument, CallState, CallPlace
<1>2. SavedSurvives
  BY ProfileNames DEF SavedSurvives, ProfileIInv, Sequential, EditsKept, Carries, Kept
<1> QED BY <1>1, <1>2 DEF ProfileInv

\* An edit that was acknowledged is where the next load looks first, and in the vault
\* if there is one, over restarts with the same key and failing reads of Ensue that the
\* vault makes good, if callers wait for each other and no other call fails.
THEOREM ProfileCorrect == ProfileSpec => []ProfileInv
<1>1. ProfileSpec => []ProfileIInv
  BY ProfileInitHolds, ProfileNextKeeps, PTL DEF ProfileSpec
<1> QED BY <1>1, ProfileHolds, PTL

\* A step that takes an edit out of the cache, and not the cache away, is of a call that
\* found the document elsewhere: it began without a cache.
LEMMA CacheStep ==
  ASSUME ProfileIInv, [ProfileNext]_profileVars, cache # NoDocument, \A c \in Call : ~call[c].cold
  PROVE  cache' = NoDocument \/ EditsOf(cache) \subseteq EditsOf(cache')
<1>1. ASSUME NEW c \in Call PROVE ~Read(c) /\ ~ColdRead(c)
  BY <1>1, CallSays DEF CallTyped, Read, ColdRead, At
<1>2. CASE UNCHANGED cache
  BY <1>2
<1>3. ASSUME NEW c \in Call, Save(c) PROVE EditsOf(cache) \subseteq EditsOf(cache')
  <2>1. Found(c, cache, edits + 1) /\ cache \in Seq(1 .. MaxEdits)
    BY <1>3 DEF Save, ProfileIInv, ProfileTyped, ProfileDocument
  <2>2. edits + 1 \in 0 .. MaxEdits
    BY <1>3, ProfileAssumption DEF Save, ProfileIInv, ProfileTyped
  <2> QED BY <2>1, <2>2, FoundSays
<1>4. CASE Restart \/ Rekey
  BY <1>4 DEF Restart, Rekey
<1>5. ASSUME NEW c \in Call,
             Load(c) \/ readJsonFromEnsue(c) \/ readFromStoracha(c) \/ encryptAndVault(c)
               \/ writeJsonToEnsue(c)
      PROVE  UNCHANGED cache
  BY <1>5 DEF Load, readJsonFromEnsue, readFromStoracha, encryptAndVault, writeJsonToEnsue
<1>6. ASSUME NEW document \in repopulating, Repopulate(document) PROVE UNCHANGED cache
  BY <1>6 DEF Repopulate
<1>7. UNCHANGED profileVars => UNCHANGED cache
  BY DEF profileVars
<1> QED BY <1>1, <1>2, <1>3, <1>4, <1>5, <1>6, <1>7 DEF ProfileNext

\* Calls that began with a cache never take an edit out of it, however they overlap and fail.
THEOREM CacheAlwaysGrows == ProfileSpec => CacheGrows
<1>1. ProfileSpec => []ProfileIInv
  BY ProfileInitHolds, ProfileNextKeeps, PTL DEF ProfileSpec
<1>2. ProfileIInv /\ [ProfileNext]_profileVars =>
        [(cache # NoDocument /\ \A c \in Call : ~call[c].cold) =>
           cache' = NoDocument \/ EditsOf(cache) \subseteq EditsOf(cache')]_profileVars
  BY CacheStep
<1> QED BY <1>1, <1>2, PTL DEF ProfileSpec, CacheGrows

-----------------------------------------------------------------------------
(* The vault *)

Subject == Proposal \cup {EnsueTree}
TaskPlace == {"idle", "threw", "identity", "importing", "importing the rest", "creating",
              "modules", "lit", "client", "sending", "listing", "trying", "archiving", "logging"}
TaskState == [pc : TaskPlace, op : {"getAgentDid", "vault", "retrieve", "backup", "build"},
              half : BOOLEAN, gateway : 0 .. Gateways, attempt : 0 .. RetriesPerGateway,
              failures : Nat, subject : Subject, cid : Nat]

\* How many failures n gateways are worth, and whether the primary is lost.
Worth(n) == RetriesPerGateway * n
Lost == IF encryptedClientPromise = "rejected" THEN 1 ELSE 0

\* Each attempt before the present one failed by a failure of its own, those at the
\* primary gateway perhaps excepted.
Tried(r) ==
  r.failures >= IF r.pc = "threw" THEN Worth(Gateways - Lost)
                ELSE Worth(r.gateway - 1 - Lost) + r.attempt - 1

SomeRejected ==
  loadPromise = "rejected" \/ litClientPromise = "rejected" \/ encryptedClientPromise = "rejected"

\* What a task has behind it.
TaskHolds(r) ==
  /\ r.gateway # 0 =>
       /\ storachaClient = TRUE /\ r.attempt >= 1 /\ r.op = "retrieve"
       /\ r.pc \notin {"importing", "importing the rest", "creating", "listing"}
  /\ r.pc = "client" => r.gateway <= 1
  /\ (r.pc = "threw" /\ r.half = FALSE /\ r.failures = 0) => SomeRejected
  /\ (r.gateway # 0 /\ loadPromise # "rejected" /\ litClientPromise # "rejected") => Tried(r)
  /\ r.pc \in {"archiving", "logging"} => r.cid \in 1 .. Len(stored) /\ stored[r.cid] = r.subject
  /\ r.pc = "logging" => r.subject \in Proposal

\* The inductive invariant of VaultInv.
VaultIInv ==
  /\ VaultTypeOK
  /\ task \in [Task -> TaskState]
  /\ \A t \in Task : TaskHolds(task[t])
  /\ task[Shared].pc # "idle" => encryptedClientPromise = "pending"
  /\ ArchivalNamesBackup

LEMMA VaultSizes ==
  /\ Gateways \in Nat \ {0} /\ RetriesPerGateway \in Nat \ {0}
  /\ EnsueTree \notin Proposal /\ Shared \notin VaultCall /\ Shared \in Task
BY VaultAssumption, Zenon DEF Shared, Task

LEMMA WorthSays ==
  ASSUME NEW n \in Int
  PROVE  /\ Worth(n) \in Int /\ Worth(n + 1) = Worth(n) + RetriesPerGateway
         /\ Worth(n - 1) = Worth(n) - RetriesPerGateway
         /\ Worth(0) = 0 /\ Worth(-1) = -RetriesPerGateway
         /\ RetriesPerGateway \in Nat \ {0} /\ Gateways \in Nat \ {0}
<1>1. PICK m \in Nat \ {0} : m = RetriesPerGateway
  BY VaultSizes
<1>2. m * n \in Int /\ m * (n + 1) = m * n + m /\ m * (n - 1) = m * n - m
  OBVIOUS
<1>3. m * 0 = 0 /\ m * (-1) = -m
  OBVIOUS
<1> QED BY <1>1, <1>2, <1>3, VaultSizes DEF Worth

LEMMA NoTaskSays ==
  /\ NoTask \in TaskState /\ NoTask.pc = "idle" /\ NoTask.gateway = 0 /\ TaskHolds(NoTask)
  /\ NoTask.half = FALSE /\ NoTask.failures = 0
<1>1. NoTask \in TaskState
  <2>1. 0 \in 0 .. Gateways /\ 0 \in 0 .. RetriesPerGateway /\ NoCid \in Nat
    BY VaultSizes DEF NoCid
  <2> QED BY <2>1 DEF NoTask, TaskState, TaskPlace, Subject
<1>2. NoTask.pc = "idle" /\ NoTask.gateway = 0 /\ NoTask.half = FALSE /\ NoTask.failures = 0
  BY DEF NoTask
<1>3. TaskHolds(NoTask)
  BY <1>2 DEF TaskHolds
<1> QED BY <1>1, <1>2, <1>3

\* What only grows, or happens once, while the process runs.
GoesOn ==
  /\ loadPromise = "rejected" => loadPromise' = "rejected"
  /\ litClientPromise = "rejected" => litClientPromise' = "rejected"
  /\ encryptedClientPromise = "rejected" => encryptedClientPromise' = "rejected"
  /\ storachaClient = TRUE => storachaClient' = TRUE
  /\ Len(stored) \in Nat /\ Len(stored') \in Nat /\ Len(stored) <= Len(stored')
  /\ \A i \in 1 .. Len(stored) : stored'[i] = stored[i]

LEMMA HoldsOn ==
  ASSUME GoesOn, NEW r \in TaskState, TaskHolds(r)
  PROVE  TaskHolds(r)'
<1>1. /\ r.gateway \in 0 .. Gateways /\ r.attempt \in Nat /\ r.failures \in Nat
  BY DEF TaskState
<1>2. (SomeRejected => SomeRejected') /\ Lost \in {0, 1} /\ Lost' \in {Lost, 1}
  BY DEF GoesOn, SomeRejected, Lost
<1>3. ASSUME r.gateway # 0, loadPromise' # "rejected", litClientPromise' # "rejected"
      PROVE  Tried(r)'
  <2>1. Tried(r)
    BY <1>3 DEF TaskHolds, GoesOn
  <2>2. CASE Lost' = Lost
    BY <2>1, <2>2 DEF Tried
  <2>3. CASE Lost = 0 /\ Lost' = 1
    <3>1. PICK g \in Int : g = r.gateway - 1
      BY <1>1
    <3>2. /\ Worth(g - 1) <= Worth(g) /\ Worth(g - 1) \in Int /\ Worth(g) \in Int
          /\ Worth(Gateways - 1) <= Worth(Gateways) /\ Worth(Gateways - 1) \in Int
          /\ Worth(Gateways) \in Int
      <4>1. \A n \in Int : Worth(n) \in Int /\ Worth(n - 1) = Worth(n) - RetriesPerGateway
        BY WorthSays
      <4>2. g \in Int /\ Gateways \in Int /\ RetriesPerGateway \in Nat
            /\ g - 1 \in Int /\ Gateways - 1 \in Int
        BY VaultSizes
      <4> QED BY <4>1, <4>2
    <3>3. r.failures >= IF r.pc = "threw" THEN Worth(Gateways) ELSE Worth(g) + r.attempt - 1
      <4>1. Gateways - 0 = Gateways /\ r.gateway - 1 - 0 = g
        BY <1>1, <3>1, VaultSizes
      <4> QED BY <2>1, <2>3, <4>1 DEF Tried
    <3>4. r.failures >= IF r.pc = "threw" THEN Worth(Gateways - 1) ELSE Worth(g - 1) + r.attempt - 1
      BY <1>1, <3>2, <3>3
    <3> QED BY <2>3, <3>1, <3>4 DEF Tried
  <2> QED BY <1>2, <2>2, <2>3
<1>4. ASSUME r.pc \in {"archiving", "logging"}
      PROVE  r.cid \in 1 .. Len(stored)' /\ stored'[r.cid] = r.subject
  <2>1. r.cid \in 1 .. Len(stored) /\ stored[r.cid] = r.subject
    BY <1>4 DEF TaskHolds
  <2>2. r.cid \in 1 .. Len(stored')
    BY <2>1 DEF GoesOn
  <2> QED BY <2>1, <2>2 DEF GoesOn
<1>5. r.gateway # 0 => storachaClient' = TRUE
  BY DEF TaskHolds, GoesOn
<1>6. (r.pc = "threw" /\ r.half = FALSE /\ r.failures = 0) => SomeRejected'
  BY <1>2 DEF TaskHolds
<1> QED BY <1>3, <1>4, <1>5, <1>6 DEF TaskHolds

\* Nothing that outlasts a step is lost by it, and the invariants of what is stored hold.
LEMMA TaskMoves ==
  ASSUME VaultIInv, GoesOn, VaultTypeOK', ArchivalNamesBackup',
         NEW t \in Task, NEW k \in TaskState, task' = [task EXCEPT ![t] = k],
         TaskHolds(k)',
         (IF t = Shared THEN k.pc # "idle" ELSE task[Shared].pc # "idle")
           => encryptedClientPromise' = "pending"
  PROVE  VaultIInv'
<1>1. task' \in [Task -> TaskState] /\ task'[t] = k /\ \A u \in Task \ {t} : task'[u] = task[u]
  BY DEF VaultIInv
<1>2. ASSUME NEW u \in Task PROVE TaskHolds(task[u])'
  <2>1. PICK r \in TaskState : r = task'[u]
    BY <1>1
  <2>2. CASE u = t
    BY <1>1, <2>2 DEF TaskHolds, Tried
  <2>3. CASE u # t
    <3>1. r = task[u] /\ TaskHolds(r)
      BY <1>1, <2>1, <2>3 DEF VaultIInv
    <3>2. TaskHolds(r)'
      BY <3>1, HoldsOn
    <3> QED BY <2>1, <3>2 DEF TaskHolds, Tried
  <2> QED BY <2>2, <2>3
<1>3. (task[Shared].pc # "idle" => encryptedClientPromise = "pending")'
  <2>1. Shared \in Task
    BY DEF Task
  <2> QED BY <1>1, <2>1
<1> QED BY <1>1, <1>2, <1>3 DEF VaultIInv

PromiseValue == {"none", "pending", "ready", "rejected"}
PromiseMoves(p, q) == q = p \/ (p \in {"none", "pending"} /\ q \in PromiseValue)

\* A step of the process that stores nothing.
Proceeds ==
  /\ UNCHANGED <<ofWorker, stored, archival>>
  /\ identityModules' \in {"none", "some", "all"}
  /\ storachaClient' \in {storachaClient, TRUE} /\ known' \in {known, TRUE}
  /\ PromiseMoves(loadPromise, loadPromise')
  /\ PromiseMoves(litClientPromise, litClientPromise')
  /\ PromiseMoves(encryptedClientPromise, encryptedClientPromise')

LEMMA ProceedsKeeps ==
  ASSUME VaultIInv, Proceeds
  PROVE  VaultTypeOK' /\ GoesOn /\ ArchivalNamesBackup'
<1>1. Len(stored) \in Nat /\ stored \in Seq(Subject)
  BY DEF VaultIInv, VaultTypeOK, Subject
<1>2. GoesOn
  <2>1. stored' = stored
    BY DEF Proceeds
  <2>2. storachaClient = TRUE => storachaClient' = TRUE
    BY Zenon DEF Proceeds
  <2>3. /\ loadPromise = "rejected" => loadPromise' = "rejected"
        /\ litClientPromise = "rejected" => litClientPromise' = "rejected"
        /\ encryptedClientPromise = "rejected" => encryptedClientPromise' = "rejected"
    <3>1. /\ PromiseMoves(loadPromise, loadPromise')
          /\ PromiseMoves(litClientPromise, litClientPromise')
          /\ PromiseMoves(encryptedClientPromise, encryptedClientPromise')
      BY DEF Proceeds
    <3> QED BY <3>1 DEF PromiseMoves
  <2> QED BY <1>1, <2>1, <2>2, <2>3 DEF GoesOn
<1>3. storachaClient' \in BOOLEAN /\ known' \in BOOLEAN /\ ofWorker' \in BOOLEAN
  BY DEF Proceeds, VaultIInv, VaultTypeOK
<1>4. \A p \in {loadPromise, litClientPromise, encryptedClientPromise}' : p \in PromiseValue
  BY DEF Proceeds, PromiseMoves, PromiseValue, VaultIInv, VaultTypeOK
<1>5. /\ identityModules' \in {"none", "some", "all"} /\ stored' \in Seq(Proposal \cup {EnsueTree})
      /\ archival' \in [Proposal -> 0 .. Len(stored')]
  BY DEF Proceeds, VaultIInv, VaultTypeOK
<1>6. VaultTypeOK'
  BY <1>3, <1>4, <1>5 DEF VaultTypeOK, PromiseValue
<1>7. ArchivalNamesBackup'
  BY DEF Proceeds, VaultIInv, ArchivalNamesBackup
<1> QED BY <1>2, <1>6, <1>7

LEMMA EndsKeeps ==
  ASSUME VaultIInv, Proceeds, NEW t \in Task, Ends(t),
         t = Shared \/ UNCHANGED encryptedClientPromise
  PROVE  VaultIInv'
<1>1. task' = [task EXCEPT ![t] = NoTask]
  BY DEF Ends
<1>2. TaskHolds(NoTask)'
  BY NoTaskSays, HoldsOn, ProceedsKeeps
<1>3. (IF t = Shared THEN NoTask.pc # "idle" ELSE task[Shared].pc # "idle")
        => encryptedClientPromise' = "pending"
  BY NoTaskSays DEF VaultIInv
<1> QED BY <1>1, <1>2, <1>3, NoTaskSays, ProceedsKeeps, TaskMoves

\* A task that goes on to another place, with all that it has.
LEMMA Going ==
  ASSUME VaultIInv, NEW t \in Task, NEW pc \in TaskPlace \ {"threw", "archiving", "logging"},
         task[t].pc # "threw",
         pc \in {"importing", "importing the rest", "creating", "listing"} => task[t].gateway = 0,
         pc = "client" => task[t].gateway <= 1
  PROVE  \E k \in TaskState : /\ [task EXCEPT ![t].pc = pc] = [task EXCEPT ![t] = k]
                              /\ TaskHolds(k) /\ k.pc = pc
<1>1. PICK r \in TaskState : r = task[t] /\ TaskHolds(r)
  BY DEF VaultIInv
<1>2. PICK k : k = [r EXCEPT !.pc = pc]
  OBVIOUS
<1>3. /\ k.pc = pc /\ k.op = r.op /\ k.gateway = r.gateway /\ k.attempt = r.attempt /\ k.failures = r.failures
      /\ k.gateway \in 0 .. Gateways
  BY <1>2 DEF TaskState
<1>4. k \in TaskState
  BY <1>2 DEF TaskState
<1>5. [task EXCEPT ![t].pc = pc] = [task EXCEPT ![t] = k]
  BY <1>1, <1>2 DEF VaultIInv
<1>6. Tried(r) => Tried(k)
  BY <1>1, <1>3 DEF Tried
<1>7. TaskHolds(k)
  <2>1. /\ k.gateway # 0 => storachaClient = TRUE /\ k.attempt >= 1 /\ k.op = "retrieve"
        /\ (k.gateway # 0 /\ loadPromise # "rejected" /\ litClientPromise # "rejected") => Tried(k)
    BY <1>1, <1>3, <1>6 DEF TaskHolds
  <2>2. k.gateway # 0 => k.pc \notin {"importing", "importing the rest", "creating", "listing"}
    <3>1. k.gateway = task[t].gateway /\ k.pc = pc
      BY <1>1, <1>3
    <3> QED BY <3>1
  <2>3. k.pc = "client" => k.gateway <= 1
    BY <1>1, <1>3
  <2>4. k.pc \notin {"threw", "archiving", "logging"}
    BY <1>3
  <2> QED BY <2>1, <2>2, <2>3, <2>4 DEF TaskHolds
<1> QED BY <1>3, <1>4, <1>5, <1>7

LEMMA GoesKeeps ==
  ASSUME VaultIInv, Proceeds, NEW t \in Task, NEW pc \in TaskPlace \ {"threw", "archiving", "logging"},
         GoesTo(t, pc), task[t].pc # "idle", UNCHANGED encryptedClientPromise,
         task[t].pc # "threw",
         pc \in {"importing", "importing the rest", "creating", "listing"} => task[t].gateway = 0,
         pc = "client" => task[t].gateway <= 1
  PROVE  VaultIInv'
<1>1. PICK k \in TaskState : /\ [task EXCEPT ![t].pc = pc] = [task EXCEPT ![t] = k]
                             /\ TaskHolds(k) /\ k.pc = pc
  BY Going
<1>2. task' = [task EXCEPT ![t] = k]
  BY <1>1 DEF GoesTo
<1>3. TaskHolds(k)'
  BY <1>1, HoldsOn, ProceedsKeeps
<1>4. (IF t = Shared THEN k.pc # "idle" ELSE task[Shared].pc # "idle")
        => encryptedClientPromise' = "pending"
  BY DEF VaultIInv
<1> QED BY <1>2, <1>3, <1>4, ProceedsKeeps, TaskMoves

\* A failure, in arithmetic: one attempt more is worth one failure more.
LEMMA FailedSays ==
  ASSUME NEW r \in TaskState
  PROVE  \E k \in TaskState :
           /\ Failed(r) = k /\ k.half = r.half /\ k.op = r.op /\ k.failures = r.failures
           /\ \/ /\ k.pc = "threw" /\ k.gateway = r.gateway /\ k.attempt = r.attempt
                 /\ r.gateway = 0 \/ (r.gateway = Gateways /\ r.attempt = RetriesPerGateway)
              \/ /\ k.pc = "trying" /\ k.gateway = r.gateway /\ k.attempt = r.attempt + 1
                 /\ r.gateway # 0 /\ r.attempt < RetriesPerGateway
              \/ /\ k.pc = "trying" /\ k.gateway = r.gateway + 1 /\ k.attempt = 1
                 /\ r.gateway # 0 /\ r.attempt = RetriesPerGateway /\ r.gateway < Gateways
<1>1. /\ r.gateway \in 0 .. Gateways /\ r.attempt \in 0 .. RetriesPerGateway
  BY DEF TaskState
<1>2. CASE r.gateway = 0 \/ (r.gateway = Gateways /\ r.attempt = RetriesPerGateway)
  <2>1. PICK k : k = [r EXCEPT !.pc = "threw"]
    OBVIOUS
  <2>2. /\ k \in TaskState /\ k.half = r.half /\ k.op = r.op /\ k.failures = r.failures
        /\ k.pc = "threw" /\ k.gateway = r.gateway /\ k.attempt = r.attempt
    BY <2>1 DEF TaskState, TaskPlace
  <2> QED BY <1>2, <2>1, <2>2 DEF Failed
<1>3. CASE /\ ~(r.gateway = 0 \/ (r.gateway = Gateways /\ r.attempt = RetriesPerGateway))
           /\ r.attempt < RetriesPerGateway
  <2>1. PICK k : k = [r EXCEPT !.pc = "trying", !.attempt = @ + 1]
    OBVIOUS
  <2>2. r.attempt + 1 \in 0 .. RetriesPerGateway /\ r.gateway # 0
    BY <1>1, <1>3, VaultSizes
  <2>3. /\ k \in TaskState /\ k.half = r.half /\ k.op = r.op /\ k.failures = r.failures
        /\ k.pc = "trying" /\ k.gateway = r.gateway /\ k.attempt = r.attempt + 1
    BY <2>1, <2>2 DEF TaskState, TaskPlace
  <2> QED BY <1>3, <2>1, <2>2, <2>3 DEF Failed
<1>4. CASE /\ ~(r.gateway = 0 \/ (r.gateway = Gateways /\ r.attempt = RetriesPerGateway))
           /\ ~(r.attempt < RetriesPerGateway)
  <2>1. PICK k : k = [r EXCEPT !.pc = "trying", !.gateway = @ + 1, !.attempt = 1]
    OBVIOUS
  <2>2. /\ r.gateway + 1 \in 0 .. Gateways /\ r.gateway # 0 /\ r.gateway < Gateways
        /\ r.attempt = RetriesPerGateway /\ 1 \in 0 .. RetriesPerGateway
    BY <1>1, <1>4, VaultSizes
  <2>3. /\ k \in TaskState /\ k.half = r.half /\ k.op = r.op /\ k.failures = r.failures
        /\ k.pc = "trying" /\ k.gateway = r.gateway + 1 /\ k.attempt = 1
    BY <2>1, <2>2 DEF TaskState, TaskPlace
  <2> QED BY <1>4, <2>1, <2>2, <2>3 DEF Failed
<1> QED BY <1>2, <1>3, <1>4

LEMMA OwnFailure ==
  ASSUME NEW r \in TaskState, TaskHolds(r), NEW own \in {0, 1}, r.pc \notin {"idle", "threw"},
         own = 0 => \/ loadPromise = "rejected" \/ litClientPromise = "rejected"
                    \/ (encryptedClientPromise = "rejected" /\ r.gateway <= 1)
  PROVE  \E k \in TaskState : Failed([r EXCEPT !.failures = @ + own]) = k /\ TaskHolds(k)
                              /\ k.pc # "idle"
<1>1. /\ r.gateway \in 0 .. Gateways /\ r.attempt \in 0 .. RetriesPerGateway /\ r.failures \in Nat
  BY DEF TaskState
<1>2. PICK q : q = [r EXCEPT !.failures = @ + own]
  OBVIOUS
<1>3. q \in TaskState /\ q.failures = r.failures + own
      /\ q.gateway = r.gateway /\ q.attempt = r.attempt /\ q.op = r.op
  BY <1>1, <1>2 DEF TaskState
<1>4. PICK k \in TaskState :
           /\ Failed(q) = k /\ k.failures = q.failures /\ k.op = q.op
           /\ \/ /\ k.pc = "threw" /\ k.gateway = q.gateway /\ k.attempt = q.attempt
                 /\ q.gateway = 0 \/ (q.gateway = Gateways /\ q.attempt = RetriesPerGateway)
              \/ /\ k.pc = "trying" /\ k.gateway = q.gateway /\ k.attempt = q.attempt + 1
                 /\ q.gateway # 0 /\ q.attempt < RetriesPerGateway
              \/ /\ k.pc = "trying" /\ k.gateway = q.gateway + 1 /\ k.attempt = 1
                 /\ q.gateway # 0 /\ q.attempt = RetriesPerGateway /\ q.gateway < Gateways
  BY <1>3, FailedSays
<1>5. k.failures = 0 => SomeRejected
  BY <1>1, <1>3, <1>4 DEF SomeRejected
<1>6. k.gateway # 0 => /\ r.gateway # 0 /\ storachaClient = TRUE /\ k.attempt >= 1
                       /\ k.op = "retrieve"
  <2>1. k.gateway # 0 => r.gateway # 0
    BY <1>1, <1>3, <1>4
  <2>2. r.gateway # 0 => storachaClient = TRUE /\ r.attempt >= 1 /\ r.op = "retrieve"
    BY DEF TaskHolds
  <2>3. k.gateway # 0 => k.attempt >= 1
    BY <1>1, <1>3, <1>4, <2>1, <2>2
  <2> QED BY <1>3, <1>4, <2>1, <2>2, <2>3
<1>7. ASSUME k.gateway # 0, loadPromise # "rejected", litClientPromise # "rejected"
      PROVE  Tried(k)
  <2>1. r.failures >= Worth(r.gateway - 1 - Lost) + r.attempt - 1 /\ Lost \in {0, 1}
    BY <1>6, <1>7 DEF TaskHolds, Tried, Lost
  <2>2. PICK g \in Int, n \in Int : g = r.gateway - 1 - Lost /\ n = RetriesPerGateway /\ n > 0
    BY <1>1, <2>1, VaultSizes
  <2>3. /\ Worth(g) \in Int /\ Worth(g + 1) = Worth(g) + n /\ Worth(0) = 0 /\ Worth(-1) = -n
    BY <2>2, WorthSays
  <2>4. own = 1 \/ (own = 0 /\ Lost = 1 /\ r.gateway = 1 /\ g = -1)
    BY <1>1, <1>6, <1>7, <2>2 DEF Lost
  <2>5. k.failures >= Worth(g) + r.attempt
    BY <1>1, <1>3, <1>4, <2>1, <2>2, <2>3, <2>4
  <2>6. CASE k.pc = "threw"
    <3>1. Gateways - Lost = g + 1 /\ r.attempt = n
      BY <1>1, <1>3, <1>4, <1>6, <1>7, <2>1, <2>2, <2>6, VaultSizes
    <3> QED BY <2>3, <2>5, <2>6, <3>1 DEF Tried
  <2>7. CASE k.gateway = r.gateway /\ k.attempt = r.attempt + 1 /\ k.pc = "trying"
    BY <1>1, <2>1, <2>2, <2>3, <2>5, <2>7 DEF Tried
  <2>8. CASE k.gateway = r.gateway + 1 /\ k.attempt = 1 /\ r.attempt = RetriesPerGateway /\ k.pc = "trying"
    <3>1. k.gateway - 1 - Lost = g + 1
      BY <1>1, <2>1, <2>2, <2>8
    <3>2. Worth(k.gateway - 1 - Lost) + k.attempt - 1 = Worth(g) + r.attempt
      BY <1>1, <2>2, <2>3, <2>8, <3>1
    <3> QED BY <2>5, <2>8, <3>2 DEF Tried
  <2> QED BY <1>3, <1>4, <2>6, <2>7, <2>8
<1>8. k.pc \in {"threw", "trying"}
  BY <1>4
<1>9. TaskHolds(k)
  BY <1>5, <1>6, <1>7, <1>8 DEF TaskHolds
<1> QED BY <1>2, <1>4, <1>8, <1>9

LEMMA FailsKeeps ==
  ASSUME VaultIInv, Proceeds, NEW t \in Task, NEW own \in {0, 1}, Fails(t, own),
         task[t].pc \notin {"idle", "threw"},
         own = 0 => \/ loadPromise = "rejected" \/ litClientPromise = "rejected"
                    \/ (encryptedClientPromise = "rejected" /\ task[t].gateway <= 1)
                    \/ t = Shared
  PROVE  VaultIInv'
<1>1. CASE t = Shared
  BY <1>1, EndsKeeps DEF Fails
<1>2. CASE t # Shared
  <2>1. PICK r \in TaskState : r = task[t] /\ TaskHolds(r)
    BY DEF VaultIInv
  <2>2. r.pc \notin {"idle", "threw"}
        /\ (own = 0 => \/ loadPromise = "rejected" \/ litClientPromise = "rejected"
                       \/ (encryptedClientPromise = "rejected" /\ r.gateway <= 1))
    BY <1>2, <2>1
  <2>3. PICK k \in TaskState : Failed([r EXCEPT !.failures = @ + own]) = k /\ TaskHolds(k)
                               /\ k.pc # "idle"
    BY <2>1, <2>2, OwnFailure
  <2>4. task' = [task EXCEPT ![t] = k] /\ UNCHANGED encryptedClientPromise
    <3>1. /\ task' = [task EXCEPT ![t] = Failed([task[t] EXCEPT !.failures = @ + own])]
          /\ UNCHANGED encryptedClientPromise
      BY <1>2 DEF Fails
    <3> QED BY <2>1, <2>3, <3>1
  <2>5. TaskHolds(k)'
    BY <2>3, HoldsOn, ProceedsKeeps
  <2>6. (IF t = Shared THEN k.pc # "idle" ELSE task[Shared].pc # "idle")
        => encryptedClientPromise' = "pending"
    BY <1>2, <2>4 DEF VaultIInv
  <2> QED BY <2>4, <2>5, <2>6, ProceedsKeeps, TaskMoves
<1> QED BY <1>1, <1>2

\* The modules that begin a retrieval at its first gateway, and the rest to Lit.
LEMMA HasStorachaKeeps ==
  ASSUME VaultIInv, Proceeds, NEW t \in Task, HasStoracha(t), storachaClient' = TRUE,
         task[t].pc \notin {"idle", "threw"}, UNCHANGED encryptedClientPromise
  PROVE  VaultIInv'
<1>1. CASE task[t].op = "retrieve" /\ task[t].gateway = 0
  <2>1. PICK r \in TaskState : r = task[t] /\ TaskHolds(r)
    BY DEF VaultIInv
  <2>2. PICK k : k = [r EXCEPT !.pc = "trying", !.gateway = 1, !.attempt = 1]
    OBVIOUS
  <2>3. 1 \in 0 .. Gateways /\ 1 \in 0 .. RetriesPerGateway
    BY VaultSizes
  <2>4. /\ k \in TaskState /\ k.pc = "trying" /\ k.gateway = 1 /\ k.attempt = 1
        /\ k.failures = r.failures /\ k.failures \in Nat /\ k.op = "retrieve"
    BY <1>1, <2>1, <2>2, <2>3 DEF TaskState, TaskPlace
  <2>5. task' = [task EXCEPT ![t] = k]
    BY <1>1, <2>1, <2>2 DEF HasStoracha, VaultIInv
  <2>6. Tried(k)'
    <3>1. PICK l \in {0, 1} : l = Lost'
      BY DEF Lost
    <3>2. Worth(0) = 0 /\ Worth(-1) \in Int /\ Worth(-1) <= 0
      BY WorthSays
    <3>3. k.gateway - 1 - l = 0 \/ k.gateway - 1 - l = -1
      <4>1. 1 - 1 - l = 0 \/ 1 - 1 - l = -1
        OBVIOUS
      <4> QED BY <2>4, <4>1
    <3>4. Worth(k.gateway - 1 - l) \in Int /\ Worth(k.gateway - 1 - l) <= 0
      BY <3>2, <3>3
    <3>5. k.failures >= Worth(k.gateway - 1 - l) + k.attempt - 1
      BY <2>4, <3>4
    <3> QED BY <2>4, <3>1, <3>5 DEF Tried
  <2>7. TaskHolds(k)'
    BY <2>4, <2>6 DEF TaskHolds
  <2>8. (IF t = Shared THEN k.pc # "idle" ELSE task[Shared].pc # "idle")
        => encryptedClientPromise' = "pending"
    BY DEF VaultIInv
  <2> QED BY <2>4, <2>5, <2>7, <2>8, ProceedsKeeps, TaskMoves
<1>2. CASE ~(task[t].op = "retrieve" /\ task[t].gateway = 0)
  <2>1. GoesTo(t, "lit")
    BY <1>2 DEF HasStoracha
  <2> QED BY <2>1, GoesKeeps DEF TaskPlace
<1> QED BY <1>1, <1>2

LEMMA HasModulesKeeps ==
  ASSUME VaultIInv, Proceeds, NEW t \in Task, HasIdentityModules(t),
         task[t].pc \notin {"idle", "threw"}, task[t].gateway = 0, UNCHANGED encryptedClientPromise
  PROVE  VaultIInv'
<1>1. CASE task[t].op = "getAgentDid"
  BY <1>1, EndsKeeps DEF HasIdentityModules
<1>2. CASE task[t].op # "getAgentDid"
  BY <1>2, GoesKeeps DEF HasIdentityModules, TaskPlace
<1> QED BY <1>1, <1>2

LEMMA BeginIdentityKeeps ==
  ASSUME VaultIInv, NEW t \in Task, BeginIdentity(t)
  PROVE  VaultIInv'
<1>1. /\ task[t] \in TaskState /\ TaskHolds(task[t]) /\ task[t].pc = "identity"
      /\ storachaClient \in BOOLEAN /\ task[t].gateway \in Nat
  BY DEF VaultIInv, VaultTypeOK, BeginIdentity, IsAt, TaskState
<1>2. /\ UNCHANGED <<ofWorker, stored, archival, loadPromise, litClientPromise>>
      /\ UNCHANGED <<identityModules, storachaClient>> /\ identityModules \in {"none", "some", "all"}
      /\ encryptedClientPromise \in PromiseValue
  BY DEF BeginIdentity, backups, VaultIInv, VaultTypeOK, PromiseValue
<1>3. ASSUME UNCHANGED encryptedClientPromise \/ (t = Shared /\ encryptedClientPromise' = "rejected"),
             known' \in {known, TRUE}
      PROVE  Proceeds
  <2>1. PromiseMoves(encryptedClientPromise, encryptedClientPromise')
    BY <1>1, <1>3 DEF PromiseMoves, PromiseValue, VaultIInv
  <2>2. PromiseMoves(loadPromise, loadPromise') /\ PromiseMoves(litClientPromise, litClientPromise')
    BY <1>2 DEF PromiseMoves
  <2> QED BY <1>2, <1>3, <2>1, <2>2, Zenon DEF Proceeds
<1>4. CASE /\ storachaClient /\ HasStoracha(t) /\ UNCHANGED <<encryptedClientPromise, known>>
  <2>1. storachaClient' = TRUE
    BY <1>1, <1>2, <1>4
  <2> QED BY <1>1, <1>3, <1>4, <2>1, HasStorachaKeeps
<1>5. CASE task[t].gateway = 0 /\ (~storachaClient \/ task[t].op = "getAgentDid")
  <2>1. CASE identityModules = "none" /\ Goes(t, "importing") /\ UNCHANGED known
    <3>1. GoesTo(t, "importing") /\ UNCHANGED encryptedClientPromise
      BY <2>1 DEF Goes
    <3> QED BY <1>1, <1>3, <1>5, <2>1, <3>1, GoesKeeps DEF TaskPlace
  <2>2. CASE t = Shared /\ Fails(t, 0) /\ UNCHANGED known
    <3>1. encryptedClientPromise' = "rejected"
      BY <2>2 DEF Fails
    <3> QED BY <1>1, <1>3, <2>2, <3>1, FailsKeeps
  <2>3. CASE /\ t # Shared /\ UNCHANGED <<encryptedClientPromise, known>>
             /\ task' = [task EXCEPT ![t] = Failed([task[t] EXCEPT !.half = TRUE])]
    <3>1. PICK r \in TaskState : r = task[t] /\ TaskHolds(r) /\ r.gateway = 0
      BY <1>1, <1>5
    <3>2. PICK q : q = [r EXCEPT !.half = TRUE]
      OBVIOUS
    <3>3. q \in TaskState /\ q.gateway = 0
      BY <3>1, <3>2 DEF TaskState
    <3>4. q.half = TRUE
      BY <3>1, <3>2 DEF TaskState
    <3>5. PICK k \in TaskState : /\ Failed(q) = k /\ k.half = q.half
                                 /\ k.pc = "threw" /\ k.gateway = q.gateway
      <4> QED BY <3>3, FailedSays
    <3>6. task' = [task EXCEPT ![t] = k]
      <4>1. task' = [task EXCEPT ![t] = Failed([task[t] EXCEPT !.half = TRUE])]
        BY <2>3
      <4> QED BY <3>1, <3>2, <3>5, <4>1
    <3>7. k.half # FALSE /\ k.gateway = 0
      <4>1. k.half = TRUE
        BY <3>4, <3>5
      <4> QED BY <3>3, <3>5, <4>1
    <3>8. TaskHolds(k)'
      BY <3>5, <3>7 DEF TaskHolds
    <3>9. (IF t = Shared THEN k.pc # "idle" ELSE task[Shared].pc # "idle")
            => encryptedClientPromise' = "pending"
      BY <2>3 DEF VaultIInv
    <3>10. Proceeds
      BY <1>3, <2>3
    <3> QED BY <3>6, <3>8, <3>9, <3>10, ProceedsKeeps, TaskMoves
  <2>4. CASE HasIdentityModules(t) /\ UNCHANGED encryptedClientPromise
    <3>1. known' \in {known, TRUE}
      BY <2>4 DEF HasIdentityModules
    <3> QED BY <1>1, <1>3, <1>5, <2>4, <3>1, HasModulesKeeps
  <2> QED BY <1>5, <2>1, <2>2, <2>3, <2>4, Zenon DEF BeginIdentity
<1>6. task[t].gateway # 0 => storachaClient /\ task[t].op # "getAgentDid"
  BY <1>1 DEF TaskHolds
<1> QED BY <1>1, <1>4, <1>5, <1>6 DEF BeginIdentity

LEMMA TaskSays ==
  ASSUME VaultIInv, NEW t \in Task
  PROVE  /\ task[t] \in TaskState /\ TaskHolds(task[t])
         /\ storachaClient \in BOOLEAN /\ known \in BOOLEAN /\ ofWorker \in BOOLEAN
         /\ identityModules \in {"none", "some", "all"}
         /\ loadPromise \in PromiseValue /\ litClientPromise \in PromiseValue
         /\ encryptedClientPromise \in PromiseValue
         /\ t # Shared => t \in VaultCall
BY DEF VaultIInv, VaultTypeOK, PromiseValue, Task

\* What a step leaves alone that the process keeps.
LEMMA ProceedsSays ==
  ASSUME VaultIInv, UNCHANGED <<ofWorker, stored, archival>>,
         identityModules' \in {"none", "some", "all"},
         storachaClient' \in {storachaClient, TRUE}, known' \in {known, TRUE},
         loadPromise' = loadPromise \/ loadPromise \in {"none", "pending"},
         litClientPromise' = litClientPromise \/ litClientPromise \in {"none", "pending"},
         encryptedClientPromise' = encryptedClientPromise
           \/ encryptedClientPromise \in {"none", "pending"},
         loadPromise' \in PromiseValue, litClientPromise' \in PromiseValue,
         encryptedClientPromise' \in PromiseValue
  PROVE  Proceeds
<1>1. /\ PromiseMoves(loadPromise, loadPromise') /\ PromiseMoves(litClientPromise, litClientPromise')
      /\ PromiseMoves(encryptedClientPromise, encryptedClientPromise')
  BY DEF PromiseMoves
<1> QED BY <1>1, Zenon DEF Proceeds

LEMMA StaysKeeps ==
  ASSUME VaultIInv, Proceeds, UNCHANGED task,
         task[Shared].pc # "idle" => encryptedClientPromise' = encryptedClientPromise
  PROVE  VaultIInv'
<1>1. PICK k \in TaskState : k = task[Shared] /\ TaskHolds(k)
  BY TaskSays, VaultSizes
<1>2. task' = [task EXCEPT ![Shared] = k]
  BY <1>1 DEF VaultIInv
<1>3. TaskHolds(k)'
  BY <1>1, HoldsOn, ProceedsKeeps
<1>4. k.pc # "idle" => encryptedClientPromise' = "pending"
  BY <1>1 DEF VaultIInv
<1> QED BY <1>2, <1>3, <1>4, VaultSizes, ProceedsKeeps, TaskMoves

\* The steps of identity.ts.
LEMMA IdentityKeeps ==
  ASSUME VaultIInv, NEW t \in Task, loadModules(t) \/ createStorachaClient(t) \/ IdentityFails(t)
  PROVE  VaultIInv'
<1>1. task[t].pc \in {"importing", "importing the rest", "creating"} /\ task[t].gateway = 0
  <2>1. task[t].pc \in {"importing", "importing the rest", "creating"}
    BY DEF loadModules, createStorachaClient, IdentityFails, IsAt
  <2> QED BY <2>1, TaskSays DEF TaskHolds
<1>2. task[t].pc \notin {"idle", "threw"}
  BY <1>1
<1>3. CASE loadModules(t)
  <2>1. /\ UNCHANGED <<ofWorker, stored, archival, storachaClient>>
        /\ UNCHANGED <<loadPromise, litClientPromise, encryptedClientPromise>>
        /\ identityModules' \in {"none", "some", "all"} /\ known' \in {known, TRUE}
    BY <1>3, TaskSays DEF loadModules, promises, backups, HasIdentityModules
  <2>2. Proceeds
    BY <2>1, TaskSays, ProceedsSays
  <2>3. CASE GoesTo(t, "importing the rest")
    BY <1>1, <1>2, <2>1, <2>2, <2>3, GoesKeeps DEF TaskPlace
  <2>4. CASE HasIdentityModules(t)
    BY <1>1, <1>2, <2>1, <2>2, <2>4, HasModulesKeeps
  <2> QED BY <1>3, <2>3, <2>4 DEF loadModules
<1>4. CASE createStorachaClient(t)
  <2>1. /\ UNCHANGED <<ofWorker, stored, archival, known, identityModules>>
        /\ UNCHANGED <<loadPromise, litClientPromise, encryptedClientPromise>>
        /\ storachaClient' = TRUE /\ HasStoracha(t)
    BY <1>4 DEF createStorachaClient, promises, backups
  <2>2. Proceeds
    BY <2>1, TaskSays, ProceedsSays
  <2> QED BY <1>2, <2>1, <2>2, HasStorachaKeeps
<1>5. CASE IdentityFails(t)
  <2>1. /\ UNCHANGED <<ofWorker, stored, archival, known, identityModules, storachaClient>>
        /\ UNCHANGED <<loadPromise, litClientPromise>> /\ Fails(t, 1)
    BY <1>5 DEF IdentityFails, identity, backups
  <2>2. encryptedClientPromise' = encryptedClientPromise
          \/ (encryptedClientPromise = "pending" /\ encryptedClientPromise' = "rejected")
    BY <1>2, <2>1 DEF Fails, VaultIInv
  <2>3. Proceeds
    BY <2>1, <2>2, TaskSays, ProceedsSays DEF PromiseValue
  <2> QED BY <1>2, <2>1, <2>3, FailsKeeps
<1> QED BY <1>3, <1>4, <1>5

\* The steps of the promises.
LEMMA PromisesKeep ==
  ASSUME VaultIInv, loadVaultModules \/ createLitClient
  PROVE  VaultIInv'
<1>1. /\ UNCHANGED <<ofWorker, stored, archival, known, identityModules, storachaClient>>
      /\ UNCHANGED <<encryptedClientPromise, task>>
  BY DEF loadVaultModules, createLitClient, identity, backups
<1>2. /\ loadPromise' = loadPromise
           \/ (loadPromise = "pending" /\ loadPromise' \in {"ready", "rejected"})
      /\ litClientPromise' = litClientPromise
           \/ (litClientPromise = "pending" /\ litClientPromise' \in {"ready", "rejected"})
  BY DEF loadVaultModules, createLitClient
<1>3. Proceeds
  BY <1>1, <1>2, TaskSays, VaultSizes, ProceedsSays DEF PromiseValue
<1> QED BY <1>1, <1>3, StaysKeeps

LEMMA getModulesKeeps ==
  ASSUME VaultIInv, NEW t \in Task, getModules(t)
  PROVE  VaultIInv'
<1>1. /\ UNCHANGED <<ofWorker, stored, archival, known, identityModules, storachaClient>>
      /\ UNCHANGED litClientPromise /\ task[t].pc = "modules" /\ task[t].pc \notin {"idle", "threw"}
  BY DEF getModules, identity, backups, IsAt
<1>2. CASE /\ loadPromise = "none" /\ loadPromise' = "pending"
           /\ UNCHANGED <<task, encryptedClientPromise>>
  <2>1. Proceeds
    BY <1>1, <1>2, TaskSays, ProceedsSays DEF PromiseValue
  <2> QED BY <1>2, <2>1, StaysKeeps
<1>3. CASE Goes(t, "identity") /\ UNCHANGED loadPromise
  <2>1. GoesTo(t, "identity") /\ UNCHANGED encryptedClientPromise
    BY <1>3 DEF Goes
  <2>2. Proceeds
    BY <1>1, <1>3, <2>1, TaskSays, ProceedsSays
  <2> QED BY <1>1, <2>1, <2>2, GoesKeeps DEF TaskPlace
<1>4. CASE loadPromise = "rejected" /\ Fails(t, 0) /\ UNCHANGED loadPromise
  <2>1. encryptedClientPromise' = encryptedClientPromise
          \/ (encryptedClientPromise = "pending" /\ encryptedClientPromise' = "rejected")
    BY <1>1, <1>4 DEF Fails, VaultIInv
  <2>2. Proceeds
    BY <1>1, <1>4, <2>1, TaskSays, ProceedsSays DEF PromiseValue
  <2> QED BY <1>1, <1>4, <2>2, FailsKeeps
<1> QED BY <1>2, <1>3, <1>4 DEF getModules

LEMMA getLitClientKeeps ==
  ASSUME VaultIInv, NEW t \in Task, getLitClient(t)
  PROVE  VaultIInv'
<1>1. /\ UNCHANGED <<ofWorker, stored, archival, known, identityModules, storachaClient>>
      /\ UNCHANGED loadPromise /\ task[t].pc = "lit" /\ task[t].pc \notin {"idle", "threw"}
  BY DEF getLitClient, identity, backups, IsAt
<1>2. CASE /\ litClientPromise = "none" /\ litClientPromise' = "pending"
           /\ UNCHANGED <<task, encryptedClientPromise>>
  <2>1. Proceeds
    BY <1>1, <1>2, TaskSays, ProceedsSays DEF PromiseValue
  <2> QED BY <1>2, <2>1, StaysKeeps
<1>3. CASE Built(t) /\ UNCHANGED litClientPromise
  <2>1. CASE t = Shared
    <3>1. encryptedClientPromise = "pending" /\ encryptedClientPromise' = "ready" /\ Ends(t)
      BY <1>1, <1>3, <2>1 DEF Built, VaultIInv
    <3>2. Proceeds
      BY <1>1, <1>3, <3>1, TaskSays, ProceedsSays DEF PromiseValue
    <3> QED BY <2>1, <3>1, <3>2, EndsKeeps
  <2>2. CASE t # Shared
    <3>1. GoesTo(t, "sending") /\ UNCHANGED encryptedClientPromise
      BY <1>3, <2>2 DEF Built, Goes
    <3>2. Proceeds
      BY <1>1, <1>3, <3>1, TaskSays, ProceedsSays
    <3> QED BY <1>1, <3>1, <3>2, GoesKeeps DEF TaskPlace
  <2> QED BY <2>1, <2>2
<1>4. CASE litClientPromise = "rejected" /\ Fails(t, 0) /\ UNCHANGED litClientPromise
  <2>1. encryptedClientPromise' = encryptedClientPromise
          \/ (encryptedClientPromise = "pending" /\ encryptedClientPromise' = "rejected")
    BY <1>1, <1>4 DEF Fails, VaultIInv
  <2>2. Proceeds
    BY <1>1, <1>4, <2>1, TaskSays, ProceedsSays DEF PromiseValue
  <2> QED BY <1>1, <1>4, <2>2, FailsKeeps
<1> QED BY <1>2, <1>3, <1>4 DEF getLitClient

LEMMA getEncryptedClientKeeps ==
  ASSUME VaultIInv, NEW t \in VaultCall, getEncryptedClient(t)
  PROVE  VaultIInv'
<1>1. /\ UNCHANGED <<ofWorker, stored, archival, known, identityModules, storachaClient>>
      /\ UNCHANGED <<loadPromise, litClientPromise>> /\ t \in Task /\ t # Shared
      /\ task[t].pc = "client" /\ task[t].pc \notin {"idle", "threw"}
  BY VaultSizes DEF getEncryptedClient, identity, backups, IsAt, Task
<1>2. CASE /\ encryptedClientPromise = "none" /\ encryptedClientPromise' = "pending"
           /\ task' = [task EXCEPT ![Shared] = [NoTask EXCEPT !.pc = "modules", !.op = "build"]]
  <2>1. PICK k : k = [NoTask EXCEPT !.pc = "modules", !.op = "build"]
    OBVIOUS
  <2>2. k \in TaskState /\ k.pc = "modules" /\ k.gateway = 0
    BY <2>1, NoTaskSays DEF TaskState, TaskPlace
  <2>3. TaskHolds(k)'
    BY <2>2 DEF TaskHolds
  <2>4. Proceeds
    BY <1>1, <1>2, TaskSays, ProceedsSays DEF PromiseValue
  <2> QED BY <1>2, <2>1, <2>2, <2>3, <2>4, VaultSizes, ProceedsKeeps, TaskMoves
<1>3. CASE Goes(t, "sending")
  <2>1. GoesTo(t, "sending") /\ UNCHANGED encryptedClientPromise
    BY <1>3 DEF Goes
  <2>2. Proceeds
    BY <1>1, <2>1, TaskSays, ProceedsSays
  <2> QED BY <1>1, <2>1, <2>2, GoesKeeps DEF TaskPlace
<1>4. CASE encryptedClientPromise = "rejected" /\ Fails(t, 0)
  <2>1. UNCHANGED encryptedClientPromise
    BY <1>1, <1>4 DEF Fails
  <2>2. Proceeds
    BY <1>1, <2>1, TaskSays, ProceedsSays
  <2>3. task[t].gateway <= 1
    BY <1>1, TaskSays DEF TaskHolds
  <2> QED BY <1>1, <1>4, <2>2, <2>3, FailsKeeps
<1> QED BY <1>2, <1>3, <1>4 DEF getEncryptedClient

LEMMA BeginTaskKeeps ==
  ASSUME VaultIInv, NEW t \in VaultCall,
         NEW op \in {"getAgentDid", "vault", "retrieve", "backup"}, NEW subject \in Subject,
         BeginTask(t, op, subject)
  PROVE  VaultIInv'
<1>1. /\ UNCHANGED <<ofWorker, stored, archival, known, identityModules, storachaClient>>
      /\ UNCHANGED <<loadPromise, litClientPromise, encryptedClientPromise>>
      /\ t \in Task /\ t # Shared
  BY VaultSizes DEF BeginTask, identity, promises, backups, Task
<1>2. Proceeds
  BY <1>1, TaskSays, ProceedsSays
<1>3. PICK pc \in {"identity", "listing", "client"} :
        task' = [task EXCEPT ![t] = [NoTask EXCEPT !.op = op, !.subject = subject, !.pc = pc]]
  BY DEF BeginTask
<1>4. PICK k : k = [NoTask EXCEPT !.op = op, !.subject = subject, !.pc = pc]
  OBVIOUS
<1>5. k \in TaskState /\ k.pc = pc /\ k.gateway = 0
  BY <1>4, NoTaskSays DEF TaskState, TaskPlace
<1>6. k.pc \notin {"threw", "archiving", "logging"} /\ k.gateway <= 1
  BY <1>5
<1>7. TaskHolds(k)'
  BY <1>5, <1>6 DEF TaskHolds
<1>8. (IF t = Shared THEN k.pc # "idle" ELSE task[Shared].pc # "idle")
        => encryptedClientPromise' = "pending"
  BY <1>1 DEF VaultIInv
<1> QED BY <1>1, <1>2, <1>3, <1>4, <1>5, <1>7, <1>8, ProceedsKeeps, TaskMoves

\* A listing that is through, and an attempt that begins.
LEMMA CallGoesOn ==
  ASSUME VaultIInv, NEW t \in VaultCall, serializeEnsueTree(t) \/ retrieveAndDecrypt(t)
  PROVE  VaultIInv'
<1>1. /\ UNCHANGED <<ofWorker, stored, archival, known, identityModules, storachaClient>>
      /\ UNCHANGED <<loadPromise, litClientPromise, encryptedClientPromise>> /\ t \in Task
      /\ task[t].pc \in {"listing", "trying"} /\ task[t].pc \notin {"idle", "threw"}
  BY DEF serializeEnsueTree, retrieveAndDecrypt, identity, promises, backups, Task, IsAt, Goes
<1>2. Proceeds
  BY <1>1, TaskSays, ProceedsSays
<1>3. CASE serializeEnsueTree(t)
  <2>1. CASE GoesTo(t, "client")
    <3>1. task[t].gateway = 0
      BY <1>1, <1>3, TaskSays DEF serializeEnsueTree, IsAt, TaskHolds
    <3>2. task[t].gateway <= 1
      BY <3>1
    <3> QED BY <1>1, <1>2, <2>1, <3>2, GoesKeeps DEF TaskPlace
  <2>2. CASE Ends(t)
    BY <1>1, <1>2, <2>2, EndsKeeps
  <2> QED BY <1>3, <2>1, <2>2 DEF serializeEnsueTree, Goes
<1>4. CASE retrieveAndDecrypt(t)
  <2>1. CASE task[t].gateway = 1 /\ GoesTo(t, "client")
    <3>1. task[t].gateway <= 1
      BY <2>1
    <3> QED BY <1>1, <1>2, <2>1, <3>1, GoesKeeps DEF TaskPlace
  <2>2. CASE GoesTo(t, "modules")
    BY <1>1, <1>2, <2>2, GoesKeeps DEF TaskPlace
  <2> QED BY <1>4, <2>1, <2>2 DEF retrieveAndDecrypt
<1> QED BY <1>3, <1>4

LEMMA SendFailsKeeps ==
  ASSUME VaultIInv, NEW t \in VaultCall, SendFails(t)
  PROVE  VaultIInv'
<1>1. /\ UNCHANGED <<ofWorker, stored, archival, known, identityModules, storachaClient>>
      /\ UNCHANGED <<loadPromise, litClientPromise>> /\ t \in Task /\ t # Shared
      /\ task[t].pc \notin {"idle", "threw"} /\ Fails(t, 1)
  BY VaultSizes DEF SendFails, identity, backups, Task, IsAt
<1>2. UNCHANGED encryptedClientPromise
  BY <1>1 DEF Fails
<1>3. Proceeds
  BY <1>1, <1>2, TaskSays, ProceedsSays
<1> QED BY <1>1, <1>3, FailsKeeps

\* The backups: what is uploaded, archived and written to Ensue.
LEMMA SentKeeps ==
  ASSUME VaultIInv, NEW t \in VaultCall, Sent(t)
  PROVE  VaultIInv'
<1>1. /\ UNCHANGED <<ofWorker, archival, known, identityModules, storachaClient>>
      /\ UNCHANGED <<loadPromise, litClientPromise, encryptedClientPromise>>
      /\ t \in Task /\ t # Shared /\ task[t].pc \notin {"idle", "threw"}
  BY VaultSizes DEF Sent, identity, promises, Task, IsAt
<1>2. CASE task[t].op = "backup"
  <2>1. PICK r \in TaskState : r = task[t] /\ TaskHolds(r)
    BY <1>1, TaskSays
  <2>2. stored' = Append(stored, r.subject) /\ r.subject \in Subject /\ stored \in Seq(Subject)
    BY <1>2, <2>1 DEF Sent, TaskState, VaultIInv, VaultTypeOK, Subject
  <2>3. /\ stored' \in Seq(Subject) /\ Len(stored') = Len(stored) + 1 /\ Len(stored) \in Nat
        /\ stored'[Len(stored')] = r.subject
        /\ \A i \in 1 .. Len(stored) : stored'[i] = stored[i]
    BY <2>2
  <2>4. PICK n \in Nat : n = Len(stored')
    BY <2>3
  <2>5. PICK k : k = [r EXCEPT !.pc = "archiving", !.cid = n]
    OBVIOUS
  <2>6. /\ k \in TaskState /\ k.pc = "archiving" /\ k.cid = n /\ k.subject = r.subject
        /\ k.gateway = r.gateway
    BY <2>5 DEF TaskState, TaskPlace
  <2>7. task' = [task EXCEPT ![t] = k]
    <3>1. task' = [task EXCEPT ![t].pc = "archiving", ![t].cid = Len(stored')]
      BY <1>2 DEF Sent
    <3> QED BY <1>1, <2>1, <2>4, <2>5, <3>1 DEF VaultIInv
  <2>8. GoesOn
    BY <1>1, <2>3 DEF GoesOn
  <2>9. k.gateway = 0
    BY <1>2, <2>1, <2>6 DEF TaskHolds
  <2>10. TaskHolds(k)'
    <3>1. k.cid \in 1 .. Len(stored') /\ stored'[k.cid] = k.subject
      BY <2>3, <2>4, <2>6
    <3> QED BY <2>6, <2>9, <3>1 DEF TaskHolds
  <2>11. VaultTypeOK'
    <3>1. archival' \in [Proposal -> 0 .. Len(stored')]
      BY <1>1, <2>3 DEF VaultIInv, VaultTypeOK
    <3>2. /\ ofWorker' \in BOOLEAN /\ storachaClient' \in BOOLEAN /\ known' \in BOOLEAN
          /\ identityModules' \in {"none", "some", "all"}
          /\ \A p \in {loadPromise, litClientPromise, encryptedClientPromise}' : p \in PromiseValue
      BY <1>1, TaskSays
    <3> QED BY <2>3, <3>1, <3>2 DEF VaultTypeOK, PromiseValue, Subject
  <2>12. ArchivalNamesBackup'
    <3> SUFFICES ASSUME NEW p \in Proposal, archival'[p] # NoCid PROVE stored'[archival'[p]] = p
      BY DEF ArchivalNamesBackup
    <3>1. archival[p] \in 1 .. Len(stored) /\ stored[archival[p]] = p
      BY <1>1 DEF VaultIInv, VaultTypeOK, ArchivalNamesBackup, NoCid
    <3> QED BY <1>1, <2>3, <3>1
  <2>13. (IF t = Shared THEN k.pc # "idle" ELSE task[Shared].pc # "idle")
           => encryptedClientPromise' = "pending"
    BY <1>1 DEF VaultIInv
  <2> QED BY <1>1, <2>6, <2>7, <2>8, <2>10, <2>11, <2>12, <2>13, TaskMoves
<1>3. CASE task[t].op # "backup"
  <2>1. Ends(t) /\ UNCHANGED stored
    BY <1>3 DEF Sent
  <2>2. Proceeds
    BY <1>1, <2>1, TaskSays, ProceedsSays
  <2> QED BY <1>1, <2>1, <2>2, EndsKeeps
<1> QED BY <1>2, <1>3

LEMMA archiveCIDKeeps ==
  ASSUME VaultIInv, NEW t \in VaultCall, archiveCID(t)
  PROVE  VaultIInv'
<1>1. /\ UNCHANGED <<ofWorker, stored, archival, known, identityModules, storachaClient>>
      /\ UNCHANGED <<loadPromise, litClientPromise, encryptedClientPromise>>
      /\ t \in Task /\ t # Shared /\ task[t].pc = "archiving"
  BY VaultSizes DEF archiveCID, identity, promises, backups, Task, IsAt
<1>2. Proceeds
  BY <1>1, TaskSays, ProceedsSays
<1>3. CASE Ends(t)
  BY <1>1, <1>2, <1>3, EndsKeeps
<1>4. CASE task[t].subject # EnsueTree /\ GoesTo(t, "logging")
  <2>1. PICK r \in TaskState : r = task[t] /\ TaskHolds(r)
    BY <1>1, TaskSays
  <2>2. PICK k : k = [r EXCEPT !.pc = "logging"]
    OBVIOUS
  <2>3. /\ k \in TaskState /\ k.pc = "logging" /\ k.gateway = r.gateway /\ k.cid = r.cid
        /\ k.subject = r.subject /\ k.attempt = r.attempt /\ k.op = r.op /\ k.failures = r.failures
    BY <2>2 DEF TaskState, TaskPlace
  <2>4. k.subject \in Proposal
    BY <1>4, <2>1, <2>3 DEF TaskState, Subject
  <2>5. Tried(r) => Tried(k)
    BY <1>1, <2>1, <2>3 DEF Tried
  <2>6. TaskHolds(k)
    <3>1. /\ k.gateway # 0 => storachaClient = TRUE /\ k.attempt >= 1 /\ k.op = "retrieve"
          /\ (k.gateway # 0 /\ loadPromise # "rejected" /\ litClientPromise # "rejected") => Tried(k)
      BY <2>1, <2>3, <2>5 DEF TaskHolds
    <3>2. k.cid \in 1 .. Len(stored) /\ stored[k.cid] = k.subject
      BY <1>1, <2>1, <2>3 DEF TaskHolds
    <3>3. k.pc \notin {"importing", "importing the rest", "creating", "listing", "client", "threw"}
      BY <2>3
    <3> QED BY <2>4, <3>1, <3>2, <3>3 DEF TaskHolds
  <2>7. TaskHolds(k)'
    BY <1>2, <2>3, <2>6, HoldsOn, ProceedsKeeps
  <2>8. task' = [task EXCEPT ![t] = k]
    BY <1>1, <1>4, <2>1, <2>2 DEF GoesTo, VaultIInv
  <2>9. (IF t = Shared THEN k.pc # "idle" ELSE task[Shared].pc # "idle")
          => encryptedClientPromise' = "pending"
    BY <1>1 DEF VaultIInv
  <2> QED BY <1>1, <1>2, <2>3, <2>7, <2>8, <2>9, ProceedsKeeps, TaskMoves
<1> QED BY <1>3, <1>4 DEF archiveCID

LEMMA logArchivalKeeps ==
  ASSUME VaultIInv, NEW t \in VaultCall, logArchivalToNear(t)
  PROVE  VaultIInv'
<1>1. /\ UNCHANGED <<ofWorker, stored, known, identityModules, storachaClient>>
      /\ UNCHANGED <<loadPromise, litClientPromise, encryptedClientPromise>>
      /\ t \in Task /\ t # Shared /\ task[t].pc = "logging" /\ Ends(t)
  BY VaultSizes DEF logArchivalToNear, identity, promises, Task, IsAt
<1>2. CASE UNCHANGED archival
  <2>1. Proceeds
    BY <1>1, <1>2, TaskSays, ProceedsSays
  <2> QED BY <1>1, <2>1, EndsKeeps
<1>3. CASE archival' = [archival EXCEPT ![task[t].subject] = task[t].cid]
  <2>1. PICK p \in Proposal, n \in 1 .. Len(stored) :
          p = task[t].subject /\ n = task[t].cid /\ stored[n] = p
    BY <1>1, TaskSays DEF TaskHolds
  <2>2. archival' = [archival EXCEPT ![p] = n] /\ archival \in [Proposal -> 0 .. Len(stored)]
        /\ stored \in Seq(Subject) /\ Len(stored) \in Nat
    BY <1>3, <2>1 DEF VaultIInv, VaultTypeOK, Subject
  <2>3. archival' \in [Proposal -> 0 .. Len(stored)] /\ archival'[p] = n
        /\ \A q \in Proposal \ {p} : archival'[q] = archival[q]
    BY <2>2
  <2>4. VaultTypeOK'
    <3>1. /\ ofWorker' \in BOOLEAN /\ storachaClient' \in BOOLEAN /\ known' \in BOOLEAN
          /\ identityModules' \in {"none", "some", "all"}
          /\ \A r \in {loadPromise, litClientPromise, encryptedClientPromise}' : r \in PromiseValue
      BY <1>1, TaskSays
    <3> QED BY <1>1, <2>2, <2>3, <3>1 DEF VaultTypeOK, PromiseValue, Subject
  <2>5. ArchivalNamesBackup'
    <3> SUFFICES ASSUME NEW q \in Proposal, archival'[q] # NoCid PROVE stored'[archival'[q]] = q
      BY DEF ArchivalNamesBackup
    <3> QED BY <1>1, <2>1, <2>3 DEF VaultIInv, ArchivalNamesBackup
  <2>6. GoesOn
    BY <1>1, <2>2 DEF GoesOn
  <2>7. TaskHolds(NoTask)'
    BY <2>6, NoTaskSays, HoldsOn
  <2>8. (IF t = Shared THEN NoTask.pc # "idle" ELSE task[Shared].pc # "idle")
          => encryptedClientPromise' = "pending"
    BY <1>1 DEF VaultIInv
  <2> QED BY <1>1, <2>4, <2>5, <2>6, <2>7, <2>8, NoTaskSays, TaskMoves DEF Ends
<1> QED BY <1>2, <1>3 DEF logArchivalToNear

LEMMA VaultInitHolds == VaultInit => VaultIInv
<1> SUFFICES ASSUME VaultInit PROVE VaultIInv
  OBVIOUS
<1>1. ofWorker \in BOOLEAN /\ storachaClient \in BOOLEAN /\ known \in BOOLEAN
  BY DEF VaultInit
<1>2. VaultTypeOK
  BY <1>1 DEF VaultInit, VaultTypeOK, NoCid
<1>3. task \in [Task -> TaskState] /\ \A t \in Task : task[t] = NoTask
  BY NoTaskSays DEF VaultInit
<1>4. ArchivalNamesBackup
  BY DEF VaultInit, ArchivalNamesBackup
<1> QED BY <1>2, <1>3, <1>4, NoTaskSays, VaultSizes DEF VaultIInv

LEMMA RebootKeeps ==
  ASSUME VaultIInv, Reboot
  PROVE  VaultIInv'
<1>1. ofWorker' \in BOOLEAN /\ storachaClient' \in BOOLEAN /\ known' \in BOOLEAN
  BY TaskSays, VaultSizes DEF Reboot
<1>2. UNCHANGED <<stored, archival>> /\ identityModules' = "none"
      /\ {loadPromise, litClientPromise, encryptedClientPromise}' = {"none"}
  BY DEF Reboot, backups
<1>3. VaultTypeOK'
  BY <1>1, <1>2 DEF VaultIInv, VaultTypeOK
<1>4. task' \in [Task -> TaskState] /\ \A t \in Task : task'[t] = NoTask
  BY NoTaskSays DEF Reboot
<1>5. ArchivalNamesBackup'
  BY <1>2 DEF VaultIInv, ArchivalNamesBackup
<1>6. (\A t \in Task : TaskHolds(task[t]))'
  BY <1>4, NoTaskSays DEF TaskHolds
<1> QED BY <1>3, <1>4, <1>5, <1>6, NoTaskSays, VaultSizes DEF VaultIInv

LEMMA VaultNextKeeps == VaultIInv /\ [VaultNext]_vaultVars => VaultIInv'
<1> SUFFICES ASSUME VaultIInv, [VaultNext]_vaultVars PROVE VaultIInv'
  OBVIOUS
<1>1. ASSUME NEW t \in VaultCall,
             \/ \E op \in {"getAgentDid", "vault", "retrieve", "backup"}, s \in Proposal \cup {EnsueTree} :
                  BeginTask(t, op, s)
             \/ serializeEnsueTree(t) \/ retrieveAndDecrypt(t) \/ getEncryptedClient(t)
             \/ Sent(t) \/ SendFails(t) \/ archiveCID(t) \/ logArchivalToNear(t)
      PROVE  VaultIInv'
  BY <1>1, BeginTaskKeeps, CallGoesOn, getEncryptedClientKeeps, SentKeeps, SendFailsKeeps,
     archiveCIDKeeps, logArchivalKeeps DEF Subject
<1>2. ASSUME NEW t \in Task,
             \/ BeginIdentity(t) \/ loadModules(t) \/ createStorachaClient(t) \/ IdentityFails(t)
             \/ getModules(t) \/ getLitClient(t)
      PROVE  VaultIInv'
  BY <1>2, BeginIdentityKeeps, IdentityKeeps, getModulesKeeps, getLitClientKeeps
<1>3. CASE loadVaultModules \/ createLitClient \/ Reboot
  BY <1>3, PromisesKeep, RebootKeeps
<1>4. CASE UNCHANGED vaultVars
  <2>1. UNCHANGED <<ofWorker, stored, archival, known, identityModules, storachaClient>>
        /\ UNCHANGED <<loadPromise, litClientPromise, encryptedClientPromise, task>>
    BY <1>4 DEF vaultVars, identity, promises, backups
  <2>2. Proceeds
    BY <2>1, TaskSays, VaultSizes, ProceedsSays
  <2> QED BY <2>1, <2>2, StaysKeeps
<1> QED BY <1>1, <1>2, <1>3, <1>4 DEF VaultNext

LEMMA VaultHolds == VaultIInv => VaultInv
<1> SUFFICES ASSUME VaultIInv PROVE VaultInv
  OBVIOUS
<1>1. ASSUME NEW t \in VaultCall, task[t].pc = "threw"
      PROVE  /\ (~task[t].half /\ task[t].failures = 0) => SomeRejected
             /\ (task[t].gateway > 0 /\ loadPromise # "rejected" /\ litClientPromise # "rejected")
                  => task[t].failures >= Worth(Gateways - Lost)
  <2>1. PICK r \in TaskState : r = task[t] /\ TaskHolds(r)
    BY TaskSays DEF Task
  <2>2. r.half \in BOOLEAN /\ (r.gateway > 0 => r.gateway # 0)
    BY VaultSizes DEF TaskState
  <2>3. (r.half = FALSE /\ r.failures = 0) => SomeRejected
    BY <1>1, <2>1 DEF TaskHolds
  <2>4. (r.gateway > 0 /\ loadPromise # "rejected" /\ litClientPromise # "rejected")
          => r.failures >= Worth(Gateways - Lost)
    BY <1>1, <2>1, <2>2 DEF TaskHolds, Tried
  <2> QED BY <2>1, <2>2, <2>3, <2>4
<1>2. ThrowsForCause
  BY <1>1 DEF ThrowsForCause, SomeRejected
<1>3. Worth(Gateways - Lost) = RetriesPerGateway *
        (IF encryptedClientPromise = "rejected" THEN Gateways - 1 ELSE Gateways)
  <2>1. Gateways - Lost = IF encryptedClientPromise = "rejected" THEN Gateways - 1 ELSE Gateways
    BY VaultSizes DEF Lost
  <2> QED BY <2>1 DEF Worth
<1>4. GatewaysAreTried
  BY <1>1, <1>3 DEF GatewaysAreTried
<1> QED BY <1>2, <1>4 DEF VaultInv, VaultIInv

\* A call throws for a cause of its own or of all, a retrieval tries every gateway first,
\* and Ensue names a backup of the right proposal, whatever calls overlap, fail or are cut.
THEOREM VaultCorrect == VaultSpec => []VaultInv
<1>1. VaultSpec => []VaultIInv
  BY VaultInitHolds, VaultNextKeeps, PTL DEF VaultSpec
<1> QED BY <1>1, VaultHolds, PTL

-----------------------------------------------------------------------------
(* The older client *)

NovaPlace == {"idle", "ensureGroup", "listing", "loading", "retrieving", "uploading", "uploaded",
              "pausing", "saving", "saved"}
NovaState == [pc : NovaPlace, file : File, edit : 0 .. MaxWrites, edits : SUBSET Edit, cid : Nat,
              cids : [File -> Nat]]

\* A position under a name is that of a document uploaded under it.
Right(f, cid) ==
  cid # 0 => cid \in 1 .. Len(uploads) /\ uploads[cid].registry = FALSE /\ uploads[cid].file = f

UploadRight(u) == u.by \in members /\ (u.registry = TRUE => \A f \in File : Right(f, u.cids[f]))

\* What a call has in hand.
SlotRight(a, s, c) ==
  /\ c.pc \in {"retrieving", "uploaded", "saved", "loading"} => c.cid \in 1 .. Len(uploads)
  /\ c.pc = "uploaded" => /\ uploads[c.cid].registry = FALSE /\ uploads[c.cid].file = c.file
                          /\ uploads[c.cid].edits = c.edits
  /\ c.pc = "saving" => \A f \in File : Right(f, c.cids[f])
  /\ c.pc \in {"pausing", "saving", "saved"} => cidRegistry[a][c.file] # 0
  /\ c.file \in Edit => c.file <= written
  /\ s # Start /\ c.pc # "idle" => c.edit # 0

NovaTyped ==
  /\ members \subseteq WorkerId /\ inTurn \in BOOLEAN /\ smooth \in BOOLEAN
  /\ novaAvailable \in [WorkerId -> BOOLEAN]
  /\ cidRegistry \in [WorkerId -> [File -> Nat]]
  /\ uploads \in Seq(Upload)
  /\ kept \in [WorkerId -> SUBSET (File \X Edit)]
  /\ written \in 0 .. MaxWrites /\ anew \subseteq WorkerId
  /\ nova \in [WorkerId -> [NovaSlot -> NovaState]]

\* What holds whatever calls overlap, fail or share the group.
NovaRight ==
  /\ NovaTyped
  /\ \A i \in 1 .. Len(uploads) : UploadRight(uploads[i])
  /\ \A a \in WorkerId, f \in File : Right(f, cidRegistry[a][f])
  /\ \A a \in WorkerId, s \in NovaSlot : SlotRight(a, s, nova[a][s])
  /\ \A a \in WorkerId, k \in File \X Edit :
       k \in kept[a] => /\ a \notin anew => cidRegistry[a][k[1]] # 0
                        /\ k[1] \in Edit => k[1] <= written

LEMMA NovaNames ==
  /\ Start \in NovaSlot /\ Start \notin NovaCall /\ NovaCall \subseteq NovaSlot
  /\ Manifesto \in File /\ Preferences \in File /\ Edit \subseteq File
  /\ Manifesto \notin Edit /\ Preferences \notin Edit /\ MaxWrites \in Nat
  /\ Empty \in [File -> Nat] /\ \A f \in File : Empty[f] = 0
BY NovaAssumption DEF Start, NovaSlot, NovaCall, File, Edit, Empty

LEMMA NoWorkSays ==
  /\ NoWork \in NovaState /\ NoWork.pc = "idle" /\ NoWork.file = Manifesto /\ NoWork.edit = 0
  /\ NoWork.edits = {} /\ NoWork.cid = 0 /\ NoWork.cids = Empty
<1>1. NoWork \in NovaState
  <2>1. 0 \in 0 .. MaxWrites
    BY NovaNames
  <2> QED BY <2>1, NovaNames DEF NoWork, NoEdit, NovaState, NovaPlace
<1> QED BY <1>1 DEF NoWork, NoEdit

\* A slot without work is right, in any state.
LEMMA IdleRight ==
  ASSUME NEW a, NEW s
  PROVE  SlotRight(a, s, NoWork) /\ SlotRight(a, s, NoWork)'
BY NoWorkSays, NovaNames DEF SlotRight

\* The uploads of the group: those that were are there still, and all are right.
UploadsGo ==
  /\ uploads' \in Seq(Upload) /\ Len(uploads) \in Nat /\ Len(uploads') \in Nat
  /\ Len(uploads) <= Len(uploads')
  /\ \A i \in 1 .. Len(uploads) : uploads'[i] = uploads[i]
  /\ (\A i \in 1 .. Len(uploads) : UploadRight(uploads[i]))'

LEMMA RightOn ==
  ASSUME UploadsGo, NEW f, NEW cid \in Nat, Right(f, cid)
  PROVE  Right(f, cid)'
BY DEF UploadsGo, Right

LEMMA UploadsStay ==
  ASSUME NovaRight, UNCHANGED <<uploads, members>>
  PROVE  UploadsGo
<1>1. uploads \in Seq(Upload) /\ Len(uploads) \in Nat
  BY DEF NovaRight, NovaTyped
<1>2. ASSUME NEW i \in 1 .. Len(uploads') PROVE UploadRight(uploads[i])'
  BY DEF NovaRight, UploadRight, Right
<1> QED BY <1>1, <1>2 DEF UploadsGo

LEMMA UploadsAppend ==
  ASSUME NovaRight, NEW u \in Upload, uploads' = Append(uploads, u), members' = members,
         UploadRight(u)
  PROVE  /\ UploadsGo /\ Len(uploads') = Len(uploads) + 1 /\ Len(uploads) \in Nat
         /\ uploads'[Len(uploads')] = u
<1>1. /\ uploads \in Seq(Upload) /\ uploads' \in Seq(Upload)
      /\ Len(uploads) \in Nat /\ Len(uploads') \in Nat /\ Len(uploads') = Len(uploads) + 1
      /\ uploads'[Len(uploads) + 1] = u
      /\ \A i \in 1 .. Len(uploads) : uploads'[i] = uploads[i]
  BY DEF NovaRight, NovaTyped
<1>2. ASSUME NEW f, NEW cid \in Nat, Right(f, cid) PROVE Right(f, cid)'
  BY <1>1, <1>2 DEF Right
<1>3. ASSUME NEW v \in Upload, UploadRight(v) PROVE UploadRight(v)'
  <2>1. v.cids \in [File -> Nat]
    BY DEF Upload
  <2> QED BY <1>2, <1>3, <2>1 DEF UploadRight
<1>4. ASSUME NEW i \in 1 .. Len(uploads') PROVE UploadRight(uploads[i])'
  <2>1. PICK v \in Upload : v = uploads'[i] /\ UploadRight(v)
    <3>1. CASE i = Len(uploads) + 1
      BY <1>1, <3>1
    <3>2. CASE i \in 1 .. Len(uploads)
      BY <1>1, <3>2 DEF NovaRight
    <3> QED BY <1>1, <3>1, <3>2
  <2>2. UploadRight(v)'
    BY <1>3, <2>1
  <2> QED BY <2>1, <2>2 DEF UploadRight, Right
<1> QED BY <1>1, <1>4 DEF UploadsGo

\* A step of one call.
LEMMA SlotSteps ==
  ASSUME NovaRight, UploadsGo, NEW a \in members, NEW s \in NovaSlot, NEW d \in NovaState,
         NEW reg \in [File -> Nat],
         Becomes(a, s, d), SlotRight(a, s, d)',
         cidRegistry' = [cidRegistry EXCEPT ![a] = reg], (\A f \in File : Right(f, reg[f]))',
         \A f \in File : cidRegistry[a][f] # 0 => reg[f] # 0,
         UNCHANGED <<members, inTurn, anew>>, smooth' \in BOOLEAN,
         novaAvailable' \in [WorkerId -> BOOLEAN],
         written' \in 0 .. MaxWrites, written <= written',
         kept' \in [WorkerId -> SUBSET (File \X Edit)],
         \A b \in WorkerId, k \in File \X Edit :
           k \in kept'[b] => \/ k \in kept[b]
                             \/ b = a /\ reg[k[1]] # 0 /\ (k[1] \in Edit => k[1] <= written)
  PROVE  NovaRight'
<1>1. /\ a \in WorkerId /\ nova'[a][s] = d /\ cidRegistry'[a] = reg
      /\ \A b \in WorkerId, t \in NovaSlot : b # a \/ t # s => nova'[b][t] = nova[b][t]
      /\ \A b \in WorkerId : b # a => cidRegistry'[b] = cidRegistry[b]
      /\ nova' \in [WorkerId -> [NovaSlot -> NovaState]]
      /\ cidRegistry' \in [WorkerId -> [File -> Nat]]
  BY DEF NovaRight, NovaTyped, Becomes
<1>2. NovaTyped'
  BY <1>1 DEF NovaRight, NovaTyped, UploadsGo
<1>3. (\A i \in 1 .. Len(uploads) : UploadRight(uploads[i]))'
  BY DEF UploadsGo
<1>4. ASSUME NEW b \in WorkerId, NEW f \in File PROVE Right(f, cidRegistry[b][f])'
  <2>1. PICK n \in Nat : n = cidRegistry'[b][f]
    BY <1>1
  <2>2. Right(f, n)'
    <3>1. CASE b = a
      BY <1>1, <2>1, <3>1 DEF Right
    <3>2. CASE b # a
      <4>1. n = cidRegistry[b][f] /\ Right(f, n)
        BY <1>1, <2>1, <3>2 DEF NovaRight
      <4> QED BY <4>1, RightOn
    <3> QED BY <3>1, <3>2
  <2> QED BY <2>1, <2>2 DEF Right
<1>5. \A b \in WorkerId, f \in File : cidRegistry[b][f] # 0 => cidRegistry'[b][f] # 0
  BY <1>1
<1>6. ASSUME NEW b \in WorkerId, NEW t \in NovaSlot PROVE SlotRight(b, t, nova[b][t])'
  <2>1. PICK c \in NovaState : c = nova'[b][t]
    BY <1>1
  <2>2. SlotRight(b, t, c)'
    <3>1. CASE b = a /\ t = s
      BY <1>1, <2>1, <3>1
    <3>2. CASE b # a \/ t # s
      <4>1. c = nova[b][t] /\ SlotRight(b, t, c)
        BY <1>1, <2>1, <3>2 DEF NovaRight
      <4>2. c.file \in File /\ c.cids \in [File -> Nat]
        BY DEF NovaState
      <4>3. c.pc \in {"retrieving", "uploaded", "saved", "loading"} =>
              c.cid \in 1 .. Len(uploads') /\ uploads'[c.cid] = uploads[c.cid]
        BY <4>1 DEF SlotRight, UploadsGo
      <4>4. c.pc = "saving" => (\A f \in File : Right(f, c.cids[f]))'
        BY <4>1, <4>2, RightOn DEF SlotRight
      <4>5. c.file \in Edit => c.file <= written'
        BY <4>1 DEF SlotRight, Edit, NovaRight, NovaTyped
      <4> QED BY <1>5, <4>1, <4>2, <4>3, <4>4, <4>5 DEF SlotRight
    <3> QED BY <3>1, <3>2
  <2> QED BY <2>1, <2>2 DEF SlotRight, Right
<1>7. ASSUME NEW b \in WorkerId, NEW k \in File \X Edit, k \in kept'[b]
      PROVE  (b \notin anew' => cidRegistry'[b][k[1]] # 0) /\ (k[1] \in Edit => k[1] <= written')
  <2>1. k[1] \in File /\ written \in Nat /\ written' \in Nat
    BY DEF NovaRight, NovaTyped
  <2>2. CASE k \in kept[b]
    BY <1>5, <1>7, <2>1, <2>2 DEF NovaRight, Edit
  <2>3. CASE b = a /\ reg[k[1]] # 0 /\ (k[1] \in Edit => k[1] <= written)
    BY <1>1, <2>1, <2>3 DEF Edit
  <2> QED BY <1>7, <2>2, <2>3
<1> QED BY <1>2, <1>3, <1>4, <1>6, <1>7 DEF NovaRight

\* A step of one call that records nothing.
LEMMA SlotStepsSame ==
  ASSUME NovaRight, NEW a \in members, NEW s \in NovaSlot, NEW d \in NovaState,
         Becomes(a, s, d), SlotRight(a, s, d)',
         UNCHANGED <<members, inTurn, anew, uploads, cidRegistry, kept>>, smooth' \in BOOLEAN,
         novaAvailable' \in [WorkerId -> BOOLEAN],
         written' \in 0 .. MaxWrites, written <= written'
  PROVE  NovaRight'
<1>1. a \in WorkerId /\ UploadsGo
  BY UploadsStay DEF NovaRight, NovaTyped
<1>2. PICK reg \in [File -> Nat] : reg = cidRegistry[a] /\ cidRegistry' = [cidRegistry EXCEPT ![a] = reg]
  BY <1>1 DEF NovaRight, NovaTyped
<1>3. \A f \in File : Right(f, reg[f])
  BY <1>1, <1>2 DEF NovaRight
<1>4. (\A f \in File : Right(f, reg[f]))'
  BY <1>1, <1>3, RightOn
<1>5. kept' \in [WorkerId -> SUBSET (File \X Edit)]
  BY DEF NovaRight, NovaTyped
<1> QED BY <1>1, <1>2, <1>4, <1>5, SlotSteps

\* What of a step's parts is typed when they stay.
LEMMA NovaStays ==
  ASSUME NovaRight
  PROVE  /\ smooth \in BOOLEAN /\ novaAvailable \in [WorkerId -> BOOLEAN]
         /\ written \in 0 .. MaxWrites /\ written \in Nat /\ written <= written
         /\ members \subseteq WorkerId /\ kept \in [WorkerId -> SUBSET (File \X Edit)]
         /\ Len(uploads) \in Nat /\ uploads \in Seq(Upload)
BY NovaNames DEF NovaRight, NovaTyped

LEMMA SlotSays ==
  ASSUME NovaRight, NEW a \in WorkerId, NEW s \in NovaSlot
  PROVE  /\ nova[a][s] \in NovaState /\ SlotRight(a, s, nova[a][s])
         /\ cidRegistry[a] \in [File -> Nat] /\ \A f \in File : Right(f, cidRegistry[a][f])
BY DEF NovaRight, NovaTyped

\* Either the upload begins, or the call throws.
LEMMA uploadJsonSays ==
  ASSUME NovaRight, NEW a, NEW s, NEW c \in NovaState, uploadJson(a, s, c)
  PROVE  \E d \in NovaState :
           /\ Becomes(a, s, d) /\ smooth' \in BOOLEAN
           /\ (d = c /\ smooth' = smooth) \/ (d = NoWork /\ smooth' = FALSE)
BY NoWorkSays, NovaStays DEF uploadJson, Throws

\* What a start goes on to.
LEMMA SeedSays ==
  ASSUME NovaRight, NEW a, NEW cids \in [File -> Nat], Seed(a, cids)
  PROVE  \E d \in NovaState :
           /\ Becomes(a, Start, d) /\ smooth' \in BOOLEAN
           /\ \/ d = NoWork /\ smooth' = FALSE
              \/ d = NoWork /\ smooth' = smooth /\ cids[Manifesto] # 0
              \/ /\ d.pc = "uploading" /\ d.file \in {Manifesto, Preferences}
                 /\ cids[d.file] = 0 /\ smooth' = smooth
<1>1. CASE Missing(cids) = {}
  <2>1. cids[Manifesto] # 0
    BY <1>1 DEF Missing
  <2> QED BY <1>1, <2>1, NoWorkSays, NovaStays DEF Seed
<1>2. CASE Missing(cids) # {}
  <2>1. PICK f \in {Manifesto, Preferences} :
          /\ cids[f] = 0 /\ f = IF cids[Manifesto] = 0 THEN Manifesto ELSE Preferences
    BY <1>2 DEF Missing
  <2>2. PICK c : c = [NoWork EXCEPT !.pc = "uploading", !.file = f] /\ c = Seeding(cids)
    BY <2>1 DEF Seeding
  <2>3. c \in NovaState /\ c.pc = "uploading" /\ c.file = f
    <3>1. f \in File /\ c = [NoWork EXCEPT !.pc = "uploading", !.file = f]
      BY <2>1, <2>2, NovaNames
    <3> QED BY <3>1, NoWorkSays DEF NovaState, NovaPlace
  <2>4. uploadJson(a, Start, c)
    BY <1>2, <2>2 DEF Seed
  <2>5. PICK d \in NovaState :
           /\ Becomes(a, Start, d) /\ smooth' \in BOOLEAN
           /\ (d = c /\ smooth' = smooth) \/ (d = NoWork /\ smooth' = FALSE)
    BY <2>3, <2>4, uploadJsonSays
  <2> QED BY <2>1, <2>3, <2>5
<1> QED BY <1>1, <1>2

\* A document that begins to be uploaded is right, as long as its file is.
LEMMA UploadingRight ==
  ASSUME NovaRight, NEW a, NEW s, NEW d \in NovaState, d.pc \in {"uploading", "ensureGroup", "listing"},
         d.file \in {Manifesto, Preferences} \/ d.file <= written', s = Start \/ d.edit # 0
  PROVE  SlotRight(a, s, d)'
BY NovaNames DEF SlotRight

LEMMA StartStepsRight ==
  ASSUME NovaRight, NEW a \in members,
         ensureGroup(a) \/ listGroupTransactions(a) \/ LoadFails(a)
  PROVE  NovaRight'
<1>1. /\ UNCHANGED <<members, inTurn, anew, uploads, cidRegistry, kept, written>> /\ a \in WorkerId
      /\ written' \in 0 .. MaxWrites /\ written <= written'
  BY NovaStays DEF ensureGroup, listGroupTransactions, LoadFails
<1>2. CASE ensureGroup(a)
  <2>1. novaAvailable' \in [WorkerId -> BOOLEAN] /\ smooth' \in BOOLEAN
    BY <1>1, <1>2, NovaStays DEF ensureGroup, Throws
  <2>2. PICK d \in {NoWork, [NoWork EXCEPT !.pc = "listing"]} : Becomes(a, Start, d)
    BY <1>2 DEF ensureGroup, Throws
  <2>3. d \in NovaState /\ (d = NoWork \/ (d.pc = "listing" /\ d.file = Manifesto))
    BY <2>2, NoWorkSays DEF NovaState, NovaPlace
  <2>4. SlotRight(a, Start, d)'
    BY <2>3, IdleRight, UploadingRight
  <2> QED BY <1>1, <2>1, <2>2, <2>3, <2>4, NovaNames, SlotStepsSame
<1>3. CASE listGroupTransactions(a)
  <2>1. novaAvailable' \in [WorkerId -> BOOLEAN]
    BY <1>3, NovaStays DEF listGroupTransactions
  <2>2. CASE uploads = << >>
    <3>1. Seed(a, cidRegistry[a]) /\ cidRegistry[a] \in [File -> Nat]
      BY <1>1, <1>3, <2>2, SlotSays, NovaNames DEF listGroupTransactions
    <3>2. PICK d \in NovaState :
            /\ Becomes(a, Start, d) /\ smooth' \in BOOLEAN
            /\ d = NoWork \/ (d.pc = "uploading" /\ d.file \in {Manifesto, Preferences})
      BY <3>1, SeedSays
    <3>3. SlotRight(a, Start, d)'
      BY <3>2, IdleRight, UploadingRight
    <3> QED BY <1>1, <2>1, <3>2, <3>3, NovaNames, SlotStepsSame
  <2>3. CASE uploads # << >>
    <3>1. PICK n \in Nat : n = Len(uploads) /\ n >= 1
      BY <2>3, NovaStays
    <3>2. PICK d : d = [NoWork EXCEPT !.pc = "loading", !.cid = n]
      OBVIOUS
    <3>3. d \in NovaState /\ d.pc = "loading" /\ d.cid = n /\ d.file = Manifesto
      BY <3>2, NoWorkSays DEF NovaState, NovaPlace
    <3>4. Becomes(a, Start, d) /\ smooth' = smooth
      BY <1>3, <2>3, <3>1, <3>2 DEF listGroupTransactions
    <3>5. SlotRight(a, Start, d)'
      BY <1>1, <3>1, <3>3, NovaNames DEF SlotRight
    <3>6. Start \in NovaSlot /\ smooth' \in BOOLEAN
      BY <3>4, NovaNames, NovaStays
    <3> QED BY <1>1, <2>1, <3>3, <3>4, <3>5, <3>6, SlotStepsSame
  <2> QED BY <2>2, <2>3
<1>4. CASE LoadFails(a)
  <2>1. novaAvailable' \in [WorkerId -> BOOLEAN] /\ smooth' \in BOOLEAN
    BY <1>4, NovaStays DEF LoadFails
  <2>2. PICK f \in {Manifesto, Preferences} :
          f = IF cidRegistry[a][Manifesto] = 0 THEN Manifesto ELSE Preferences
    OBVIOUS
  <2>3. PICK d : /\ Becomes(a, Start, d)
                 /\ d = NoWork \/ d = [NoWork EXCEPT !.pc = "uploading", !.file = f]
    BY <1>4, <2>2 DEF LoadFails, Seeding
  <2>4. d = NoWork \/ (d.pc = "uploading" /\ d.file = f /\ d \in NovaState)
    BY ZenonT(40), <2>3, NoWorkSays, NovaNames DEF NovaState, NovaPlace
  <2>5. SlotRight(a, Start, d)' /\ d \in NovaState
    BY <2>4, NoWorkSays, IdleRight, UploadingRight
  <2> QED BY <1>1, <2>1, <2>3, <2>5, NovaNames, SlotStepsSame
<1> QED BY <1>2, <1>3, <1>4

LEMMA loadRegistryRight ==
  ASSUME NovaRight, NEW a \in members, loadRegistry(a)
  PROVE  NovaRight'
<1>1. /\ UNCHANGED <<members, inTurn, anew, uploads, kept, written, novaAvailable>> /\ a \in WorkerId
      /\ In(a, Start, "loading") /\ UploadsGo
  BY NovaStays, UploadsStay DEF loadRegistry
<1>2. PICK last \in Upload : last = uploads[nova[a][Start].cid] /\ UploadRight(last)
  <2>1. nova[a][Start].cid \in 1 .. Len(uploads)
    BY <1>1, SlotSays, NovaNames DEF SlotRight, In
  <2> QED BY <2>1, NovaStays DEF NovaRight
<1>3. PICK reg : /\ reg = IF last.registry THEN Loaded(a, last.cids) ELSE cidRegistry[a]
                 /\ cidRegistry' = [cidRegistry EXCEPT ![a] = reg] /\ Seed(a, reg)
  BY <1>2 DEF loadRegistry
<1>4. last.cids \in [File -> Nat] /\ last.registry \in BOOLEAN
  BY DEF Upload
<1>5. /\ reg \in [File -> Nat]
      /\ \A f \in File : reg[f] = cidRegistry[a][f] \/ (last.registry = TRUE /\ reg[f] = last.cids[f] /\ reg[f] # 0)
  <2>1. CASE last.registry = TRUE
    <3>1. reg = Loaded(a, last.cids) /\ cidRegistry[a] \in [File -> Nat]
      BY <1>1, <1>3, <2>1, SlotSays, NovaNames
    <3> QED BY <1>4, <2>1, <3>1 DEF Loaded
  <2>2. CASE last.registry = FALSE
    BY <1>1, <1>3, <2>2, SlotSays, NovaNames
  <2> QED BY <1>4, <2>1, <2>2
<1>6. \A f \in File : Right(f, reg[f]) /\ (cidRegistry[a][f] # 0 => reg[f] # 0)
  BY <1>1, <1>2, <1>5, SlotSays, NovaNames DEF UploadRight
<1>7. (\A f \in File : Right(f, reg[f]))'
  BY <1>1, <1>5, <1>6, RightOn
<1>8. PICK d \in NovaState :
        /\ Becomes(a, Start, d) /\ smooth' \in BOOLEAN
        /\ d = NoWork \/ (d.pc = "uploading" /\ d.file \in {Manifesto, Preferences})
  BY <1>3, <1>5, SeedSays
<1>9. SlotRight(a, Start, d)'
  BY <1>8, IdleRight, UploadingRight
<1>10. /\ written' \in 0 .. MaxWrites /\ written <= written'
       /\ novaAvailable' \in [WorkerId -> BOOLEAN] /\ kept' \in [WorkerId -> SUBSET (File \X Edit)]
  BY <1>1, NovaStays
<1>11. \A b \in WorkerId, k \in File \X Edit : k \in kept'[b] => k \in kept[b]
  BY <1>1
<1>12. \A f \in File : cidRegistry[a][f] # 0 => reg[f] # 0
  BY <1>6
<1> QED BY <1>1, <1>3, <1>5, <1>7, <1>8, <1>9, <1>10, <1>11, <1>12, NovaNames, SlotSteps

LEMMA RecordKeepsRight ==
  ASSUME NovaRight, NEW a \in members, NEW s \in NovaCall, recordDecision(a, s, written + 1)
  PROVE  NovaRight'
<1>1. PICK e \in Edit : e = written + 1 /\ written' = e /\ written' \in 0 .. MaxWrites /\ written <= written'
  BY NovaStays, NovaNames DEF recordDecision, MayCall, Edit
<1>2. PICK d : d = [NoWork EXCEPT !.pc = "uploading", !.file = e, !.edit = e, !.edits = {e}]
  OBVIOUS
<1>3. e \in File /\ e \in 0 .. MaxWrites /\ e # 0 /\ {e} \in SUBSET Edit
  BY <1>1, NovaNames DEF Edit
<1>4. d \in NovaState /\ d.pc = "uploading" /\ d.file = e /\ d.edit = e
  BY <1>2, <1>3, NoWorkSays DEF NovaState, NovaPlace
<1>5. SlotRight(a, s, d)'
  BY <1>1, <1>3, <1>4, UploadingRight
<1>6. Becomes(a, s, d)
  BY <1>1, <1>2 DEF recordDecision
<1>7. /\ UNCHANGED <<members, inTurn, anew, uploads, cidRegistry, kept>> /\ smooth' \in BOOLEAN
      /\ novaAvailable' \in [WorkerId -> BOOLEAN]
  BY NovaStays DEF recordDecision
<1> QED BY <1>1, <1>4, <1>5, <1>6, <1>7, NovaNames, SlotStepsSame

LEMMA updateKeepsRight ==
  ASSUME NovaRight, NEW a \in members, NEW s \in NovaCall, NEW f \in {Manifesto, Preferences},
         update(a, s, f, written + 1)
  PROVE  NovaRight'
<1>1. PICK e \in Edit : e = written + 1 /\ written' = e /\ written' \in 0 .. MaxWrites /\ written <= written'
  BY NovaStays, NovaNames DEF update, MayCall, Edit
<1>2. PICK n \in Nat, pc \in {"uploading", "retrieving"} :
        n = cidRegistry[a][f] /\ pc = IF n = 0 THEN "uploading" ELSE "retrieving"
  BY NovaStays, SlotSays, NovaNames
<1>3. PICK d : d = [NoWork EXCEPT !.pc = pc, !.file = f, !.edit = e, !.edits = {e}, !.cid = n]
  OBVIOUS
<1>4. e \in 0 .. MaxWrites /\ e # 0 /\ {e} \in SUBSET Edit /\ f \in File /\ f \notin Edit
  BY <1>1, NovaNames DEF Edit
<1>5. d \in NovaState /\ d.pc = pc /\ d.file = f /\ d.edit = e /\ d.cid = n
  BY <1>2, <1>3, <1>4, NoWorkSays DEF NovaState, NovaPlace
<1>6. /\ UNCHANGED <<members, inTurn, anew, uploads, cidRegistry, kept>> /\ smooth' \in BOOLEAN
      /\ novaAvailable' \in [WorkerId -> BOOLEAN]
  BY NovaStays DEF update
<1>7. n # 0 => n \in 1 .. Len(uploads')
  BY <1>2, <1>4, <1>6, NovaStays, SlotSays, NovaNames DEF Right
<1>8. SlotRight(a, s, d)'
  BY <1>2, <1>4, <1>5, <1>7 DEF SlotRight
<1>9. Becomes(a, s, d)
  BY <1>1, <1>2, <1>3 DEF update
<1> QED BY <1>1, <1>5, <1>6, <1>8, <1>9, NovaNames, SlotStepsSame

\* The calls that go on to an upload, or end.
LEMMA GoingOnRight ==
  ASSUME NovaRight, NEW a \in members, NEW s \in NovaSlot,
         retrieveJson(a, s) \/ saveRegistry(a, s) \/ UploadFails(a, s)
  PROVE  NovaRight'
<1>1. /\ UNCHANGED <<members, inTurn, anew, uploads, cidRegistry, kept, written, novaAvailable>>
      /\ a \in WorkerId /\ novaAvailable' \in [WorkerId -> BOOLEAN]
      /\ written' \in 0 .. MaxWrites /\ written <= written' /\ UploadsGo
  BY NovaStays, UploadsStay DEF retrieveJson, saveRegistry, UploadFails
<1>2. PICK c \in NovaState : c = nova[a][s] /\ SlotRight(a, s, c)
  BY <1>1, SlotSays
<1>3. CASE retrieveJson(a, s)
  <2>1. PICK more \in SUBSET Edit : more = uploads[c.cid].edits
    <3>1. c.cid \in 1 .. Len(uploads)
      BY <1>2, <1>3 DEF retrieveJson, In, SlotRight
    <3>2. uploads[c.cid] \in Upload
      BY <3>1, NovaStays
    <3> QED BY <3>2 DEF Upload
  <2>2. PICK e : e = [c EXCEPT !.pc = "uploading", !.edits = @ \cup more]
    OBVIOUS
  <2>3. e \in NovaState /\ e.pc = "uploading" /\ e.file = c.file /\ e.edit = c.edit
    BY <2>1, <2>2 DEF NovaState, NovaPlace
  <2>4. uploadJson(a, s, e)
    BY <1>2, <1>3, <2>1, <2>2 DEF retrieveJson
  <2>5. PICK d \in NovaState : Becomes(a, s, d) /\ smooth' \in BOOLEAN /\ (d = e \/ d = NoWork)
    BY <2>3, <2>4, uploadJsonSays
  <2>6. SlotRight(a, s, e)'
    BY <1>1, <1>2, <1>3, <2>3 DEF retrieveJson, In, SlotRight
  <2>7. SlotRight(a, s, d)'
    BY <2>5, <2>6, IdleRight
  <2> QED BY <1>1, <2>5, <2>7, SlotStepsSame
<1>4. CASE saveRegistry(a, s)
  <2>1. PICK reg \in [File -> Nat] : reg = cidRegistry[a] /\ \A f \in File : Right(f, reg[f])
    BY <1>1, SlotSays
  <2>2. PICK e : e = Saving(c, reg)
    OBVIOUS
  <2>3. /\ e \in NovaState /\ e.pc = "saving" /\ e.file = c.file /\ e.edit = c.edit /\ e.cids = reg
    BY <2>1, <2>2, NoWorkSays DEF Saving, NovaState, NovaPlace
  <2>4. uploadJson(a, s, e)
    BY <1>2, <1>4, <2>1, <2>2 DEF saveRegistry
  <2>5. PICK d \in NovaState : Becomes(a, s, d) /\ smooth' \in BOOLEAN /\ (d = e \/ d = NoWork)
    BY <2>3, <2>4, uploadJsonSays
  <2>6. (\A f \in File : Right(f, reg[f]))'
    BY <1>1, <2>1, RightOn
  <2>7. cidRegistry[a][c.file] # 0
    BY <1>2, <1>4 DEF saveRegistry, In, SlotRight
  <2>8. SlotRight(a, s, e)'
    BY <1>1, <1>2, <1>4, <2>3, <2>6, <2>7 DEF saveRegistry, In, SlotRight
  <2>9. SlotRight(a, s, d)'
    BY <2>5, <2>8, IdleRight
  <2> QED BY <1>1, <2>5, <2>9, SlotStepsSame
<1>5. CASE UploadFails(a, s)
  <2>1. Becomes(a, s, NoWork) /\ smooth' \in BOOLEAN
    BY <1>5 DEF UploadFails, Throws
  <2> QED BY <1>1, <2>1, NoWorkSays, IdleRight, SlotStepsSame
<1> QED BY <1>3, <1>4, <1>5

\* What is recorded, once or twice.
LEMMA RecordedRight ==
  ASSUME NovaRight, NEW a \in members, NEW s \in NovaSlot, robustUpload(a, s) \/ withRetry(a, s)
  PROVE  NovaRight'
<1>1. /\ UNCHANGED <<members, inTurn, anew, cidRegistry, kept, written, novaAvailable, smooth>>
      /\ a \in WorkerId /\ novaAvailable' \in [WorkerId -> BOOLEAN] /\ smooth' \in BOOLEAN
      /\ written' \in 0 .. MaxWrites /\ written <= written'
      /\ kept' \in [WorkerId -> SUBSET (File \X Edit)]
  BY NovaStays DEF robustUpload, withRetry
<1>2. PICK c \in NovaState : c = nova[a][s] /\ SlotRight(a, s, c)
  BY <1>1, SlotSays
<1>3. PICK u \in Upload, pc \in NovaPlace :
        /\ uploads' = Append(uploads, u) /\ UploadRight(u)
        /\ Becomes(a, s, [c EXCEPT !.pc = pc, !.cid = Len(uploads')])
        /\ pc = "uploaded" => u.registry = FALSE /\ u.file = c.file /\ u.edits = c.edits
        /\ pc = "saved" => cidRegistry[a][c.file] # 0
        /\ pc \in {"uploaded", "saved"} /\ c.pc # "idle"
  <2>1. CASE robustUpload(a, s)
    <3>1. PICK u : u = [by |-> a, registry |-> c.pc = "saving", file |-> c.file,
                        edits |-> c.edits, cids |-> c.cids]
      OBVIOUS
    <3>2. u \in Upload
      BY <1>1, <3>1 DEF Upload, NovaState
    <3>3. u.by = a /\ u.file = c.file /\ u.edits = c.edits /\ u.cids = c.cids
      BY <3>1
    <3>4. (c.pc = "saving" => u.registry = TRUE) /\ (c.pc # "saving" => u.registry = FALSE)
      BY <3>1, Zenon
    <3>5. UploadRight(u)
      BY <1>2, <3>3, <3>4 DEF UploadRight, SlotRight
    <3>6. CASE c.pc = "saving"
      <4>1. Becomes(a, s, [c EXCEPT !.pc = "saved", !.cid = Len(uploads')])
        BY <1>2, <2>1, <3>6 DEF robustUpload
      <4>2. uploads' = Append(uploads, u)
        BY <1>2, <2>1, <3>1, Zenon DEF robustUpload
      <4>3. cidRegistry[a][c.file] # 0
        BY <1>2, <3>6 DEF SlotRight
      <4> QED BY <3>2, <3>5, <3>6, <4>1, <4>2, <4>3 DEF NovaPlace
    <3>7. CASE c.pc = "uploading"
      <4>1. Becomes(a, s, [c EXCEPT !.pc = "uploaded", !.cid = Len(uploads')])
        BY <1>2, <2>1, <3>7 DEF robustUpload
      <4>2. uploads' = Append(uploads, u)
        BY <1>2, <2>1, <3>1, Zenon DEF robustUpload
      <4> QED BY <3>2, <3>3, <3>4, <3>5, <3>7, <4>1, <4>2 DEF NovaPlace
    <3> QED BY <1>2, <2>1, <3>6, <3>7 DEF robustUpload
  <2>2. CASE withRetry(a, s)
    <3>1. c.pc \in {"uploaded", "saved"} /\ c.cid \in 1 .. Len(uploads)
      BY <1>2, <2>2 DEF withRetry, In, SlotRight
    <3>2. PICK u \in Upload : u = uploads[c.cid] /\ UploadRight(u)
      BY <3>1, NovaStays DEF NovaRight
    <3>3. c = [c EXCEPT !.pc = c.pc]
      BY DEF NovaState
    <3>4. Becomes(a, s, [c EXCEPT !.pc = c.pc, !.cid = Len(uploads')])
      <4>1. [c EXCEPT !.cid = Len(uploads')] = [c EXCEPT !.pc = c.pc, !.cid = Len(uploads')]
        BY DEF NovaState
      <4> QED BY <1>2, <2>2, <4>1 DEF withRetry
    <3>5. uploads' = Append(uploads, u)
      BY <1>2, <2>2, <3>2 DEF withRetry
    <3> QED BY <1>2, <3>1, <3>2, <3>4, <3>5 DEF SlotRight, NovaPlace
  <2> QED BY <2>1, <2>2
<1>4. UploadsGo /\ Len(uploads') \in Nat /\ Len(uploads') \in 1 .. Len(uploads')
      /\ uploads'[Len(uploads')] = u
  BY <1>1, <1>3, UploadsAppend DEF UploadsGo
<1>5. PICK n \in Nat : n = Len(uploads')
  BY <1>4
<1>6. PICK d : d = [c EXCEPT !.pc = pc, !.cid = n] /\ Becomes(a, s, d)
  BY <1>3, <1>5
<1>7. /\ d \in NovaState /\ d.pc = pc /\ d.cid = n /\ d.file = c.file /\ d.edits = c.edits
      /\ d.edit = c.edit
  BY <1>6 DEF NovaState
<1>8. SlotRight(a, s, d)'
  BY <1>1, <1>2, <1>3, <1>4, <1>5, <1>7 DEF SlotRight
<1>9. PICK reg \in [File -> Nat] :
        /\ reg = cidRegistry[a] /\ cidRegistry' = [cidRegistry EXCEPT ![a] = reg]
        /\ \A f \in File : Right(f, reg[f])
  BY <1>1, SlotSays DEF NovaRight, NovaTyped
<1>10. (\A f \in File : Right(f, reg[f]))' /\ \A f \in File : cidRegistry[a][f] # 0 => reg[f] # 0
  BY <1>4, <1>9, RightOn
<1>11. \A b \in WorkerId, k \in File \X Edit : k \in kept'[b] => k \in kept[b]
  BY <1>1
<1> QED BY <1>1, <1>4, <1>6, <1>7, <1>8, <1>9, <1>10, <1>11, SlotSteps

LEMMA UploadedRight ==
  ASSUME NovaRight, NEW a \in members, NEW s \in NovaSlot, Uploaded(a, s)
  PROVE  NovaRight'
<1>1. /\ UNCHANGED <<members, inTurn, anew, uploads, kept, written, novaAvailable>> /\ a \in WorkerId
      /\ novaAvailable' \in [WorkerId -> BOOLEAN]
      /\ written' \in 0 .. MaxWrites /\ written <= written' /\ UploadsGo
      /\ kept' \in [WorkerId -> SUBSET (File \X Edit)]
  BY NovaStays, UploadsStay DEF Uploaded
<1>2. PICK c \in NovaState : c = nova[a][s] /\ SlotRight(a, s, c) /\ c.pc = "uploaded"
  BY <1>1, SlotSays DEF Uploaded, In
<1>3. PICK reg : /\ reg = [cidRegistry[a] EXCEPT ![c.file] = c.cid]
                 /\ cidRegistry' = [cidRegistry EXCEPT ![a] = reg]
  BY <1>2 DEF Uploaded
<1>4. c.file \in File /\ c.cid \in Nat /\ c.cid # 0 /\ Right(c.file, c.cid)
  BY <1>2, NovaStays DEF SlotRight, Right, NovaState
<1>5. /\ reg \in [File -> Nat] /\ reg[c.file] = c.cid
      /\ \A f \in File : f # c.file => reg[f] = cidRegistry[a][f]
  BY <1>1, <1>3, <1>4, SlotSays
<1>6. \A f \in File : Right(f, reg[f]) /\ (cidRegistry[a][f] # 0 => reg[f] # 0)
  BY <1>1, <1>4, <1>5, SlotSays
<1>7. (\A f \in File : Right(f, reg[f]))'
  BY <1>1, <1>5, <1>6, RightOn
<1>8. cidRegistry'[a] = reg /\ cidRegistry'[a][c.file] # 0
  BY <1>1, <1>3, <1>4, <1>5 DEF NovaRight, NovaTyped
<1>9. PICK d \in NovaState : Becomes(a, s, d) /\ smooth' \in BOOLEAN /\ SlotRight(a, s, d)'
  <2>1. CASE s = Start
    <3>1. PICK e : e = Saving(c, reg)
      OBVIOUS
    <3>2. e \in NovaState /\ e.pc = "saving" /\ e.file = c.file /\ e.edit = c.edit /\ e.cids = reg
      BY <1>5, <3>1, NoWorkSays DEF Saving, NovaState, NovaPlace
    <3>3. uploadJson(a, s, e)
      BY <1>2, <1>3, <2>1, <3>1 DEF Uploaded
    <3>4. PICK d \in NovaState : Becomes(a, s, d) /\ smooth' \in BOOLEAN /\ (d = e \/ d = NoWork)
      BY <3>2, <3>3, uploadJsonSays
    <3>5. SlotRight(a, s, e)'
      BY <1>1, <1>2, <1>7, <1>8, <2>1, <3>2 DEF SlotRight
    <3>6. SlotRight(a, s, d)'
      BY <3>4, <3>5, IdleRight
    <3> QED BY <3>4, <3>6
  <2>2. CASE s # Start
    <3>1. PICK d : d = [c EXCEPT !.pc = "pausing"]
      OBVIOUS
    <3>2. d \in NovaState /\ d.pc = "pausing" /\ d.file = c.file /\ d.edit = c.edit
      BY <3>1 DEF NovaState, NovaPlace
    <3>3. Becomes(a, s, d) /\ smooth' \in BOOLEAN
      BY <1>2, <2>2, <3>1, NovaStays DEF Uploaded
    <3>4. SlotRight(a, s, d)'
      BY <1>1, <1>2, <1>8, <2>2, <3>2 DEF SlotRight
    <3> QED BY <3>2, <3>3, <3>4
  <2> QED BY <2>1, <2>2
<1>10. \A b \in WorkerId, k \in File \X Edit : k \in kept'[b] => k \in kept[b]
  BY <1>1
<1>11. \A f \in File : cidRegistry[a][f] # 0 => reg[f] # 0
  BY <1>6
<1>12. cidRegistry' = [cidRegistry EXCEPT ![a] = reg] /\ reg \in [File -> Nat]
  BY <1>3, <1>5
<1> QED BY <1>1, <1>7, <1>9, <1>10, <1>11, <1>12, SlotSteps

LEMMA SavedRight ==
  ASSUME NovaRight, NEW a \in members, NEW s \in NovaSlot, Saved(a, s)
  PROVE  NovaRight'
<1>1. /\ UNCHANGED <<members, inTurn, anew, uploads, cidRegistry, written, novaAvailable>>
      /\ a \in WorkerId /\ novaAvailable' \in [WorkerId -> BOOLEAN]
      /\ written' \in 0 .. MaxWrites /\ written <= written' /\ UploadsGo
  BY NovaStays, UploadsStay DEF Saved
<1>2. PICK c \in NovaState : c = nova[a][s] /\ SlotRight(a, s, c) /\ c.pc = "saved"
  BY <1>1, SlotSays DEF Saved, In
<1>3. PICK reg \in [File -> Nat] :
        /\ reg = cidRegistry[a] /\ cidRegistry' = [cidRegistry EXCEPT ![a] = reg]
        /\ \A f \in File : Right(f, reg[f])
  BY <1>1, SlotSays DEF NovaRight, NovaTyped
<1>4. (\A f \in File : Right(f, reg[f]))' /\ \A f \in File : cidRegistry[a][f] # 0 => reg[f] # 0
  BY <1>1, <1>3, RightOn
<1>5. CASE s = Start
  <2>1. Seed(a, reg) /\ kept' = kept
    BY <1>3, <1>5 DEF Saved
  <2>2. PICK d \in NovaState :
          /\ Becomes(a, Start, d) /\ smooth' \in BOOLEAN
          /\ d = NoWork \/ (d.pc = "uploading" /\ d.file \in {Manifesto, Preferences})
    BY <2>1, SeedSays
  <2>3. SlotRight(a, Start, d)'
    BY <2>2, IdleRight, UploadingRight
  <2> QED BY <1>1, <1>5, <2>1, <2>2, <2>3, NovaStays, SlotStepsSame
<1>6. CASE s # Start
  <2>1. Becomes(a, s, NoWork) /\ smooth' \in BOOLEAN
    BY <1>6, NovaStays DEF Saved
  <2>2. PICK k : /\ k = <<c.file, c.edit>> /\ kept' = [kept EXCEPT ![a] = @ \cup {k}]
                 /\ k \in File \X Edit /\ k[1] = c.file
    <3>1. kept' = [kept EXCEPT ![a] = @ \cup {<<c.file, c.edit>>}]
      BY <1>2, <1>6 DEF Saved
    <3>2. c.edit \in Edit
      BY <1>2, <1>6, NovaNames DEF SlotRight, NovaState, Edit
    <3>3. PICK k : k = <<c.file, c.edit>>
      OBVIOUS
    <3>4. k \in File \X Edit /\ k[1] = c.file
      BY <3>2, <3>3 DEF NovaState
    <3> QED BY <3>1, <3>3, <3>4
  <2>3. reg[k[1]] # 0 /\ (k[1] \in Edit => k[1] <= written)
    BY <1>2, <1>3, <2>2 DEF SlotRight
  <2>4. kept' \in [WorkerId -> SUBSET (File \X Edit)]
    BY <1>1, <2>2, NovaStays
  <2>5. \A b \in WorkerId, j \in File \X Edit : j \in kept'[b] =>
          j \in kept[b] \/ (b = a /\ j = k)
    BY <1>1, <2>2, NovaStays
  <2>6. \A b \in WorkerId, j \in File \X Edit : j \in kept'[b] =>
          \/ j \in kept[b]
          \/ b = a /\ reg[j[1]] # 0 /\ (j[1] \in Edit => j[1] <= written)
    BY <2>3, <2>5
  <2>7. NoWork \in NovaState /\ SlotRight(a, s, NoWork)'
    BY NoWorkSays, IdleRight
  <2>8. /\ reg \in [File -> Nat] /\ cidRegistry' = [cidRegistry EXCEPT ![a] = reg]
        /\ UploadsGo /\ UNCHANGED <<members, inTurn, anew>>
    BY <1>1, <1>3
  <2>9. /\ novaAvailable' \in [WorkerId -> BOOLEAN]
        /\ written' \in 0 .. MaxWrites /\ written <= written'
    BY <1>1
  <2> QED BY <1>4, <2>1, <2>4, <2>6, <2>7, <2>8, <2>9, SlotSteps
<1> QED BY <1>5, <1>6

LEMMA StartingRight ==
  ASSUME NEW a, NEW s
  PROVE  /\ Starting \in NovaState /\ Starting.pc = "ensureGroup" /\ Starting.file = Manifesto
         /\ s = Start => SlotRight(a, s, Starting) /\ SlotRight(a, s, Starting)'
<1>1. Starting \in NovaState /\ Starting.pc = "ensureGroup" /\ Starting.file = Manifesto
  BY NoWorkSays DEF Starting, NovaState, NovaPlace
<1> QED BY <1>1, NovaNames DEF SlotRight

LEMMA RestartRight ==
  ASSUME NovaRight, NEW a \in members, RestartAgent(a)
  PROVE  NovaRight'
<1>1. a \in WorkerId /\ UploadsGo
  BY NovaStays, UploadsStay DEF RestartAgent
<1>2. /\ cidRegistry' \in [WorkerId -> [File -> Nat]] /\ cidRegistry'[a] = Empty
      /\ \A b \in WorkerId : b # a => cidRegistry'[b] = cidRegistry[b]
  BY <1>1, NovaNames DEF RestartAgent, NovaRight, NovaTyped
<1>3. /\ nova' \in [WorkerId -> [NovaSlot -> NovaState]]
      /\ \A b \in WorkerId : b # a => nova'[b] = nova[b]
      /\ \A s \in NovaSlot : nova'[a][s] = IF s = Start THEN Starting ELSE NoWork
  BY <1>1, NoWorkSays, StartingRight DEF RestartAgent, NovaRight, NovaTyped
<1>4. /\ anew' = anew \cup {a} /\ anew' \subseteq WorkerId /\ smooth' \in BOOLEAN
      /\ novaAvailable' \in [WorkerId -> BOOLEAN]
      /\ UNCHANGED <<members, inTurn, uploads, written, kept>>
  BY <1>1 DEF RestartAgent, NovaRight, NovaTyped
<1>5. NovaTyped'
  BY <1>2, <1>3, <1>4 DEF NovaRight, NovaTyped
<1>6. (\A i \in 1 .. Len(uploads) : UploadRight(uploads[i]))'
  BY <1>1 DEF UploadsGo
<1>7. ASSUME NEW b \in WorkerId, NEW f \in File PROVE Right(f, cidRegistry[b][f])'
  <2>1. PICK n \in Nat : n = cidRegistry'[b][f] /\ Right(f, n)
    <3>1. CASE b = a
      BY <1>2, <3>1, NovaNames DEF Right
    <3>2. CASE b # a
      BY <1>2, <3>2 DEF NovaRight
    <3> QED BY <3>1, <3>2
  <2> QED BY <1>4, <2>1 DEF Right
<1>8. ASSUME NEW b \in WorkerId, NEW s \in NovaSlot PROVE SlotRight(b, s, nova[b][s])'
  <2>1. PICK c \in NovaState : c = nova'[b][s]
    BY <1>3
  <2>2. SlotRight(b, s, c)'
    <3>1. CASE b = a
      BY <1>3, <2>1, <3>1, IdleRight, StartingRight
    <3>2. CASE b # a
      <4>1. SlotRight(b, s, c) /\ cidRegistry'[b] = cidRegistry[b]
        BY <1>2, <1>3, <2>1, <3>2 DEF NovaRight
      <4> QED BY <1>4, <4>1 DEF SlotRight, Right
    <3> QED BY <3>1, <3>2
  <2> QED BY <2>1, <2>2 DEF SlotRight, Right
<1>9. ASSUME NEW b \in WorkerId, NEW k \in File \X Edit, k \in kept'[b]
      PROVE  (b \notin anew' => cidRegistry'[b][k[1]] # 0) /\ (k[1] \in Edit => k[1] <= written')
  BY <1>2, <1>4, <1>9 DEF NovaRight
<1> QED BY <1>5, <1>6, <1>7, <1>8, <1>9 DEF NovaRight

LEMMA NovaInitRight == NovaInit => NovaRight
<1> SUFFICES ASSUME NovaInit PROVE NovaRight
  OBVIOUS
<1>1. /\ nova \in [WorkerId -> [NovaSlot -> NovaState]]
      /\ \A a \in WorkerId, s \in NovaSlot : nova[a][s] = IF s = Start THEN Starting ELSE NoWork
  BY NoWorkSays, StartingRight DEF NovaInit
<1>2. uploads = << >> /\ uploads \in Seq(Upload) /\ Len(uploads) = 0
  BY DEF NovaInit
<1>3. NovaTyped
  BY <1>1, <1>2, NovaNames DEF NovaInit, NovaTyped
<1>4. \A a \in WorkerId, f \in File : Right(f, cidRegistry[a][f])
  BY NovaNames DEF NovaInit, Right
<1>5. \A a \in WorkerId, s \in NovaSlot : SlotRight(a, s, nova[a][s])
  BY <1>1, IdleRight, StartingRight
<1>6. \A a \in WorkerId : kept[a] = {}
  BY DEF NovaInit
<1> QED BY <1>2, <1>3, <1>4, <1>5, <1>6 DEF NovaRight

LEMMA NovaStutters == ASSUME NovaRight, UNCHANGED novaVars PROVE NovaRight'
<1> UNCHANGED <<members, inTurn, novaAvailable, cidRegistry, nova, uploads, written, kept, smooth, anew>>
  BY DEF novaVars, ofProcess
<1>1. NovaTyped'
  BY DEF NovaRight, NovaTyped
<1>2. (\A i \in 1 .. Len(uploads) : UploadRight(uploads[i]))'
  BY DEF NovaRight, UploadRight, Right
<1>3. (\A a \in WorkerId, f \in File : Right(f, cidRegistry[a][f]))'
  BY DEF NovaRight, Right
<1>4. (\A a \in WorkerId, s \in NovaSlot : SlotRight(a, s, nova[a][s]))'
  <2>1. ASSUME NEW a \in WorkerId, NEW s \in NovaSlot PROVE SlotRight(a, s, nova[a][s])'
    <3>1. SlotRight(a, s, nova[a][s])
      BY DEF NovaRight
    <3> QED BY <3>1 DEF SlotRight, Right
  <2> QED BY <2>1
<1> QED BY <1>1, <1>2, <1>3, <1>4 DEF NovaRight

LEMMA NovaKeepsRight == NovaRight /\ [NovaNext]_novaVars => NovaRight'
<1> SUFFICES ASSUME NovaRight, [NovaNext]_novaVars PROVE NovaRight'
  OBVIOUS
<1>1. CASE UNCHANGED novaVars
  BY <1>1, NovaStutters
<1>2. CASE NovaNext
  <2>1. PICK a \in members :
          \/ ensureGroup(a) \/ listGroupTransactions(a) \/ loadRegistry(a) \/ LoadFails(a)
          \/ RestartAgent(a)
          \/ \E s \in NovaCall :
               \/ recordDecision(a, s, written + 1)
               \/ \E f \in {Manifesto, Preferences} : update(a, s, f, written + 1)
          \/ \E s \in NovaSlot :
               \/ retrieveJson(a, s) \/ robustUpload(a, s) \/ withRetry(a, s) \/ UploadFails(a, s)
               \/ Uploaded(a, s) \/ saveRegistry(a, s) \/ Saved(a, s)
    BY <1>2 DEF NovaNext
  <2>2. CASE ensureGroup(a) \/ listGroupTransactions(a) \/ LoadFails(a)
    BY <2>2, StartStepsRight
  <2>3. CASE loadRegistry(a)
    BY <2>3, loadRegistryRight
  <2>4. CASE RestartAgent(a)
    BY <2>4, RestartRight
  <2>5. CASE \E s \in NovaCall :
               \/ recordDecision(a, s, written + 1)
               \/ \E f \in {Manifesto, Preferences} : update(a, s, f, written + 1)
    BY <2>5, RecordKeepsRight, updateKeepsRight
  <2>6. CASE \E s \in NovaSlot : retrieveJson(a, s) \/ saveRegistry(a, s) \/ UploadFails(a, s)
    BY <2>6, GoingOnRight
  <2>7. CASE \E s \in NovaSlot : robustUpload(a, s) \/ withRetry(a, s)
    BY <2>7, RecordedRight
  <2>8. CASE \E s \in NovaSlot : Uploaded(a, s) \/ Saved(a, s)
    BY <2>8, UploadedRight, SavedRight
  <2> QED BY <2>1, <2>2, <2>3, <2>4, <2>5, <2>6, <2>7, <2>8
<1> QED BY <1>1, <1>2

\* One agent has the group, its calls waited for each other, and none was cut short.
Good(a) == members = {a} /\ inTurn = TRUE /\ smooth = TRUE

\* A registry under which every edit kept is found.
KeptIn(a, reg) == \A k \in kept[a] : reg[k[1]] # 0 /\ k[2] \in uploads[reg[k[1]]].edits

\* The registry is the last upload.
Stable(a) ==
  uploads # << >> /\ Last(uploads).registry = TRUE /\ Last(uploads).cids = cidRegistry[a]

\* A process that knows nothing yet, but may find everything.
Fresh(a) ==
  /\ cidRegistry[a] = Empty
  /\ IF uploads = << >> THEN kept[a] = {}
     ELSE Last(uploads).registry = TRUE /\ KeptIn(a, Last(uploads).cids)

\* Edits that hold those kept of the same file.
Covers(a, c) == \A k \in kept[a] : k[1] = c.file => k[2] \in c.edits

\* Where the one call under way is.
SlotInOrder(a, s, c) ==
  /\ c.pc \in {"ensureGroup", "listing", "loading"} => s = Start /\ Fresh(a)
  /\ c.pc = "loading" => uploads # << >> /\ c.cid = Len(uploads)
  /\ c.pc \in {"retrieving", "uploading", "uploaded", "pausing", "saving", "saved"} =>
       KeptIn(a, cidRegistry[a])
  /\ c.pc = "retrieving" => c.cid = cidRegistry[a][c.file]
  /\ c.pc \in {"retrieving", "uploading", "uploaded"} => s = Start \/ c.edit \in c.edits
  /\ c.pc \in {"uploading", "uploaded"} => Covers(a, c)
  /\ c.pc \in {"pausing", "saving", "saved"} =>
       s = Start \/ c.edit \in uploads[cidRegistry[a][c.file]].edits
  /\ c.pc = "saving" => c.cids = cidRegistry[a]
  /\ c.pc = "saved" => c.cid = Len(uploads) /\ Stable(a)

InOrder(a) ==
  /\ \A s, t \in NovaSlot : s = t \/ nova[a][s].pc = "idle" \/ nova[a][t].pc = "idle"
  /\ \A s \in NovaSlot : SlotInOrder(a, s, nova[a][s])
  /\ AtRest(a) => Stable(a) /\ KeptIn(a, cidRegistry[a])

NovaOrder == \A a \in WorkerId : Good(a) => InOrder(a)

\* Only the agent that acts has the group, if one has.
LEMMA OneAgentsOrder ==
  ASSUME NovaRight, NEW a \in members, members' = members, Good(a)' => InOrder(a)'
  PROVE  NovaOrder'
BY DEF NovaOrder, Good

\* Positions that are right keep their documents, so a registry keeps what it has.
LEMMA KeptOn ==
  ASSUME UploadsGo, NEW a, NEW reg \in [File -> Nat], \A f \in File : Right(f, reg[f]),
         kept[a] \subseteq File \X Edit, KeptIn(a, reg), kept' = kept
  PROVE  KeptIn(a, reg)'
<1>1. ASSUME NEW k \in kept[a] PROVE reg[k[1]] # 0 /\ k[2] \in uploads'[reg[k[1]]].edits
  <2>1. PICK n \in Nat : n = reg[k[1]] /\ n # 0 /\ k[2] \in uploads[n].edits /\ Right(k[1], n)
    BY DEF KeptIn
  <2>2. uploads'[n] = uploads[n]
    BY <2>1 DEF UploadsGo, Right
  <2> QED BY <2>1, <2>2
<1> QED BY <1>1 DEF KeptIn

LEMMA IdleInOrder ==
  ASSUME NEW a, NEW s
  PROVE  SlotInOrder(a, s, NoWork) /\ SlotInOrder(a, s, NoWork)'
BY NoWorkSays DEF SlotInOrder

\* A step of the one call under way, or of one that begins.
LEMMA SlotOrders ==
  ASSUME NovaRight, NEW a \in members, NEW s \in NovaSlot, NEW d \in NovaState, InOrder(a),
         nova[a][s].pc # "idle" \/ AtRest(a), Becomes(a, s, d),
         d.pc # "idle" => SlotInOrder(a, s, d)',
         d.pc = "idle" => d = NoWork /\ Stable(a)' /\ KeptIn(a, cidRegistry[a])'
  PROVE  InOrder(a)'
<1>1. /\ a \in WorkerId /\ nova'[a][s] = d
      /\ \A t \in NovaSlot : t # s => nova'[a][t] = nova[a][t]
  BY DEF NovaRight, NovaTyped, Becomes
<1>2. \A t \in NovaSlot : t # s => nova[a][t].pc = "idle"
  BY DEF InOrder, AtRest, In
<1>3. \A r, t \in NovaSlot : r = t \/ nova'[a][r].pc = "idle" \/ nova'[a][t].pc = "idle"
  BY <1>1, <1>2
<1>4. ASSUME NEW t \in NovaSlot PROVE SlotInOrder(a, t, nova[a][t])'
  <2>1. PICK c : c = nova'[a][t]
    OBVIOUS
  <2>2. SlotInOrder(a, t, c)'
    <3>1. CASE t = s /\ d.pc # "idle"
      BY <1>1, <2>1, <3>1
    <3>2. CASE t # s \/ d.pc = "idle"
      <4>1. c.pc = "idle"
        BY <1>1, <1>2, <2>1, <3>2
      <4> QED BY <4>1 DEF SlotInOrder
    <3> QED BY <3>1, <3>2
  <2> QED BY <2>1, <2>2 DEF SlotInOrder, Fresh, KeptIn, Covers, Stable
<1>5. AtRest(a)' => (Stable(a) /\ KeptIn(a, cidRegistry[a]))'
  <2>1. ASSUME AtRest(a)' PROVE d.pc = "idle"
    BY <1>1, <2>1 DEF AtRest, In
  <2> QED BY <2>1
<1> QED BY <1>3, <1>4, <1>5 DEF InOrder

\* A start that goes on with a registry that is the last upload, if there is one.
LEMMA SeedOrders ==
  ASSUME NovaRight, NEW a \in members, InOrder(a), nova[a][Start].pc # "idle",
         NEW reg \in [File -> Nat], Seed(a, reg), cidRegistry'[a] = reg, KeptIn(a, reg),
         uploads = << >> => reg = Empty,
         uploads # << >> => Last(uploads).registry = TRUE /\ Last(uploads).cids = reg,
         smooth' = TRUE, UNCHANGED <<uploads, kept>>
  PROVE  InOrder(a)'
<1>1. KeptIn(a, cidRegistry[a])'
  BY DEF KeptIn
<1>2. PICK d \in NovaState :
        /\ Becomes(a, Start, d)
        /\ \/ d = NoWork /\ reg[Manifesto] # 0
           \/ d.pc = "uploading" /\ reg[d.file] = 0
  BY SeedSays
<1>3. CASE d = NoWork /\ reg[Manifesto] # 0
  <2>1. uploads # << >>
    BY <1>3, NovaNames
  <2>2. Stable(a)'
    BY <2>1 DEF Stable
  <2> QED BY <1>1, <1>2, <1>3, <2>2, NoWorkSays, NovaNames, SlotOrders
<1>4. CASE d.pc = "uploading" /\ reg[d.file] = 0
  <2>1. Covers(a, d)'
    BY <1>4 DEF Covers, KeptIn
  <2>2. SlotInOrder(a, Start, d)'
    BY <1>1, <1>4, <2>1 DEF SlotInOrder
  <2> QED BY <1>2, <1>4, <2>2, NovaNames, SlotOrders
<1> QED BY <1>2, <1>3, <1>4

\* Calls that do not throw leave what was in order so.
LEMMA WasGood ==
  ASSUME NovaOrder, NovaRight, NEW a \in members, UNCHANGED <<members, inTurn>>,
         smooth' = smooth \/ smooth' = FALSE, Good(a)'
  PROVE  InOrder(a) /\ smooth' = TRUE
BY NovaStays DEF NovaOrder, Good

LEMMA StartStepsOrder ==
  ASSUME NovaRight, NovaOrder, NEW a \in members, Good(a)',
         ensureGroup(a) \/ listGroupTransactions(a) \/ LoadFails(a)
  PROVE  InOrder(a)'
<1>1. /\ UNCHANGED <<members, inTurn, uploads, cidRegistry, kept>> /\ a \in WorkerId
      /\ nova[a][Start].pc \in {"ensureGroup", "listing", "loading"}
  BY NovaStays DEF ensureGroup, listGroupTransactions, LoadFails, In
<1>2. CASE ensureGroup(a)
  <2>1. smooth' = smooth \/ smooth' = FALSE
    BY <1>2 DEF ensureGroup, Throws
  <2>2. InOrder(a) /\ smooth' = TRUE
    BY <1>1, <2>1, WasGood
  <2>3. PICK d : d = [NoWork EXCEPT !.pc = "listing"] /\ Becomes(a, Start, d)
    BY <1>2, <2>2 DEF ensureGroup, Throws
  <2>4. d \in NovaState /\ d.pc = "listing"
    BY <2>3, NoWorkSays DEF NovaState, NovaPlace
  <2>5. Fresh(a)
    BY <1>1, <2>2, NovaNames DEF InOrder, SlotInOrder
  <2>6. SlotInOrder(a, Start, d)'
    BY <1>1, <2>4, <2>5 DEF SlotInOrder, Fresh, KeptIn
  <2> QED BY <1>1, <2>2, <2>3, <2>4, <2>6, NovaNames, SlotOrders
<1>3. CASE listGroupTransactions(a)
  <2>0. cidRegistry[a] \in [File -> Nat]
    BY <1>1, SlotSays, NovaNames
  <2>1. smooth' = smooth \/ smooth' = FALSE
    BY <1>3 DEF listGroupTransactions, Seed, uploadJson, Throws
  <2>2. InOrder(a) /\ smooth' = TRUE
    BY <1>1, <2>1, WasGood
  <2>3. Fresh(a)
    BY <1>1, <2>2, NovaNames DEF InOrder, SlotInOrder
  <2>4. CASE uploads = << >>
    <3>1. PICK reg : reg = cidRegistry[a] /\ reg = Empty /\ Seed(a, reg) /\ cidRegistry'[a] = reg
      BY <1>1, <1>3, <2>3, <2>4 DEF listGroupTransactions, Fresh
    <3>2. KeptIn(a, reg)
      BY <2>3, <2>4 DEF Fresh, KeptIn
    <3> QED BY <1>1, <2>0, <2>2, <2>4, <3>1, <3>2, SeedOrders
  <2>5. CASE uploads # << >>
    <3>1. PICK n : n = Len(uploads)
      OBVIOUS
    <3>2. PICK d : d = [NoWork EXCEPT !.pc = "loading", !.cid = n] /\ Becomes(a, Start, d)
      BY <1>3, <2>5, <3>1 DEF listGroupTransactions
    <3>3. d \in NovaState /\ d.pc = "loading" /\ d.cid = n
      BY <3>1, <3>2, NoWorkSays, NovaStays DEF NovaState, NovaPlace
    <3>4. SlotInOrder(a, Start, d)'
      BY <1>1, <2>3, <2>5, <3>1, <3>3 DEF SlotInOrder, Fresh, KeptIn
    <3> QED BY <1>1, <2>2, <3>2, <3>3, <3>4, NovaNames, SlotOrders
  <2> QED BY <2>4, <2>5
<1>4. CASE LoadFails(a)
  BY <1>4 DEF LoadFails, Good
<1> QED BY <1>2, <1>3, <1>4

LEMMA loadRegistryOrder ==
  ASSUME NovaRight, NovaOrder, NEW a \in members, Good(a)', loadRegistry(a)
  PROVE  InOrder(a)'
<1>1. /\ UNCHANGED <<members, inTurn, uploads, kept>> /\ a \in WorkerId
      /\ nova[a][Start].pc = "loading"
      /\ smooth' = smooth \/ smooth' = FALSE
  BY NovaStays DEF loadRegistry, In, Seed, uploadJson, Throws
<1>2. InOrder(a) /\ smooth' = TRUE
  BY <1>1, WasGood
<1>3. Fresh(a) /\ uploads # << >> /\ nova[a][Start].cid = Len(uploads)
  BY <1>1, <1>2, NovaNames DEF InOrder, SlotInOrder
<1>4. PICK last : last = uploads[nova[a][Start].cid]
  OBVIOUS
<1>5. last \in Upload /\ last = Last(uploads) /\ last.registry = TRUE /\ KeptIn(a, last.cids)
  <2>1. last \in Upload /\ last = Last(uploads)
    BY <1>3, <1>4, NovaStays DEF Last
  <2> QED BY <1>3, <2>1 DEF Fresh
<1>6. PICK reg : /\ reg = IF last.registry THEN Loaded(a, last.cids) ELSE cidRegistry[a]
                 /\ cidRegistry' = [cidRegistry EXCEPT ![a] = reg] /\ Seed(a, reg)
  BY <1>4 DEF loadRegistry
<1>7. reg = last.cids /\ reg \in [File -> Nat]
  <2>1. reg = Loaded(a, last.cids) /\ last.cids \in [File -> Nat]
    BY <1>5, <1>6 DEF Upload
  <2>2. cidRegistry[a] = Empty
    BY <1>3 DEF Fresh
  <2> QED BY <2>1, <2>2, NovaNames DEF Loaded
<1>8. cidRegistry'[a] = reg
  BY <1>1, <1>6 DEF NovaRight, NovaTyped
<1> QED BY <1>1, <1>2, <1>3, <1>5, <1>6, <1>7, <1>8, SeedOrders

\* A call that begins finds all others at rest.
LEMMA RecordKeepsOrder ==
  ASSUME NovaRight, NovaOrder, NEW a \in members, NEW s \in NovaCall, Good(a)',
         recordDecision(a, s, written + 1)
  PROVE  InOrder(a)'
<1>1. /\ UNCHANGED <<members, inTurn, uploads, cidRegistry, kept, smooth>> /\ a \in WorkerId
      /\ s \in NovaSlot
  BY NovaStays, NovaNames DEF recordDecision
<1>2. InOrder(a) /\ AtRest(a)
  BY <1>1, WasGood DEF recordDecision, MayCall, AtRest, Good
<1>3. PICK e \in Edit : e = written + 1
  BY NovaStays, NovaNames DEF recordDecision, MayCall, Edit
<1>4. PICK d : /\ d = [NoWork EXCEPT !.pc = "uploading", !.file = e, !.edit = e, !.edits = {e}]
               /\ Becomes(a, s, d)
  BY <1>3 DEF recordDecision
<1>5. e \in File /\ e \in 0 .. MaxWrites /\ {e} \in SUBSET Edit
  BY NovaNames DEF Edit
<1>6. d \in NovaState /\ d.pc = "uploading" /\ d.file = e /\ d.edit = e /\ d.edits = {e}
  BY <1>4, <1>5, NoWorkSays DEF NovaState, NovaPlace
<1>7. KeptIn(a, cidRegistry[a])'
  BY <1>1, <1>2 DEF InOrder, KeptIn
<1>8. Covers(a, d)'
  <2>1. ASSUME NEW k \in kept[a], k[1] = e PROVE FALSE
    <3>1. k \in File \X Edit
      BY <1>1 DEF NovaRight, NovaTyped
    <3>2. k[1] <= written
      BY <1>1, <2>1, <3>1 DEF NovaRight
    <3> QED BY <1>3, <2>1, <3>2, NovaStays
  <2> QED BY <1>1, <1>6, <2>1 DEF Covers
<1>9. SlotInOrder(a, s, d)'
  BY <1>6, <1>7, <1>8 DEF SlotInOrder
<1> QED BY <1>1, <1>2, <1>4, <1>6, <1>9, SlotOrders

LEMMA updateKeepsOrder ==
  ASSUME NovaRight, NovaOrder, NEW a \in members, NEW s \in NovaCall, Good(a)',
         NEW f \in {Manifesto, Preferences}, update(a, s, f, written + 1)
  PROVE  InOrder(a)'
<1>1. /\ UNCHANGED <<members, inTurn, uploads, cidRegistry, kept, smooth>> /\ a \in WorkerId
      /\ s \in NovaSlot /\ f \in File
  BY NovaStays, NovaNames DEF update
<1>2. InOrder(a) /\ AtRest(a)
  BY <1>1, WasGood DEF update, MayCall, AtRest, Good
<1>3. PICK e \in Edit : e = written + 1
  BY NovaStays, NovaNames DEF update, MayCall, Edit
<1>4. PICK n \in Nat, pc \in {"uploading", "retrieving"} :
        n = cidRegistry[a][f] /\ pc = IF n = 0 THEN "uploading" ELSE "retrieving"
  BY <1>1, SlotSays
<1>5. PICK d : /\ d = [NoWork EXCEPT !.pc = pc, !.file = f, !.edit = e, !.edits = {e}, !.cid = n]
               /\ Becomes(a, s, d)
  BY <1>3, <1>4 DEF update
<1>6. e \in 0 .. MaxWrites /\ {e} \in SUBSET Edit
  BY NovaNames DEF Edit
<1>7. d \in NovaState /\ d.pc = pc /\ d.file = f /\ d.edit = e /\ d.edits = {e} /\ d.cid = n
  BY <1>1, <1>4, <1>5, <1>6, NoWorkSays DEF NovaState, NovaPlace
<1>8. KeptIn(a, cidRegistry[a])'
  BY <1>1, <1>2 DEF InOrder, KeptIn
<1>9. pc = "uploading" => Covers(a, d)'
  BY <1>1, <1>4, <1>7, <1>8 DEF Covers, KeptIn
<1>10. SlotInOrder(a, s, d)'
  BY <1>1, <1>4, <1>7, <1>8, <1>9 DEF SlotInOrder
<1> QED BY <1>1, <1>2, <1>5, <1>7, <1>10, SlotOrders

\* What the order says of the call under way.
LEMMA OrderSays ==
  ASSUME NovaRight, NEW a \in members, NEW s \in NovaSlot, InOrder(a)
  PROVE  SlotInOrder(a, s, nova[a][s]) /\ nova[a][s] \in NovaState /\ SlotRight(a, s, nova[a][s])
BY NovaStays, SlotSays DEF InOrder

LEMMA GoingOnOrder ==
  ASSUME NovaRight, NovaOrder, NEW a \in members, NEW s \in NovaSlot, Good(a)',
         retrieveJson(a, s) \/ saveRegistry(a, s) \/ UploadFails(a, s)
  PROVE  InOrder(a)'
<1>1. /\ UNCHANGED <<members, inTurn, uploads, cidRegistry, kept>> /\ a \in WorkerId
      /\ smooth' = smooth \/ smooth' = FALSE
  BY NovaStays DEF retrieveJson, saveRegistry, UploadFails, uploadJson, Throws
<1>2. InOrder(a) /\ smooth' = TRUE
  BY <1>1, WasGood
<1>3. PICK c \in NovaState : c = nova[a][s] /\ SlotInOrder(a, s, c) /\ SlotRight(a, s, c)
  BY <1>2, OrderSays
<1>4. CASE retrieveJson(a, s)
  <2>1. c.pc = "retrieving" /\ c.cid = cidRegistry[a][c.file] /\ KeptIn(a, cidRegistry[a])
    BY <1>3, <1>4 DEF retrieveJson, In, SlotInOrder
  <2>2. PICK more : more = uploads[c.cid].edits /\ more \in SUBSET Edit
    <3>1. uploads[c.cid] \in Upload
      BY <1>3, <2>1, NovaStays DEF SlotRight
    <3> QED BY <3>1 DEF Upload
  <2>3. PICK e : e = [c EXCEPT !.pc = "uploading", !.edits = @ \cup more]
    OBVIOUS
  <2>4. /\ e \in NovaState /\ e.pc = "uploading" /\ e.file = c.file /\ e.edit = c.edit
        /\ e.edits = c.edits \cup more
    BY <2>2, <2>3 DEF NovaState, NovaPlace
  <2>5. Becomes(a, s, e)
    BY <1>2, <1>3, <1>4, <2>2, <2>3 DEF retrieveJson, uploadJson, Throws
  <2>6. Covers(a, e)'
    BY <1>1, <2>1, <2>2, <2>4 DEF Covers, KeptIn
  <2>7. KeptIn(a, cidRegistry[a])'
    BY <1>1, <2>1 DEF KeptIn
  <2>8. SlotInOrder(a, s, e)'
    BY <1>3, <2>1, <2>4, <2>6, <2>7 DEF SlotInOrder
  <2> QED BY <1>2, <1>3, <2>1, <2>4, <2>5, <2>8, SlotOrders
<1>5. CASE saveRegistry(a, s)
  <2>1. c.pc = "pausing" /\ KeptIn(a, cidRegistry[a])
    BY <1>3, <1>5 DEF saveRegistry, In, SlotInOrder
  <2>2. PICK reg \in [File -> Nat] : reg = cidRegistry[a]
    BY <1>1, SlotSays
  <2>3. PICK e : e = Saving(c, reg)
    OBVIOUS
  <2>4. e \in NovaState /\ e.pc = "saving" /\ e.file = c.file /\ e.edit = c.edit /\ e.cids = reg
    BY <2>2, <2>3, NoWorkSays DEF Saving, NovaState, NovaPlace
  <2>5. Becomes(a, s, e)
    BY <1>2, <1>3, <1>5, <2>2, <2>3 DEF saveRegistry, uploadJson, Throws
  <2>6. KeptIn(a, cidRegistry[a])'
    BY <1>1, <2>1 DEF KeptIn
  <2>7. SlotInOrder(a, s, e)'
    BY <1>1, <1>3, <2>1, <2>2, <2>4, <2>6 DEF SlotInOrder
  <2> QED BY <1>2, <1>3, <2>1, <2>4, <2>5, <2>7, SlotOrders
<1>6. CASE UploadFails(a, s)
  BY <1>6 DEF UploadFails, Throws, Good
<1> QED BY <1>4, <1>5, <1>6

\* What is recorded is the last upload; what was kept is found still.
LEMMA RecordedOrder ==
  ASSUME NovaRight, NovaOrder, NEW a \in members, NEW s \in NovaSlot, Good(a)', UploadsGo,
         robustUpload(a, s) \/ withRetry(a, s)
  PROVE  InOrder(a)'
<1>1. /\ UNCHANGED <<members, inTurn, cidRegistry, kept, smooth>> /\ a \in WorkerId
  BY NovaStays DEF robustUpload, withRetry
<1>2. InOrder(a)
  BY <1>1, WasGood DEF Good
<1>3. PICK c \in NovaState : c = nova[a][s] /\ SlotInOrder(a, s, c) /\ SlotRight(a, s, c)
  BY <1>2, OrderSays
<1>4. PICK u \in Upload, pc \in NovaPlace :
        /\ uploads' = Append(uploads, u)
        /\ Becomes(a, s, [c EXCEPT !.pc = pc, !.cid = Len(uploads')])
        /\ pc = "uploaded" => c.pc \in {"uploading", "uploaded"}
        /\ pc = "saved" => /\ c.pc \in {"saving", "saved"}
                           /\ u.registry = TRUE /\ u.cids = cidRegistry[a]
        /\ pc \in {"uploaded", "saved"}
  <2>1. CASE robustUpload(a, s)
    <3>1. PICK u : u = [by |-> a, registry |-> c.pc = "saving", file |-> c.file,
                        edits |-> c.edits, cids |-> c.cids]
      OBVIOUS
    <3>2. u \in Upload /\ u.cids = c.cids
      BY <1>1, <3>1 DEF Upload, NovaState
    <3>3. uploads' = Append(uploads, u)
      BY <1>3, <2>1, <3>1, Zenon DEF robustUpload
    <3>4. CASE c.pc = "saving"
      <4>1. Becomes(a, s, [c EXCEPT !.pc = "saved", !.cid = Len(uploads')])
        BY <1>3, <2>1, <3>4 DEF robustUpload
      <4>2. u.registry = TRUE
        BY <3>1, <3>4, Zenon
      <4>3. u.cids = cidRegistry[a]
        BY <1>3, <3>2, <3>4 DEF SlotInOrder
      <4> QED BY <3>2, <3>3, <3>4, <4>1, <4>2, <4>3 DEF NovaPlace
    <3>5. CASE c.pc = "uploading"
      <4>1. Becomes(a, s, [c EXCEPT !.pc = "uploaded", !.cid = Len(uploads')])
        BY <1>3, <2>1, <3>5 DEF robustUpload
      <4> QED BY <3>2, <3>3, <3>5, <4>1 DEF NovaPlace
    <3> QED BY <1>3, <2>1, <3>4, <3>5 DEF robustUpload
  <2>2. CASE withRetry(a, s)
    <3>1. c.pc \in {"uploaded", "saved"} /\ c.cid \in 1 .. Len(uploads)
      BY <1>3, <2>2 DEF withRetry, In, SlotRight
    <3>2. PICK u \in Upload : u = uploads[c.cid]
      BY <3>1, NovaStays
    <3>3. [c EXCEPT !.cid = Len(uploads')] = [c EXCEPT !.pc = c.pc, !.cid = Len(uploads')]
      BY DEF NovaState
    <3>4. Becomes(a, s, [c EXCEPT !.pc = c.pc, !.cid = Len(uploads')])
      BY <1>3, <2>2, <3>3 DEF withRetry
    <3>5. uploads' = Append(uploads, u)
      BY <1>3, <2>2, <3>2 DEF withRetry
    <3>6. c.pc = "saved" => u.registry = TRUE /\ u.cids = cidRegistry[a]
      BY <1>3, <3>2 DEF SlotInOrder, Stable, Last
    <3> QED BY <3>1, <3>2, <3>4, <3>5, <3>6 DEF NovaPlace
  <2> QED BY <2>1, <2>2
<1>5. /\ uploads' # << >> /\ Last(uploads') = u /\ Len(uploads') \in Nat
      /\ uploads'[Len(uploads')] = u
  BY <1>4, NovaStays DEF Last
<1>6. PICK n \in Nat : n = Len(uploads')
  BY <1>5
<1>7. PICK d : d = [c EXCEPT !.pc = pc, !.cid = n] /\ Becomes(a, s, d)
  BY <1>4, <1>6
<1>8. /\ d \in NovaState /\ d.pc = pc /\ d.cid = n /\ d.file = c.file /\ d.edits = c.edits
      /\ d.edit = c.edit
  BY <1>4, <1>7 DEF NovaState, NovaPlace
<1>9. PICK reg \in [File -> Nat] :
        reg = cidRegistry[a] /\ cidRegistry'[a] = reg /\ \A f \in File : Right(f, reg[f])
  BY <1>1, SlotSays
<1>10. KeptIn(a, reg) /\ c.pc # "idle"
  BY <1>3, <1>4, <1>9 DEF SlotInOrder
<1>11. KeptIn(a, reg)' /\ kept[a] \subseteq File \X Edit
  <2>1. kept[a] \subseteq File \X Edit
    BY <1>1 DEF NovaRight, NovaTyped
  <2> QED BY <1>1, <1>9, <1>10, <2>1, KeptOn
<1>12. KeptIn(a, cidRegistry[a])'
  BY <1>9, <1>11 DEF KeptIn
<1>13. d.pc = "uploaded" => Covers(a, d)' /\ (s = Start \/ d.edit \in d.edits)
  BY <1>1, <1>3, <1>4, <1>8 DEF SlotInOrder, Covers
<1>14. ASSUME d.pc = "saved" PROVE Stable(a)' /\ (s = Start \/ d.edit \in uploads'[cidRegistry'[a][d.file]].edits)
  <2>1. Stable(a)'
    BY <1>1, <1>4, <1>5, <1>8, <1>14 DEF Stable
  <2>2. Right(c.file, reg[c.file]) /\ reg[c.file] \in Nat /\ reg[c.file] # 0
    BY <1>3, <1>4, <1>8, <1>9, <1>14 DEF NovaState, SlotRight
  <2>3. uploads'[reg[c.file]] = uploads[reg[c.file]]
    BY <2>2 DEF Right, UploadsGo
  <2>4. s = Start \/ c.edit \in uploads[reg[c.file]].edits
    BY <1>3, <1>4, <1>8, <1>9, <1>14 DEF SlotInOrder
  <2> QED BY <1>8, <1>9, <2>1, <2>3, <2>4
<1>15. SlotInOrder(a, s, d)'
  BY <1>4, <1>6, <1>8, <1>12, <1>13, <1>14 DEF SlotInOrder
<1> QED BY <1>2, <1>3, <1>4, <1>7, <1>8, <1>10, <1>15, SlotOrders

\* A document takes its place under its name; it has the edits kept there before.
LEMMA UploadedOrder ==
  ASSUME NovaRight, NovaOrder, NEW a \in members, NEW s \in NovaSlot, Good(a)', Uploaded(a, s)
  PROVE  InOrder(a)'
<1>1. /\ UNCHANGED <<members, inTurn, uploads, kept>> /\ a \in WorkerId
      /\ smooth' = smooth \/ smooth' = FALSE
  BY NovaStays DEF Uploaded, uploadJson, Throws
<1>2. InOrder(a) /\ smooth' = TRUE
  BY <1>1, WasGood
<1>3. PICK c \in NovaState :
        c = nova[a][s] /\ SlotInOrder(a, s, c) /\ SlotRight(a, s, c) /\ c.pc = "uploaded"
  BY <1>2, OrderSays DEF Uploaded, In
<1>4. PICK reg : /\ reg = [cidRegistry[a] EXCEPT ![c.file] = c.cid]
                 /\ cidRegistry' = [cidRegistry EXCEPT ![a] = reg]
  BY <1>3 DEF Uploaded
<1>5. /\ reg \in [File -> Nat] /\ reg[c.file] = c.cid /\ c.cid # 0 /\ c.file \in File
      /\ \A f \in File : f # c.file => reg[f] = cidRegistry[a][f]
      /\ cidRegistry'[a] = reg
  <2>1. c.cid \in Nat /\ c.cid # 0 /\ c.file \in File
    BY <1>3, NovaStays DEF SlotRight, NovaState
  <2>2. cidRegistry[a] \in [File -> Nat]
    BY <1>1, <1>3, SlotSays
  <2>3. cidRegistry'[a] = reg
    BY <1>1, <1>4 DEF NovaRight, NovaTyped
  <2> QED BY <1>4, <2>1, <2>2, <2>3
<1>6. c.edits = uploads[c.cid].edits /\ KeptIn(a, cidRegistry[a]) /\ Covers(a, c)
  BY <1>3 DEF SlotRight, SlotInOrder
<1>7. KeptIn(a, reg)
  <2>1. ASSUME NEW k \in kept[a] PROVE reg[k[1]] # 0 /\ k[2] \in uploads[reg[k[1]]].edits
    <3>1. k[1] \in File
      BY <1>1 DEF NovaRight, NovaTyped
    <3>2. CASE k[1] = c.file
      BY <1>5, <1>6, <3>2 DEF Covers
    <3>3. CASE k[1] # c.file
      BY <1>5, <1>6, <3>1, <3>3 DEF KeptIn
    <3> QED BY <3>2, <3>3
  <2> QED BY <2>1 DEF KeptIn
<1>8. KeptIn(a, cidRegistry[a])'
  BY <1>1, <1>5, <1>7 DEF KeptIn
<1>9. CASE s = Start
  <2>1. PICK e : e = Saving(c, reg)
    OBVIOUS
  <2>2. e \in NovaState /\ e.pc = "saving" /\ e.cids = reg
    BY <1>5, <2>1, NoWorkSays DEF Saving, NovaState, NovaPlace
  <2>3. Becomes(a, s, e)
    BY <1>2, <1>3, <1>4, <1>9, <2>1 DEF Uploaded, uploadJson, Throws
  <2>4. SlotInOrder(a, s, e)'
    BY <1>5, <1>8, <1>9, <2>2 DEF SlotInOrder
  <2> QED BY <1>2, <1>3, <2>2, <2>3, <2>4, SlotOrders
<1>10. CASE s # Start
  <2>1. PICK d : d = [c EXCEPT !.pc = "pausing"] /\ Becomes(a, s, d)
    BY <1>3, <1>10 DEF Uploaded
  <2>2. d \in NovaState /\ d.pc = "pausing" /\ d.file = c.file /\ d.edit = c.edit
    BY <2>1 DEF NovaState, NovaPlace
  <2>3. c.edit \in c.edits
    BY <1>3, <1>10 DEF SlotInOrder
  <2>4. SlotInOrder(a, s, d)'
    BY <1>1, <1>5, <1>6, <1>8, <2>2, <2>3 DEF SlotInOrder
  <2> QED BY <1>2, <1>3, <2>1, <2>2, <2>4, SlotOrders
<1> QED BY <1>9, <1>10

LEMMA SavedOrder ==
  ASSUME NovaRight, NovaOrder, NEW a \in members, NEW s \in NovaSlot, Good(a)', Saved(a, s)
  PROVE  InOrder(a)'
<1>1. /\ UNCHANGED <<members, inTurn, uploads, cidRegistry>> /\ a \in WorkerId
      /\ smooth' = smooth \/ smooth' = FALSE
  BY NovaStays DEF Saved, Seed, uploadJson, Throws
<1>2. InOrder(a) /\ smooth' = TRUE
  BY <1>1, WasGood
<1>3. PICK c \in NovaState : c = nova[a][s] /\ SlotInOrder(a, s, c) /\ c.pc = "saved"
  BY <1>2, OrderSays DEF Saved, In
<1>4. Stable(a) /\ KeptIn(a, cidRegistry[a])
  BY <1>3 DEF SlotInOrder
<1>5. CASE s = Start
  <2>1. PICK reg \in [File -> Nat] : reg = cidRegistry[a] /\ Seed(a, reg) /\ kept' = kept
    BY <1>1, <1>5, SlotSays DEF Saved
  <2> QED BY <1>1, <1>2, <1>3, <1>4, <1>5, <2>1, SeedOrders DEF Stable
<1>6. CASE s # Start
  <2>1. Becomes(a, s, NoWork) /\ NoWork \in NovaState /\ NoWork.pc = "idle"
    BY <1>6, NoWorkSays DEF Saved
  <2>2. Stable(a)'
    BY <1>1, <1>4 DEF Stable
  <2>3. kept'[a] = kept[a] \cup {<<c.file, c.edit>>}
    BY <1>1, <1>3, <1>6, NovaStays DEF Saved
  <2>4. c.edit \in uploads[cidRegistry[a][c.file]].edits /\ cidRegistry[a][c.file] # 0
    BY <1>2, <1>3, <1>6, OrderSays DEF SlotInOrder, SlotRight
  <2>5. KeptIn(a, cidRegistry[a])'
    BY <1>1, <1>4, <2>3, <2>4 DEF KeptIn
  <2> QED BY <1>2, <1>3, <2>1, <2>2, <2>5, SlotOrders
<1> QED BY <1>5, <1>6

\* A process that starts again when nothing is under way can find everything.
LEMMA RestartOrder ==
  ASSUME NovaRight, NovaOrder, NEW a \in members, Good(a)', RestartAgent(a)
  PROVE  InOrder(a)'
<1>1. UNCHANGED <<members, inTurn, uploads, kept>> /\ a \in WorkerId
  BY NovaStays DEF RestartAgent
<1>2. smooth = TRUE /\ AtRest(a)
  <2>1. smooth' = (smooth /\ AtRest(a)) /\ smooth' = TRUE
    BY DEF RestartAgent, AtRest, Good
  <2> QED BY <2>1, NovaStays
<1>3. Stable(a) /\ KeptIn(a, cidRegistry[a])
  BY <1>1, <1>2 DEF NovaOrder, Good, InOrder
<1>4. cidRegistry'[a] = Empty
  BY <1>1 DEF RestartAgent, NovaRight, NovaTyped
<1>5. Fresh(a)'
  BY <1>1, <1>3, <1>4 DEF Fresh, Stable, KeptIn
<1>6. \A s \in NovaSlot : nova'[a][s] = IF s = Start THEN Starting ELSE NoWork
  BY <1>1 DEF RestartAgent, NovaRight, NovaTyped
<1>7. Starting.pc = "ensureGroup" /\ NoWork.pc = "idle"
  BY StartingRight, NoWorkSays
<1>8. ASSUME NEW s \in NovaSlot PROVE SlotInOrder(a, s, nova[a][s])'
  <2>1. PICK c : c = nova'[a][s]
    OBVIOUS
  <2>2. SlotInOrder(a, s, c)'
    BY <1>5, <1>6, <1>7, <2>1 DEF SlotInOrder
  <2> QED BY <2>1, <2>2 DEF SlotInOrder, Fresh, KeptIn, Covers, Stable
<1>9. ~AtRest(a)'
  BY <1>6, <1>7, NovaNames DEF AtRest, In
<1> QED BY <1>6, <1>7, <1>8, <1>9 DEF InOrder

LEMMA NovaInitOrder == NovaInit => NovaOrder
<1> SUFFICES ASSUME NovaInit, NEW a \in WorkerId PROVE InOrder(a)
  BY DEF NovaOrder
<1>1. \A s \in NovaSlot : nova[a][s] = IF s = Start THEN Starting ELSE NoWork
  BY DEF NovaInit
<1>2. Starting.pc = "ensureGroup" /\ NoWork.pc = "idle"
  BY StartingRight, NoWorkSays
<1>3. Fresh(a)
  BY DEF NovaInit, Fresh
<1>4. \A s \in NovaSlot : SlotInOrder(a, s, nova[a][s])
  BY <1>1, <1>2, <1>3 DEF SlotInOrder
<1>5. ~AtRest(a)
  BY <1>1, <1>2, NovaNames DEF AtRest, In
<1> QED BY <1>1, <1>2, <1>4, <1>5 DEF InOrder

LEMMA NovaKeepsOrder == NovaRight /\ NovaOrder /\ [NovaNext]_novaVars => NovaOrder'
<1> SUFFICES ASSUME NovaRight, NovaOrder, [NovaNext]_novaVars PROVE NovaOrder'
  OBVIOUS
<1>1. CASE UNCHANGED novaVars
  <2> UNCHANGED <<members, inTurn, novaAvailable, cidRegistry, nova, uploads, written, kept, smooth, anew>>
    BY <1>1 DEF novaVars, ofProcess
  <2>1. \A a \in WorkerId :
          /\ Good(a)' = Good(a) /\ Stable(a)' = Stable(a) /\ AtRest(a)' = AtRest(a)
          /\ KeptIn(a, cidRegistry[a])' = KeptIn(a, cidRegistry[a])
    BY DEF Good, Stable, AtRest, In, KeptIn
  <2>2. ASSUME NEW a \in WorkerId, NEW s \in NovaSlot, SlotInOrder(a, s, nova[a][s])
        PROVE  SlotInOrder(a, s, nova[a][s])'
    BY <2>2 DEF SlotInOrder, Fresh, KeptIn, Covers, Stable
  <2> QED BY <2>1, <2>2 DEF NovaOrder, InOrder
<1>2. CASE NovaNext
  <2>1. PICK a \in members :
          \/ ensureGroup(a) \/ listGroupTransactions(a) \/ loadRegistry(a) \/ LoadFails(a)
          \/ RestartAgent(a)
          \/ \E s \in NovaCall :
               \/ recordDecision(a, s, written + 1)
               \/ \E f \in {Manifesto, Preferences} : update(a, s, f, written + 1)
          \/ \E s \in NovaSlot :
               \/ retrieveJson(a, s) \/ robustUpload(a, s) \/ withRetry(a, s) \/ UploadFails(a, s)
               \/ Uploaded(a, s) \/ saveRegistry(a, s) \/ Saved(a, s)
    BY <1>2 DEF NovaNext
  <2>2. members' = members
    BY <2>1 DEF ensureGroup, listGroupTransactions, loadRegistry, LoadFails, RestartAgent,
                recordDecision, update, retrieveJson, robustUpload, withRetry, UploadFails,
                Uploaded, saveRegistry, Saved
  <2>3. ASSUME Good(a)' PROVE InOrder(a)'
    <3>1. UploadsGo
      <4>1. NovaRight'
        BY <1>2, NovaKeepsRight
      <4>2. /\ Len(uploads) \in Nat /\ uploads \in Seq(Upload)
            /\ uploads' = uploads \/ \E u \in Upload : uploads' = Append(uploads, u)
        <5>1. uploads' = uploads \/ \E s \in NovaSlot : robustUpload(a, s) \/ withRetry(a, s)
          BY <2>1 DEF ensureGroup, listGroupTransactions, loadRegistry, LoadFails, RestartAgent,
                recordDecision, update, retrieveJson, UploadFails,
                Uploaded, saveRegistry, Saved
        <5>2. uploads' \in Seq(Upload)
          BY <4>1 DEF NovaRight, NovaTyped
        <5>3. ASSUME NEW u, uploads' = Append(uploads, u) PROVE u \in Upload
          BY <5>2, <5>3, NovaStays
        <5>4. (\E s \in NovaSlot : robustUpload(a, s) \/ withRetry(a, s)) =>
                 \E u : uploads' = Append(uploads, u)
          BY DEF robustUpload, withRetry
        <5> QED BY <5>1, <5>3, <5>4, NovaStays
      <4>3. (\A i \in 1 .. Len(uploads) : UploadRight(uploads[i]))'
        BY <4>1 DEF NovaRight
      <4>4. uploads' \in Seq(Upload)
        BY <4>1 DEF NovaRight, NovaTyped
      <4> QED BY <4>2, <4>3, <4>4 DEF UploadsGo
    <3>2. CASE ensureGroup(a) \/ listGroupTransactions(a) \/ LoadFails(a)
      BY <2>3, <3>2, StartStepsOrder
    <3>3. CASE loadRegistry(a)
      BY <2>3, <3>3, loadRegistryOrder
    <3>4. CASE RestartAgent(a)
      BY <2>3, <3>4, RestartOrder
    <3>5. CASE \E s \in NovaCall :
                 \/ recordDecision(a, s, written + 1)
                 \/ \E f \in {Manifesto, Preferences} : update(a, s, f, written + 1)
      BY <2>3, <3>5, RecordKeepsOrder, updateKeepsOrder
    <3>6. CASE \E s \in NovaSlot : retrieveJson(a, s) \/ saveRegistry(a, s) \/ UploadFails(a, s)
      BY <2>3, <3>6, GoingOnOrder
    <3>7. CASE \E s \in NovaSlot : robustUpload(a, s) \/ withRetry(a, s)
      BY <2>3, <3>1, <3>7, RecordedOrder
    <3>8. CASE \E s \in NovaSlot : Uploaded(a, s) \/ Saved(a, s)
      BY <2>3, <3>8, UploadedOrder, SavedOrder
    <3> QED BY <2>1, <3>2, <3>3, <3>4, <3>5, <3>6, <3>7, <3>8
  <2> QED BY <2>2, <2>3, OneAgentsOrder
<1> QED BY <1>1, <1>2

\* The two together say all that is claimed.
LEMMA NovaSays == NovaRight /\ NovaOrder => NovaInv
<1> SUFFICES ASSUME NovaRight, NovaOrder PROVE NovaInv
  OBVIOUS
<1>1. NovaTypeOK
  <2>1. ASSUME NEW a \in WorkerId, NEW f \in File PROVE cidRegistry[a][f] \in 0 .. Len(uploads)
    BY <2>1, NovaStays DEF NovaRight, NovaTyped, Right
  <2>2. cidRegistry \in [WorkerId -> [File -> 0 .. Len(uploads)]]
    BY <2>1 DEF NovaRight, NovaTyped
  <2> QED BY <2>2 DEF NovaRight, NovaTyped, NovaTypeOK
<1>2. FilesAreNamed
  <2>1. ASSUME NEW a \in members, NEW f \in File, cidRegistry[a][f] # 0
        PROVE  LET cid == cidRegistry[a][f] IN
               /\ ~uploads[cid].registry /\ uploads[cid].file = f
               /\ members = {a} => uploads[cid].by = a
    <3>1. PICK n : n = cidRegistry[a][f] /\ Right(f, n) /\ n # 0
      BY <2>1, NovaStays DEF NovaRight
    <3>2. n \in 1 .. Len(uploads) /\ uploads[n].registry = FALSE /\ uploads[n].file = f
      BY <3>1 DEF Right
    <3>3. uploads[n].by \in members
      BY <3>2 DEF NovaRight, UploadRight
    <3> QED BY <3>1, <3>2, <3>3
  <2> QED BY <2>1 DEF FilesAreNamed
<1>3. RegistryIsLast /\ EditsAreKept
  BY DEF NovaOrder, Good, InOrder, RegistryIsLast, EditsAreKept, Stable, KeptIn
<1>4. DecisionsAreKnown
  <2>1. ASSUME NEW a \in members \ anew, NEW k \in kept[a] PROVE cidRegistry[a][k[1]] # 0
    BY <2>1 DEF NovaRight, NovaTyped
  <2> QED BY <2>1 DEF DecisionsAreKnown
<1> QED BY <1>1, <1>2, <1>3, <1>4 DEF NovaInv

\* What an agent reads under a name was uploaded under it, and decisions stay known until
\* it restarts, whatever overlaps or fails; the registry is the last upload and no edit is
\* lost, if calls of a group's one agent wait for each other and none is cut.
THEOREM NovaCorrect == NovaSpec => []NovaInv
<1>1. NovaSpec => [](NovaRight /\ NovaOrder)
  BY NovaInitRight, NovaInitOrder, NovaKeepsRight, NovaKeepsOrder, PTL DEF NovaSpec
<1> QED BY <1>1, NovaSays, PTL

-----------------------------------------------------------------------------
(* What an agent remembers of itself *)

\* In the run with all services, one moves and the others stand still.
LEMMA OneServiceMoves ==
  /\ [Next]_AllVars => [ProfileNext]_profileVars
  /\ [Next]_AllVars => [NovaNext]_novaVars
  /\ [Next]_AllVars => [VaultNext]_vaultVars
<1>1. [Next]_AllVars => [ProfileNext]_profileVars
  BY DEF Next, AllVars
<1>2. [Next]_AllVars => [NovaNext]_novaVars
  BY DEF Next, AllVars
<1>3. [Next]_AllVars => [VaultNext]_vaultVars
  BY DEF Next, AllVars
<1> QED BY <1>1, <1>2, <1>3

\* An agent of the older client finds what it saved of itself, and the vault under the
\* present one archives what it says.
THEOREM IdentityCorrect == Spec => []IdentityInv
<1>1. Init => NovaInit /\ VaultInit
  BY DEF Init
<1>2. Spec => NovaSpec /\ VaultSpec
  BY <1>1, OneServiceMoves, PTL DEF Spec, NovaSpec, VaultSpec
<1> QED BY <1>2, NovaCorrect, VaultCorrect, PTL DEF IdentityInv
=============================================================================
