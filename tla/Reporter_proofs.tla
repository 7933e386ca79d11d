---------------------------- MODULE Reporter_proofs ----------------------------
(***************************************************************************)
(* Proofs about the reporter, for every set of results, every number of    *)
(* results that are skipped or kept, and every capacity of the channels.   *)
(***************************************************************************)
EXTENDS Reporter, FiniteSetTheorems, SequenceTheorems, TLAPS

-----------------------------------------------------------------------------
(* Sequences used as channels and lists *)

Elements(s) == {s[i] : i \in 1..Len(s)}

\* What a send or an append does to the elements.
LEMMA Appended ==
    ASSUME NEW S, NEW s \in Seq(S), NEW e \in S
    PROVE  /\ Append(s, e) \in Seq(S) /\ Len(Append(s, e)) = Len(s) + 1
           /\ \A i \in 1..Len(s) : Append(s, e)[i] = s[i]
           /\ Append(s, e)[Len(s) + 1] = e
           /\ Elements(Append(s, e)) = Elements(s) \cup {e}
  <1>1. /\ Append(s, e) \in Seq(S) /\ Len(Append(s, e)) = Len(s) + 1
        /\ \A i \in 1..Len(s) : Append(s, e)[i] = s[i]
        /\ Append(s, e)[Len(s) + 1] = e
    OBVIOUS
  <1> DEFINE t == Append(s, e)
  <1>2. Len(s) \in Nat
    OBVIOUS
  <1> HIDE DEF t
  <1>3. Len(t) = Len(s) + 1 /\ (\A i \in 1..Len(s) : t[i] = s[i]) /\ t[Len(s) + 1] = e
    BY <1>1 DEF t
  <1>4. Elements(t) = Elements(s) \cup {e}
    BY <1>2, <1>3 DEF Elements
  <1> QED  BY <1>1, <1>4 DEF t

\* What a receive does to them.
LEMMA Taken ==
    ASSUME NEW S, NEW s \in Seq(S), s # <<>>
    PROVE  /\ Tail(s) \in Seq(S) /\ Len(s) >= 1 /\ Len(Tail(s)) = Len(s) - 1
           /\ Head(s) \in S /\ Head(s) = s[1]
           /\ \A i \in 1..Len(s) - 1 : Tail(s)[i] = s[i + 1]
           /\ Elements(s) = Elements(Tail(s)) \cup {Head(s)}
  <1>1. /\ Tail(s) \in Seq(S) /\ Len(s) >= 1 /\ Len(Tail(s)) = Len(s) - 1
        /\ Head(s) \in S /\ Head(s) = s[1]
        /\ \A i \in 1..Len(s) - 1 : Tail(s)[i] = s[i + 1]
    OBVIOUS
  <1> DEFINE t == Tail(s)
  <1>2. Len(s) \in Nat
    OBVIOUS
  <1> HIDE DEF t
  <1>3. Len(s) >= 1 /\ Len(t) = Len(s) - 1 /\ \A i \in 1..Len(s) - 1 : t[i] = s[i + 1]
    BY <1>1 DEF t
  <1>4. \A i \in 1..Len(s) : i = 1 \/ (i - 1 \in 1..Len(t) /\ s[i] = t[i - 1])
    BY <1>2, <1>3
  <1>5. \A i \in 1..Len(t) : i + 1 \in 1..Len(s) /\ t[i] = s[i + 1]
    BY <1>2, <1>3
  <1>6. 1 \in 1..Len(s)
    BY <1>2, <1>3
  <1>7. Elements(s) \subseteq Elements(t) \cup {s[1]}
    BY <1>4 DEF Elements
  <1>8. Elements(t) \cup {s[1]} \subseteq Elements(s)
    BY <1>5, <1>6 DEF Elements
  <1> QED  BY <1>1, <1>7, <1>8 DEF t

-----------------------------------------------------------------------------
(* Types *)

\* The body of the loop of Reporter.Run keeps the types.
LEMMA ReceiveType ==
    ASSUME TypeOK, Receive
    PROVE  TypeOK'
  <1> USE ReporterAssumption DEF ReporterAssumption, TypeOK, sending
  <1> DEFINE r == Head(results)
  <1>1. r \in Results /\ Tail(results) \in Seq(Results)
    BY Taken DEF Receive
  <1>2. results' \in Seq(Results) /\ received' \in Seq(Results)
    BY <1>1, Appended DEF Receive
  <1>3. skipCount' \in 0..SkipFirst /\ totalCount' \in Nat /\ errorCount' \in Nat
    BY DEF Receive
  <1>4. details' \in Seq(Results)
    <2>1. CASE details' = details  BY <2>1
    <2>2. CASE details' = Append(details, r)  BY <1>1, <2>2, Appended
    <2>3. ASSUME NEW j \in 0..totalCount, j < MaxResults, Len(details) >= MaxResults,
                 details' = [details EXCEPT ![j + 1] = r]
          PROVE  details' \in Seq(Results)
      <3>1. j + 1 \in 1..Len(details)
        BY <2>3
      <3> QED  BY <1>1, <2>3, <3>1, ExceptSeq
    <2> QED  BY <2>1, <2>2, <2>3 DEF Receive
  <1> QED  BY <1>2, <1>3, <1>4 DEF Receive

LEMMA TypeStep ==
    ASSUME TypeOK, [Next]_vars
    PROVE  TypeOK'
  <1> USE ReporterAssumption DEF ReporterAssumption, TypeOK, sending, counting, vars
  <1>1. ASSUME NEW r \in Results, SendResult(r)
        PROVE  TypeOK'
    BY <1>1, Appended DEF SendResult
  <1>2. ASSUME NEW r \in Results, SendSample(r)
        PROVE  TypeOK'
    <2>1. /\ capture' \in [Results -> {"none", "sending", "sent", "lost"}]
          /\ UNCHANGED <<results, call, finish, loop, sampler, counting, report>>
      BY <1>2 DEF SendSample
    <2>2. sampledResults' \in Seq(Results) /\ sampledDetails' \in Seq(Results)
      <3>1. CASE UNCHANGED <<sampledResults, sampledDetails>>
        BY <3>1
      <3>2. CASE sampledResults' = Append(sampledResults, r) /\ UNCHANGED sampledDetails
        BY <3>2, Appended
      <3>3. CASE sampledDetails' = Append(sampledDetails, r) /\ UNCHANGED sampledResults
        BY <3>3, Appended
      <3> QED  BY <1>2, <3>1, <3>2, <3>3 DEF SendSample
    <2> QED  BY <2>1, <2>2
  <1>3. CASE Receive
    BY <1>3, ReceiveType
  <1>4. CASE ReceiveSample
    BY <1>4, Taken, Appended DEF ReceiveSample
  <1>5. CASE ReceiveEnd \/ ReceiveSampleEnd \/ Join
    BY <1>5 DEF ReceiveEnd, ReceiveSampleEnd, Join
  <1>6. CASE CloseResults \/ CloseSampled \/ Finalize
    BY <1>6 DEF CloseResults, CloseSampled, Finalize
  <1>7. CASE UNCHANGED vars
    BY <1>7
  <1> QED  BY <1>1, <1>2, <1>3, <1>4, <1>5, <1>6, <1>7 DEF Next, Terminated

LEMMA TypeInit == Init => TypeOK
  BY ReporterAssumption DEF ReporterAssumption, Init, TypeOK

-----------------------------------------------------------------------------
(* The counters and the details *)

\* A result is sent once, and is then in the channel or received.
SentOnce ==
    /\ \A i \in 1..Len(results) : call[results[i]] = "sent"
    /\ \A i \in 1..Len(received) : call[received[i]] = "sent"
    /\ \A i, j \in 1..Len(results) : i # j => results[i] # results[j]
    /\ \A i, j \in 1..Len(received) : i # j => received[i] # received[j]
    /\ \A i \in 1..Len(received), j \in 1..Len(results) : received[i] # results[j]

LEMMA SentStep ==
    ASSUME TypeOK, SentOnce, [Next]_vars
    PROVE  SentOnce'
  <1> USE ReporterAssumption DEF ReporterAssumption, TypeOK, SentOnce
  <1>1. ASSUME NEW r \in Results, SendResult(r)
        PROVE  SentOnce'
    <2>1. /\ call[r] = "running" /\ call' = [call EXCEPT ![r] = "sent"]
          /\ results' = Append(results, r) /\ received' = received
      BY <1>1 DEF SendResult, counting
    <2>2. /\ Len(results') = Len(results) + 1 /\ results'[Len(results) + 1] = r
          /\ \A i \in 1..Len(results) : results'[i] = results[i]
      BY <2>1, Appended
    <2>3. /\ \A i \in 1..Len(results) : results[i] \in Results /\ results[i] # r
          /\ \A i \in 1..Len(received) : received[i] \in Results /\ received[i] # r
          /\ Len(results) \in Nat /\ Len(received) \in Nat
      BY <2>1, ElementOfSeq DEF SentOnce
    <2> HIDE DEF TypeOK
    <2>4. /\ \A i \in 1..Len(results') : i = Len(results) + 1 \/ i \in 1..Len(results)
          /\ call'[r] = "sent" /\ \A q \in Results : call[q] = "sent" => call'[q] = "sent"
      BY <2>1, <2>2, <2>3 DEF TypeOK
    <2> QED  BY <2>1, <2>2, <2>3, <2>4
  <1>2. CASE Receive
    <2> DEFINE r == Head(results)
    <2>1. /\ r = results[1] /\ Len(results) >= 1 /\ Len(results') = Len(results) - 1
          /\ \A i \in 1..Len(results) - 1 : results'[i] = results[i + 1]
      BY <1>2, Taken DEF Receive
    <2>2. r \in Results
      BY <1>2, Taken DEF Receive
    <2>3. /\ Len(received') = Len(received) + 1 /\ received'[Len(received) + 1] = r
          /\ \A i \in 1..Len(received) : received'[i] = received[i]
      BY <1>2, <2>2, Appended DEF Receive
    <2>4. call' = call
      BY <1>2 DEF Receive, sending
    <2>5. Len(results) \in Nat /\ Len(received) \in Nat
      OBVIOUS
    <2> HIDE DEF r, TypeOK
    <2>6. /\ \A i \in 1..Len(results') : i + 1 \in 1..Len(results) /\ results'[i] = results[i + 1]
          /\ \A i \in 1..Len(received') :
                \/ i = Len(received) + 1 /\ received'[i] = results[1]
                \/ i \in 1..Len(received) /\ received'[i] = received[i]
          /\ 1 \in 1..Len(results)
      BY <2>1, <2>3, <2>5
    <2>7. /\ \A i \in 1..Len(results') : call'[results'[i]] = "sent"
          /\ \A i \in 1..Len(received') : call'[received'[i]] = "sent"
      BY <2>4, <2>6
    <2>8. \A i, j \in 1..Len(results') : i # j => results'[i] # results'[j]
      BY <2>6
    <2>9. \A i, j \in 1..Len(received') : i # j => received'[i] # received'[j]
      BY <2>6
    <2>10. \A i \in 1..Len(received'), j \in 1..Len(results') : received'[i] # results'[j]
      BY <2>6
    <2> QED  BY <2>7, <2>8, <2>9, <2>10
  <1>3. CASE UNCHANGED <<results, received, call>>
    BY <1>3
  <1> QED
    BY <1>1, <1>2, <1>3
    DEF Next, SendSample, ReceiveEnd, ReceiveSample, ReceiveSampleEnd, Join, CloseResults,
        CloseSampled, Finalize, Terminated, vars, sending, counting

\* The details are what SampleOfCounted says, and the results are skipped first.
CountInv ==
    /\ skipCount < SkipFirst => totalCount = 0
    /\ SampleOfCounted

LEMMA CountedFinite ==
    ASSUME TypeOK
    PROVE  IsFiniteSet(Counted) /\ IsFiniteSet(Counted \cap Failing) /\ Counted \subseteq Results
  <1>1. Counted \subseteq Results
    BY ReporterAssumption DEF ReporterAssumption, TypeOK, Counted
  <1> QED  BY <1>1, FS_Subset, ReporterAssumption DEF ReporterAssumption

\* Receiving a result makes it count, unless it is one of the first.
LEMMA ReceiveCounts ==
    ASSUME TypeOK, SentOnce, CountInv, Receive
    PROVE  /\ skipCount < SkipFirst => Counted' = {} /\ Counted = {}
           /\ skipCount = SkipFirst => Counted' = Counted \cup {Head(results)}
           /\ Head(results) \notin Counted
  <1> USE ReporterAssumption DEF ReporterAssumption, TypeOK, Counted
  <1> DEFINE r == Head(results)
  <1>1. r \in Results /\ Len(results) >= 1 /\ r = results[1]
    BY Taken DEF Receive
  <1>2. /\ Len(received') = Len(received) + 1 /\ received'[Len(received) + 1] = r
        /\ \A i \in 1..Len(received) : received'[i] = received[i]
    BY <1>1, Appended DEF Receive
  <1>3. Len(received) \in Nat /\ skipCount + totalCount = Len(received)
    BY LenProperties DEF CountInv, SampleOfCounted, CountsAgree
  <1>4. r \notin Counted
    BY <1>1, <1>3 DEF SentOnce
  <1>5. skipCount < SkipFirst => Len(received) + 1 <= SkipFirst
    BY <1>3 DEF CountInv
  <1>6. skipCount = SkipFirst => SkipFirst <= Len(received)
    BY <1>3
  <1> HIDE DEF r
  <1>7. skipCount < SkipFirst => Counted' = {} /\ Counted = {}
    BY <1>2, <1>3, <1>5
  <1>8. ASSUME skipCount = SkipFirst
        PROVE  Counted' = Counted \cup {r}
    <2>1. \A i \in SkipFirst + 1..Len(received') :
             \/ i = Len(received) + 1 /\ received'[i] = r
             \/ i \in SkipFirst + 1..Len(received) /\ received'[i] = received[i]
      BY <1>2, <1>3, <1>6, <1>8
    <2>2. /\ Len(received) + 1 \in SkipFirst + 1..Len(received')
          /\ \A i \in SkipFirst + 1..Len(received) :
                i \in SkipFirst + 1..Len(received') /\ received'[i] = received[i]
      BY <1>2, <1>3, <1>6, <1>8
    <2>3. Counted' \subseteq Counted \cup {r}
      BY <2>1
    <2>4. Counted \cup {r} \subseteq Counted'
      BY <1>2, <2>2
    <2> QED  BY <2>3, <2>4
  <1> QED  BY <1>4, <1>7, <1>8 DEF r

\* The counters follow the results that count.
LEMMA ReceiveAgrees ==
    ASSUME TypeOK, SentOnce, CountInv, Receive
    PROVE  CountsAgree'
  <1> DEFINE r == Head(results)
  <1>1. IsFiniteSet(Counted) /\ IsFiniteSet(Counted \cap Failing)
    BY CountedFinite
  <1>2. Len(received') = Len(received) + 1 /\ Len(received) \in Nat
    BY Taken, Appended DEF TypeOK, Receive
  <1>3. /\ skipCount \in 0..SkipFirst /\ totalCount \in Nat /\ errorCount \in Nat
        /\ SkipFirst \in Nat
    BY ReporterAssumption DEF TypeOK, ReporterAssumption
  <1>4. CASE skipCount < SkipFirst
    <2>1. Counted = {} /\ Counted' = {}
      BY <1>4, ReceiveCounts
    <2>2. UNCHANGED <<totalCount, errorCount>> /\ skipCount' = skipCount + 1
      BY <1>3, <1>4 DEF Receive
    <2>3. /\ skipCount + totalCount = Len(received)
          /\ totalCount = Cardinality(Counted)
          /\ errorCount = Cardinality(Counted \cap Failing)
      BY DEF CountInv, SampleOfCounted, CountsAgree
    <2>4. skipCount' + totalCount' = Len(received')
      BY <1>2, <1>3, <2>2, <2>3
    <2>5. /\ totalCount' = Cardinality(Counted')
          /\ errorCount' = Cardinality(Counted' \cap Failing)
      BY <2>1, <2>2, <2>3
    <2> QED  BY <2>4, <2>5 DEF CountsAgree
  <1>5. CASE skipCount = SkipFirst
    <2>1. Counted' = Counted \cup {r} /\ r \notin Counted
      BY <1>5, ReceiveCounts
    <2>2. /\ totalCount' = totalCount + 1 /\ skipCount' = skipCount
          /\ errorCount' = errorCount + (IF r \in Failing THEN 1 ELSE 0)
      BY <1>3, <1>5 DEF Receive
    <2>3. Cardinality(Counted') = Cardinality(Counted) + 1
      BY <1>1, <2>1, FS_AddElement
    <2>4. Cardinality(Counted' \cap Failing) =
              Cardinality(Counted \cap Failing) + (IF r \in Failing THEN 1 ELSE 0)
      <3>1. CASE r \in Failing
        <4>1. Counted' \cap Failing = (Counted \cap Failing) \cup {r}
          BY <2>1, <3>1
        <4> QED  BY <1>1, <2>1, <3>1, <4>1, FS_AddElement
      <3>2. CASE r \notin Failing
        <4>1. Counted' \cap Failing = Counted \cap Failing
          BY <2>1, <3>2
        <4>2. Cardinality(Counted \cap Failing) \in Nat
          BY <1>1, FS_CardinalityType
        <4> HIDE DEF r
        <4>3. (IF r \in Failing THEN 1 ELSE 0) = 0
          BY <3>2
        <4>4. Cardinality(Counted' \cap Failing) = Cardinality(Counted \cap Failing)
          BY <4>1
        <4> QED  BY <4>2, <4>3, <4>4
      <3> QED  BY <3>1, <3>2
    <2> HIDE DEF r
    <2>5. /\ skipCount + totalCount = Len(received)
          /\ totalCount = Cardinality(Counted)
          /\ errorCount = Cardinality(Counted \cap Failing)
      BY DEF CountInv, SampleOfCounted, CountsAgree
    <2>6. skipCount' + totalCount' = Len(received')
      BY <1>2, <1>3, <2>2, <2>5
    <2>7. /\ totalCount' = Cardinality(Counted')
          /\ errorCount' = Cardinality(Counted' \cap Failing)
      BY <1>3, <2>2, <2>3, <2>4, <2>5
    <2> QED  BY <2>6, <2>7 DEF CountsAgree
  <1> QED  BY <1>3, <1>4, <1>5

\* The details stay distinct results that count, as many as there may be.
LEMMA ReceiveSamples ==
    ASSUME TypeOK, SentOnce, CountInv, Receive
    PROVE  DetailsAreSample'
  <1> DEFINE r == Head(results)
  <1>1. /\ skipCount \in 0..SkipFirst /\ totalCount \in Nat /\ SkipFirst \in Nat
        /\ MaxResults \in Nat \ {0} /\ details \in Seq(Results) /\ r \in Results
    BY ReporterAssumption, Taken DEF TypeOK, ReporterAssumption, Receive
  <1>2. /\ \A i, j \in 1..Len(details) : i # j => details[i] # details[j]
        /\ \A i \in 1..Len(details) : details[i] \in Counted
        /\ Len(details) = IF totalCount < MaxResults THEN totalCount ELSE MaxResults
    BY <1>1, LenProperties DEF CountInv, SampleOfCounted, DetailsAreSample
  <1>3. CASE skipCount < SkipFirst
    <2>1. UNCHANGED <<totalCount, details>>
      BY <1>1, <1>3 DEF Receive
    <2>2. totalCount = 0 /\ Len(details) = 0
      BY <1>1, <1>2, <1>3 DEF CountInv
    <2> QED  BY <1>1, <2>1, <2>2 DEF DetailsAreSample
  <1>4. CASE skipCount = SkipFirst
    <2>1. Counted' = Counted \cup {r} /\ r \notin Counted
      BY <1>4, ReceiveCounts
    <2>2. totalCount' = totalCount + 1
      BY <1>1, <1>4 DEF Receive
    <2>3. CASE Len(details) < MaxResults /\ details' = Append(details, r)
      <3>1. /\ Len(details') = Len(details) + 1 /\ details'[Len(details) + 1] = r
            /\ \A i \in 1..Len(details) : details'[i] = details[i]
            /\ DOMAIN details' = 1..Len(details') /\ Len(details) \in Nat
        BY <1>1, <2>3, Appended, LenProperties
      <3> HIDE DEF r
      <3>2. \A i \in 1..Len(details') : \/ i = Len(details) + 1 /\ details'[i] = r
                                        \/ i \in 1..Len(details) /\ details'[i] = details[i]
        BY <3>1
      <3>3. \A i, j \in 1..Len(details') : i # j => details'[i] # details'[j]
        BY <1>2, <2>1, <3>2
      <3>4. \A i \in 1..Len(details') : details'[i] \in Counted'
        BY <1>2, <2>1, <3>2
      <3>5. Len(details') = IF totalCount' < MaxResults THEN totalCount' ELSE MaxResults
        BY <1>1, <1>2, <2>2, <2>3, <3>1
      <3> QED  BY <3>1, <3>3, <3>4, <3>5 DEF DetailsAreSample
    <2>4. ASSUME Len(details) >= MaxResults, NEW k \in 1..MaxResults,
                 details' = [details EXCEPT ![k] = r] \/ details' = details
          PROVE  DetailsAreSample'
      <3>1. k \in 1..Len(details) /\ Len(details) = MaxResults
        BY <1>1, <1>2, <2>4
      <3>2. /\ Len(details') = Len(details) /\ DOMAIN details' = 1..Len(details)
            /\ \A i \in 1..Len(details) : details'[i] = details[i] \/ (i = k /\ details'[i] = r)
        BY <1>1, <2>4, <3>1, ExceptSeq, LenProperties
      <3> HIDE DEF r
      <3>3. \A i, j \in 1..Len(details) : i # j => details'[i] # details'[j]
        BY <1>2, <2>1, <3>2
      <3>4. \A i \in 1..Len(details) : details'[i] \in Counted'
        BY <1>2, <2>1, <3>2
      <3>5. Len(details') = IF totalCount' < MaxResults THEN totalCount' ELSE MaxResults
        BY <1>1, <1>2, <2>2, <2>4, <3>1, <3>2
      <3> QED  BY <3>2, <3>3, <3>4, <3>5 DEF DetailsAreSample
    <2>5. \/ Len(details) < MaxResults /\ details' = Append(details, r)
          \/ /\ Len(details) >= MaxResults
             /\ \E k \in 1..MaxResults :
                   details' = [details EXCEPT ![k] = r] \/ details' = details
      <3>1. SUFFICES ASSUME Len(details) >= MaxResults,
                            NEW j \in 0..totalCount,
                            details' = IF j < MaxResults
                                       THEN [details EXCEPT ![j + 1] = r] ELSE details
                     PROVE  \E k \in 1..MaxResults :
                               details' = [details EXCEPT ![k] = r] \/ details' = details
        BY <1>1, <1>4 DEF Receive
      <3>2. CASE j < MaxResults
        <4>1. j + 1 \in 1..MaxResults
          BY <1>1, <3>2
        <4> QED  BY <3>1, <3>2, <4>1
      <3>3. CASE ~(j < MaxResults)
        <4>1. 1 \in 1..MaxResults
          BY <1>1
        <4> QED  BY <3>1, <3>3, <4>1
      <3> QED  BY <3>2, <3>3
    <2> QED  BY <2>3, <2>4, <2>5
  <1> QED  BY <1>1, <1>3, <1>4

LEMMA CountStep ==
    ASSUME TypeOK, SentOnce, CountInv, [Next]_vars
    PROVE  CountInv'
  <1>1. CASE Receive
    <2>1. skipCount' < SkipFirst => totalCount' = 0
      BY <1>1, ReporterAssumption DEF Receive, CountInv, TypeOK, ReporterAssumption
    <2> QED  BY <1>1, <2>1, ReceiveAgrees, ReceiveSamples DEF CountInv, SampleOfCounted
  <1>2. CASE UNCHANGED <<received, skipCount, totalCount, errorCount, details>>
    BY <1>2 DEF CountInv, SampleOfCounted, CountsAgree, DetailsAreSample, Counted
  <1> QED
    BY <1>1, <1>2
    DEF Next, SendResult, SendSample, ReceiveEnd, ReceiveSample, ReceiveSampleEnd, Join,
        CloseResults, CloseSampled, Finalize, Terminated, vars, counting

LEMMA CountInit == Init => SentOnce /\ CountInv
  <1> SUFFICES ASSUME Init PROVE SentOnce /\ CountInv
    OBVIOUS
  <1>1. SentOnce
    BY DEF Init, SentOnce
  <1>2. Counted = {}
    BY ReporterAssumption DEF Init, Counted, ReporterAssumption
  <1>3. Cardinality(Counted) = 0 /\ Cardinality(Counted \cap Failing) = 0
    BY <1>2, FS_EmptySet
  <1>4. CountsAgree
    BY <1>3 DEF Init, CountsAgree
  <1>5. DetailsAreSample
    BY ReporterAssumption DEF Init, DetailsAreSample, ReporterAssumption
  <1> QED  BY <1>1, <1>4, <1>5 DEF Init, CountInv, SampleOfCounted

\* The counters, the errors and the details are those of the results after the
\* first SkipFirst, and the details are as many of them as can be kept, for any
\* number of results in any order.
THEOREM SampleCorrect == Spec => []SampleOfCounted
  <1>1. TypeOK /\ [Next]_vars => TypeOK'
    BY TypeStep
  <1>2. TypeOK /\ SentOnce /\ [Next]_vars => SentOnce'
    BY SentStep
  <1>3. TypeOK /\ SentOnce /\ CountInv /\ [Next]_vars => CountInv'
    BY CountStep
  <1>4. CountInv => SampleOfCounted
    BY DEF CountInv
  <1> QED  BY TypeInit, CountInit, <1>1, <1>2, <1>3, <1>4, PTL DEF Spec

-----------------------------------------------------------------------------
(* The report *)

\* How far the two loops are when Finish goes on.
LoopsInv ==
    /\ ResultsClosed => \A r \in Results : call[r] = "sent"
    /\ loop # "range" => ResultsClosed /\ results = <<>>
    /\ loop = "done" => sampler = "end"
    /\ sampler # "range" => SampledClosed /\ sampledResults = <<>>
    /\ finish = "finalized" =>
           /\ loop = "done" /\ report.count = totalCount
           /\ report.details # <<>> => report.samples = sampledDetails

LEMMA LoopsStep ==
    ASSUME TypeOK, LoopsInv, [Next]_vars
    PROVE  LoopsInv'
  <1> USE DEF TypeOK, LoopsInv, ResultsClosed, SampledClosed, sending, counting, vars
  <1>1. ASSUME NEW r \in Results, SendResult(r)
        PROVE  LoopsInv'
    BY <1>1 DEF SendResult
  <1>2. ASSUME NEW r \in Results, SendSample(r)
        PROVE  LoopsInv'
    BY <1>2 DEF SendSample
  <1>3. CASE Receive
    <2>1. loop = "range" /\ UNCHANGED <<sampledResults, call, finish, loop, sampler>>
      BY <1>3 DEF Receive
    <2> QED  BY <2>1
  <1>4. CASE ReceiveSample
    <2>1. sampler = "range" /\ UNCHANGED <<results, call, finish, loop, sampler>>
      BY <1>4 DEF ReceiveSample
    <2> QED  BY <2>1
  <1>5. CASE ReceiveEnd \/ ReceiveSampleEnd \/ Join
    BY <1>5 DEF ReceiveEnd, ReceiveSampleEnd, Join
  <1>6. CASE CloseResults \/ CloseSampled
    BY <1>6 DEF CloseResults, CloseSampled
  <1>7. CASE Finalize
    BY <1>7 DEF Finalize
  <1>8. CASE UNCHANGED vars
    BY <1>8
  <1> QED  BY <1>1, <1>2, <1>3, <1>4, <1>5, <1>6, <1>7, <1>8 DEF Next, Terminated

\* No result and no sample leaves a channel without being kept.
KeptInv ==
    /\ IsFiniteSet(Elements(received))
    /\ Cardinality(Elements(received)) = Len(received)
    /\ \A r \in Results : call[r] = "sent" => r \in Elements(results) \cup Elements(received)
    /\ \A r \in Results : call[r] = "running" => capture[r] = "none"
    /\ {r \in Results : capture[r] = "sent"}
           = Elements(sampledResults) \cup Elements(sampledDetails)

LEMMA KeptStep ==
    ASSUME TypeOK, SentOnce, KeptInv, [Next]_vars
    PROVE  KeptInv'
  <1> DEFINE Captured == {r \in Results : capture[r] = "sent"}
  <1> USE DEF TypeOK
  <1>1. ASSUME NEW r \in Results, SendResult(r)
        PROVE  KeptInv'
    <2>1. /\ results' = Append(results, r) /\ UNCHANGED <<received, sampledResults, sampledDetails>>
          /\ call' = [call EXCEPT ![r] = "sent"]
          /\ capture' = [capture EXCEPT ![r] = IF r \in Sampled THEN "sending" ELSE "none"]
          /\ call[r] = "running"
      BY <1>1 DEF SendResult, counting
    <2>2. Elements(results') = Elements(results) \cup {r}
      BY <2>1, Appended
    <2>3. Captured' = Captured
      <3>1. \A q \in Results : q # r => capture'[q] = capture[q]
        BY <2>1
      <3>2. capture'[r] # "sent" /\ capture[r] # "sent"
        BY <2>1 DEF KeptInv
      <3> QED  BY <3>1, <3>2
    <2>4. \A q \in Results : call'[q] = "sent" => q = r \/ call[q] = "sent"
      BY <2>1
    <2> QED  BY <2>1, <2>2, <2>3, <2>4 DEF KeptInv
  <1>2. ASSUME NEW r \in Results, SendSample(r)
        PROVE  KeptInv'
    <2>1. UNCHANGED <<call, results, received>> /\ capture[r] = "sending"
      BY <1>2 DEF SendSample, counting
    <2>2. CASE capture' = [capture EXCEPT ![r] = "lost"] /\ UNCHANGED <<sampledResults, sampledDetails>>
      <3>1. Captured' = Captured
        BY <2>1, <2>2
      <3> QED  BY <2>1, <2>2, <3>1 DEF KeptInv
    <2>3. CASE /\ capture' = [capture EXCEPT ![r] = "sent"]
               /\ \/ sampledResults' = Append(sampledResults, r) /\ UNCHANGED sampledDetails
                  \/ sampledDetails' = Append(sampledDetails, r) /\ UNCHANGED sampledResults
      <3>1. Captured' = Captured \cup {r}
        BY <2>1, <2>3
      <3>2. Elements(sampledResults') \cup Elements(sampledDetails')
                = Elements(sampledResults) \cup Elements(sampledDetails) \cup {r}
        <4>1. CASE sampledResults' = Append(sampledResults, r) /\ UNCHANGED sampledDetails
          <5>1. Elements(sampledResults') = Elements(sampledResults) \cup {r}
            BY <4>1, Appended
          <5> QED  BY <4>1, <5>1
        <4>2. CASE sampledDetails' = Append(sampledDetails, r) /\ UNCHANGED sampledResults
          <5>1. Elements(sampledDetails') = Elements(sampledDetails) \cup {r}
            BY <4>2, Appended
          <5> QED  BY <4>2, <5>1
        <4> QED  BY <2>3, <4>1, <4>2
      <3>3. \A q \in Results : call'[q] = "running" => capture'[q] = "none"
        BY <2>1, <2>3 DEF KeptInv
      <3>4. \A q \in Results : call'[q] = "sent" =>
                q \in Elements(results') \cup Elements(received')
        BY <2>1 DEF KeptInv
      <3>5. IsFiniteSet(Elements(received')) /\ Cardinality(Elements(received')) = Len(received')
        BY <2>1 DEF KeptInv
      <3>6. Captured' = Elements(sampledResults') \cup Elements(sampledDetails')
        BY <3>1, <3>2 DEF KeptInv
      <3> QED  BY <3>3, <3>4, <3>5, <3>6 DEF KeptInv
    <2> QED  BY <1>2, <2>2, <2>3 DEF SendSample
  <1>3. CASE Receive
    <2> DEFINE r == Head(results)
    <2>1. /\ Elements(results) = Elements(results') \cup {r} /\ r \in Results
          /\ Len(results) >= 1 /\ r = results[1]
      BY <1>3, Taken DEF Receive
    <2>2. received' = Append(received, r) /\ UNCHANGED <<call, capture, sampledResults, sampledDetails>>
      BY <1>3 DEF Receive, sending
    <2>3. Elements(received') = Elements(received) \cup {r} /\ Len(received') = Len(received) + 1
      BY <2>1, <2>2, Appended
    <2>4. r \notin Elements(received)
      BY <2>1 DEF SentOnce, Elements
    <2>5. /\ IsFiniteSet(Elements(received'))
          /\ Cardinality(Elements(received')) = Len(received')
      <3>1. Cardinality(Elements(received) \cup {r}) = Cardinality(Elements(received)) + 1
        BY <2>4, FS_AddElement DEF KeptInv
      <3>2. IsFiniteSet(Elements(received) \cup {r})
        BY FS_AddElement DEF KeptInv
      <3> HIDE DEF r
      <3> QED  BY <2>3, <3>1, <3>2 DEF KeptInv
    <2> HIDE DEF r
    <2> QED  BY <2>1, <2>2, <2>3, <2>5 DEF KeptInv
  <1>4. CASE ReceiveSample
    <2> DEFINE r == Head(sampledResults)
    <2>1. Elements(sampledResults) = Elements(sampledResults') \cup {r} /\ r \in Results
      BY <1>4, Taken DEF ReceiveSample
    <2>2. /\ sampledDetails' = Append(sampledDetails, r)
          /\ UNCHANGED <<call, capture, results, received>>
      BY <1>4 DEF ReceiveSample, sending, counting
    <2>3. Elements(sampledDetails') = Elements(sampledDetails) \cup {r}
      BY <2>1, <2>2, Appended
    <2> HIDE DEF r
    <2> QED  BY <2>1, <2>2, <2>3 DEF KeptInv
  <1>5. CASE UNCHANGED <<call, capture, results, received, sampledResults, sampledDetails>>
    BY <1>5 DEF KeptInv
  <1> QED
    BY <1>1, <1>2, <1>3, <1>4, <1>5
    DEF Next, ReceiveEnd, ReceiveSampleEnd, Join, CloseResults, CloseSampled, Finalize,
        Terminated, vars, sending, counting

LEMMA ReportInit == Init => LoopsInv /\ KeptInv
  <1> SUFFICES ASSUME Init PROVE LoopsInv /\ KeptInv
    OBVIOUS
  <1>1. Elements(<<>>) = {}
    BY DEF Elements
  <1>2. KeptInv
    BY <1>1, FS_EmptySet DEF Init, KeptInv
  <1> QED
    BY <1>2 DEF Init, LoopsInv, ResultsClosed, SampledClosed

\* The report counts every result and holds every sample that was sent before the
\* channel was closed, for any capacity of the channels.
THEOREM ReportCorrect == Spec => []ReportSeesAll
  <1>1. TypeOK /\ [Next]_vars => TypeOK'
    BY TypeStep
  <1>2. TypeOK /\ SentOnce /\ [Next]_vars => SentOnce'
    BY SentStep
  <1>3. TypeOK /\ LoopsInv /\ [Next]_vars => LoopsInv'
    BY LoopsStep
  <1>4. TypeOK /\ SentOnce /\ KeptInv /\ [Next]_vars => KeptInv'
    BY KeptStep
  <1>5. ASSUME TypeOK, LoopsInv, KeptInv
        PROVE  ReportSeesAll
    <2> SUFFICES ASSUME finish = "finalized"
                 PROVE  /\ Len(received) = Cardinality(Results)
                        /\ report.count = totalCount
                        /\ report.details # <<>> =>
                               Elements(report.samples) = {r \in Results : capture[r] = "sent"}
      <3>1. finish = "finalized" /\ report.details # <<>> =>
                DOMAIN report.samples = 1..Len(report.samples)
        BY <1>5, LenProperties DEF TypeOK, LoopsInv
      <3> QED  BY <3>1 DEF ReportSeesAll, Elements
    <2>1. /\ results = <<>> /\ sampledResults = <<>> /\ report.count = totalCount
          /\ report.details # <<>> => report.samples = sampledDetails
          /\ \A r \in Results : call[r] = "sent"
      BY <1>5 DEF LoopsInv
    <2>2. Elements(<<>>) = {}
      BY DEF Elements
    <2>3. Elements(received) = Results
      <3>1. Elements(received) \subseteq Results
        BY <1>5, ElementOfSeq DEF Elements, TypeOK
      <3> QED  BY <1>5, <2>1, <2>2, <3>1 DEF KeptInv
    <2> QED  BY <1>5, <2>1, <2>2, <2>3 DEF KeptInv
  <1> QED
    BY TypeInit, CountInit, ReportInit, <1>1, <1>2, <1>3, <1>4, <1>5, PTL DEF Spec
=============================================================================
