--------------------------- MODULE ReportingProofs ---------------------------
(* Proofs about acquisition over an association, for every configuration,    *)
(* every number of transfer sets and any losses of the link.                 *)
EXTENDS Reporting, ConfigurationProofs, SequenceTheorems, FiniteSetTheorems, TLAPS

-----------------------------------------------------------------------------
(* The configuration                                                        *)

\* The imports run once: the configuration stays what they made of a document and a
\* stack.
Configured ==
    /\ \E c \in Configurations : doc = c[1] /\ stack = c[2]
    /\ m_config = setJsonConfig(doc, stack)

\* The entries and the lists are sequences.
LEMMA DocumentFacts ==
    ASSUME Configured
    PROVE  /\ Len(doc) \in Nat /\ DOMAIN doc = 1 .. Len(doc)
           /\ Len(stack.connections) \in Nat
           /\ DOMAIN stack.connections = 1 .. Len(stack.connections)
           /\ Len(stack.datasets) \in Nat /\ DOMAIN stack.datasets = 1 .. Len(stack.datasets)
           /\ Len(stack.transferSets) \in Nat
           /\ DOMAIN stack.transferSets = 1 .. Len(stack.transferSets)
  BY ConfigurationsAssumption DEF Configured

\* A table by ref holds, for each of its refs, an entry that defines it.
LEMMA TableEntries ==
    ASSUME Configured, NEW types, NEW r \in DOMAIN ByRef(doc, types)
    PROVE  \E i \in Defining(doc, types) : ByRef(doc, types)[r] = doc[i] /\ doc[i].ref = r
  <1> DEFINE Of == {i \in Defining(doc, types) : doc[i].ref = r}
  <1>1. Of \in SUBSET (1 .. Len(doc)) /\ Len(doc) \in Nat
    BY DocumentFacts DEF Defining, ReadEntries
  <1>2. Of # {}
    BY DEF ByRef
  <1>3. \E i \in Of : \A j \in Of : j <= i
    BY <1>1, <1>2, GreatestNumber
  <1>4. ByRef(doc, types)[r] = doc[CHOOSE i \in Of : \A j \in Of : j <= i]
    BY DEF ByRef
  <1>5. QED
    BY <1>3, <1>4

\* A polled point is an indication of the document that no data set takes out.
LEMMA PolledPoints ==
    ASSUME Configured, NEW r \in DOMAIN Polled
    PROVE  /\ r \in Refs
           /\ \E i \in Defining(doc, Indications) : Polled[r] = doc[i] /\ doc[i].ref = r
           /\ m_config.outcome = "complete" => r \notin Unpolled(stack)
  <1> DEFINE listed == IF m_config.outcome = "complete" THEN Unpolled(stack) ELSE {}
  <1>1. Polled = polledDatapoints(doc, listed)
    BY DEF Configured, setJsonConfig, Polled
  <1>2. r \in DOMAIN ByRef(doc, Indications) /\ r \notin listed
        /\ Polled[r] = ByRef(doc, Indications)[r]
    BY <1>1 DEF polledDatapoints
  <1>3. \E i \in Defining(doc, Indications) : Polled[r] = doc[i] /\ doc[i].ref = r
    BY <1>2, TableEntries
  <1>4. QED
    BY <1>2, <1>3 DEF Refs, Defining, ReadEntries

LEMMA DefinedPoints ==
    ASSUME Configured, NEW r \in DOMAIN Definitions
    PROVE  /\ r \in Refs
           /\ \E i \in Defining(doc, Indications \cup Commands) :
                  Definitions[r] = doc[i] /\ doc[i].ref = r
  <1>1. Definitions = ByRef(doc, Indications \cup Commands)
    BY DEF Configured, setJsonConfig, Definitions, exchangeDefinitionsRef
  <1>2. \E i \in Defining(doc, Indications \cup Commands) :
            Definitions[r] = doc[i] /\ doc[i].ref = r
    BY <1>1, TableEntries
  <1>3. QED
    BY <1>2 DEF Refs, Defining, ReadEntries

\* Every point an entry defines is in m_exchangeDefinitionsRef.
LEMMA DefinedIsFound ==
    ASSUME Configured, NEW i \in Defining(doc, Indications \cup Commands)
    PROVE  doc[i].ref \in DOMAIN Definitions
  BY DEF Configured, setJsonConfig, Definitions, exchangeDefinitionsRef, ByRef

\* The points of an imported data set are listed by a named data set of the stack.
LEMMA DatasetPoints ==
    ASSUME Configured, NEW n \in DOMAIN m_config.datasets
    PROVE  /\ m_config.outcome = "complete"
           /\ m_config.datasets[n] \in Range(stack.datasets)
           /\ m_config.datasets[n].name # ""
  <1>1. m_config.outcome = "complete" /\ m_config.datasets = Inserted(stack.datasets)
    <2>1. m_config.outcome = Outcome(stack)
          /\ m_config.datasets = IF Outcome(stack) = "complete"
                                 THEN Inserted(stack.datasets) ELSE <<>>
      BY DEF Configured, setJsonConfig
    <2>2. QED
      BY <2>1
  <1> DEFINE entries == stack.datasets
  <1>2. Len(entries) \in Nat /\ DOMAIN entries = 1 .. Len(entries)
    BY DocumentFacts
  <1>3. n # "" /\ \E i \in DOMAIN entries :
            Inserted(entries)[n] = entries[i] /\ entries[i].name = n
    <2> n \in DOMAIN Inserted(entries)
      BY <1>1
    <2> HIDE DEF entries
    <2> QED
      BY <1>2, InsertedEntries
  <1>4. QED
    BY <1>1, <1>2, <1>3 DEF Range

\* A point that the data sets spell as the exchange does is either polled or in a
\* data set.
LEMMA OneWay ==
    ASSUME Configured, NEW n \in DOMAIN m_config.datasets,
           NEW r \in m_config.datasets[n].entries, SpelledOnly(r)
    PROVE  r \notin DOMAIN Polled
  <1> DEFINE d == m_config.datasets[n]
  <1>1. d \in Range(stack.datasets) /\ d.name # "" /\ m_config.outcome = "complete"
    BY DatasetPoints
  <1>2. d.spelled
    BY <1>1 DEF SpelledOnly, Listing
  <1>3. r \in Unpolled(stack)
    BY <1>1, <1>2 DEF Unpolled
  <1>4. QED
    BY <1>1, <1>3, PolledPoints

LEMMA TransferSetsFinite ==
    ASSUME Configured
    PROVE  IsFiniteSet(DOMAIN m_config.transferSets)
  <1>1. CASE m_config.transferSets = Inserted(stack.transferSets)
    BY <1>1, DocumentFacts, InsertedFinite
  <1>2. CASE m_config.transferSets = <<>>
    BY <1>2, FS_EmptySet
  <1>3. QED
    BY <1>1, <1>2 DEF Configured, setJsonConfig

-----------------------------------------------------------------------------
(* Types                                                                    *)

\* What may be read, and what may be reported: points of a data set.
PointsRead ==
    {[ref |-> r, version |-> v, type |-> Polled[r].type] : r \in DOMAIN Polled, v \in 1 .. MaxVersion}
LabelsRead == {Polled[r].label : r \in DOMAIN Polled}
Reported == Refs \cap UNION {m_config.datasets[n].entries : n \in DOMAIN m_config.datasets}
PointsReported == [ref : Reported, version : 1 .. MaxVersion]

Values ==
    /\ value \in [Refs -> 1 .. MaxVersion]
    /\ lastPolled \in [Refs -> 0 .. MaxVersion]
    /\ lastReported \in [Refs -> 0 .. MaxVersion]

PollTypes ==
    /\ poll \in {"idle", "reading", "sending"}
    /\ todo \in SUBSET DOMAIN Polled
    /\ labels \in Seq(LabelsRead)
    /\ datapoints \in Seq(PointsRead)
    /\ sent \in 0 .. Len(datapoints)
    /\ Len(datapoints) <= Len(labels)

ServerTypes ==
    /\ reports \in Seq(PointsReported)
    /\ onChange \in SUBSET Reported
    /\ repeated \in SUBSET Reported

LinkTypes ==
    /\ step \in {"closed", "setup", "service"}
    /\ toCreate \in SUBSET Dynamic
    /\ toEnable \in SUBSET DOMAIN m_config.transferSets
    /\ reserved \in SUBSET DOMAIN m_config.transferSets
    /\ enabled \in SUBSET DOMAIN m_config.transferSets
    /\ refused \in SUBSET DOMAIN m_config.transferSets
    /\ Cardinality(reserved) <= Pool
    /\ known \in SUBSET DOMAIN m_config.datasets
    /\ fresh \in SUBSET Refs

Types == Configured /\ Values /\ PollTypes /\ ServerTypes /\ LinkTypes

\* No step changes the configuration, nor what follows from it.
LEMMA ConfigStays ==
    ASSUME UNCHANGED config
    PROVE  /\ Configured' <=> Configured
           /\ Polled' = Polled /\ Definitions' = Definitions /\ Refs' = Refs
           /\ PointsRead' = PointsRead /\ LabelsRead' = LabelsRead
           /\ Reported' = Reported /\ PointsReported' = PointsReported
           /\ Dynamic' = Dynamic
           /\ \A r : SpelledOnly(r)' <=> SpelledOnly(r)
  BY DEF config, Configured, Polled, Definitions, Refs, PointsRead, LabelsRead, Reported,
         PointsReported, Dynamic, SpelledOnly, Listing

\* Every action leaves the configuration alone.
LEMMA ConfigUnchanged ==
    ASSUME [Next]_vars
    PROVE  UNCHANGED config
  BY DEF Next, ThreadNext, Setup, Connect, CreateDataset, NoTransferSet, DatasetMissing,
         Enable, Enabling, InstallHandlers, Polling, BeginPoll, ReadPoint, FailRead,
         BeginSending, SendData, EndPoll, NoticeLoss, ValueHandler, HandleReport,
         DiscardReport, ServerChange, Change, ServerRepeat, Repeat, Lose, vars,
         acquisitionVars, config

\* What a data point and a report are.
LEMMA ReadFacts ==
    ASSUME Types, NEW i \in 1 .. Len(datapoints)
    PROVE  /\ datapoints[i].ref \in DOMAIN Polled
           /\ datapoints[i].ref \in Refs
           /\ datapoints[i].version \in 1 .. MaxVersion
           /\ datapoints[i].type = Polled[datapoints[i].ref].type
  <1>1. datapoints[i] \in PointsRead
    BY ElementOfSeq DEF Types, PollTypes
  <1>2. PICK r \in DOMAIN Polled, v \in 1 .. MaxVersion :
            datapoints[i] = [ref |-> r, version |-> v, type |-> Polled[r].type]
    BY <1>1 DEF PointsRead
  <1>3. QED
    BY <1>2, PolledPoints DEF Types

LEMMA ReportFacts ==
    ASSUME Types, NEW i \in 1 .. Len(reports)
    PROVE  /\ reports[i] \in PointsReported
           /\ reports[i].ref \in Refs /\ reports[i].ref \in Reported
           /\ reports[i].version \in 1 .. MaxVersion
           /\ SpelledOnly(reports[i].ref) => reports[i].ref \notin DOMAIN Polled
  <1>1. reports[i] \in PointsReported
    BY ElementOfSeq DEF Types, ServerTypes
  <1>2. QED
    BY <1>1, OneWay DEF PointsReported, Reported, Types

-----------------------------------------------------------------------------
(* Which actions change what                                                *)

PollStep ==
    \/ BeginPoll \/ BeginSending \/ SendData \/ EndPoll
    \/ \E r \in todo : ReadPoint(r) \/ FailRead(r)

LEMMA PollFrame ==
    ASSUME [Next]_vars
    PROVE  PollStep \/ UNCHANGED pollVars
  BY DEF Next, ThreadNext, Setup, Connect, CreateDataset, NoTransferSet, DatasetMissing,
         Enable, Enabling, InstallHandlers, Polling, NoticeLoss, ValueHandler, HandleReport,
         DiscardReport, ServerChange, Change, ServerRepeat, Repeat, Lose, vars,
         acquisitionVars, PollStep

LEMMA OutFrame ==
    ASSUME [Next]_vars
    PROVE  SendData \/ HandleReport \/ UNCHANGED out
  BY DEF Next, ThreadNext, Setup, Connect, CreateDataset, NoTransferSet, DatasetMissing,
         Enable, Enabling, InstallHandlers, Polling, BeginPoll, ReadPoint, FailRead,
         BeginSending, EndPoll, NoticeLoss, ValueHandler, DiscardReport, ServerChange,
         Change, ServerRepeat, Repeat, Lose, vars, acquisitionVars

LEMMA ValueFrame ==
    ASSUME [Next]_vars
    PROVE  (\E r \in Refs : Change(r)) \/ UNCHANGED value
  BY DEF Next, ThreadNext, Setup, Connect, CreateDataset, NoTransferSet, DatasetMissing,
         Enable, Enabling, InstallHandlers, Polling, BeginPoll, ReadPoint, FailRead,
         BeginSending, SendData, EndPoll, NoticeLoss, ValueHandler, HandleReport,
         DiscardReport, ServerChange, ServerRepeat, Repeat, Lose, vars, acquisitionVars, server

\* Reports are appended at the end, taken or discarded at the front, and lost at the
\* end.
Shorter ==
    \/ reports # <<>> /\ reports' = Tail(reports)
    \/ \E n \in 0 .. Len(reports) : reports' = SubSeq(reports, 1, n)
    \/ reports' = <<>>

LEMMA ReportsFrame ==
    ASSUME [Next]_vars
    PROVE  \/ \E r \in Refs : Change(r) \/ Repeat(r)
           \/ Shorter
           \/ UNCHANGED reports
  BY DEF Next, ThreadNext, Setup, Connect, CreateDataset, NoTransferSet, DatasetMissing,
         Enable, Enabling, InstallHandlers, Polling, BeginPoll, ReadPoint, FailRead,
         BeginSending, SendData, EndPoll, NoticeLoss, ValueHandler, HandleReport,
         DiscardReport, ServerChange, ServerRepeat, Lose, vars, acquisitionVars, server,
         Shorter

LEMMA GrantedFrame ==
    ASSUME [Next]_vars
    PROVE  \/ \E t \in toEnable : Enable(t)
           \/ onChange' = {} /\ repeated' = {}
           \/ UNCHANGED granted
  BY DEF Next, ThreadNext, Setup, Connect, CreateDataset, NoTransferSet, DatasetMissing,
         InstallHandlers, Polling, BeginPoll, ReadPoint, FailRead,
         BeginSending, SendData, EndPoll, NoticeLoss, ValueHandler, HandleReport,
         DiscardReport, ServerChange, Change, ServerRepeat, Repeat, Lose, vars,
         acquisitionVars, server

LinkStep ==
    \/ Setup \/ NoticeLoss \/ Lose
    \/ \E r \in Refs : ServerChange(r)

LEMMA LinkFrame ==
    ASSUME [Next]_vars
    PROVE  LinkStep \/ UNCHANGED linkVars
  BY DEF Next, ThreadNext, Polling, ValueHandler, DiscardReport, ServerRepeat, vars,
         LinkStep

-----------------------------------------------------------------------------
(* What is ingested                                                         *)

LEMMA FirstReport ==
    ASSUME Types, reports # <<>>
    PROVE  Head(reports) = reports[1] /\ 1 \in 1 .. Len(reports)
  BY EmptySeq, LenProperties, HeadTailProperties DEF Types, ServerTypes

LEMMA Handled ==
    ASSUME Types, HandleReport
    PROVE  LET r == reports[1].ref IN
           \/ UNCHANGED out
           \/ /\ r \in DOMAIN Definitions
              /\ lastReported' = [lastReported EXCEPT ![r] = reports[1].version]
              /\ lastPolled' = lastPolled
              /\ reading' = {[label |-> Definitions[r].label, ref |-> r,
                              object |-> createDataObject(Definitions[r].type)]}
  <1> DEFINE r == reports[1].ref
  <1>1. Head(reports) = reports[1]
    BY FirstReport DEF HandleReport
  <1>2. CASE r \in DOMAIN Definitions
    BY <1>1, <1>2 DEF HandleReport, Ingest, FromReport
  <1>3. CASE r \notin DOMAIN Definitions
    BY <1>1, <1>3 DEF HandleReport
  <1>4. QED
    BY <1>2, <1>3

\* What sendData ingests next.
LEMMA Sent ==
    ASSUME Types, SendData
    PROVE  LET i == sent + 1 IN
           /\ sent' = i /\ i \in 1 .. Len(datapoints)
           /\ lastPolled' = [lastPolled EXCEPT ![datapoints[i].ref] = datapoints[i].version]
           /\ lastReported' = lastReported
           /\ reading' = {[label |-> labels[i], ref |-> datapoints[i].ref,
                           object |-> createDataObject(datapoints[i].type)]}
  BY LenProperties DEF SendData, Ingest, FromPoll, Types, PollTypes

-----------------------------------------------------------------------------
(* Types, step by step                                                      *)

LEMMA ValuesStep ==
    ASSUME Types, [Next]_vars
    PROVE  Values'
  <1> USE DEF Values
  <1>1. Refs' = Refs
    BY ConfigUnchanged, ConfigStays
  <1>2. value' \in [Refs -> 1 .. MaxVersion]
    <2>1. CASE UNCHANGED value
      BY <2>1 DEF Types
    <2>2. CASE \E r \in Refs : Change(r)
      BY <2>2, MaxVersionAssumption DEF Types, Change
    <2>3. QED
      BY <2>1, <2>2, ValueFrame
  <1>3. lastPolled' \in [Refs -> 0 .. MaxVersion] /\ lastReported' \in [Refs -> 0 .. MaxVersion]
    <2>1. CASE UNCHANGED out
      BY <2>1 DEF Types, out
    <2>2. CASE SendData
      BY <2>2, Sent, ReadFacts, MaxVersionAssumption DEF Types
    <2>3. CASE HandleReport
      <3>1. reports[1].ref \in Refs /\ reports[1].version \in 0 .. MaxVersion
        BY <2>3, FirstReport, ReportFacts, MaxVersionAssumption DEF HandleReport
      <3>2. QED
        BY <2>3, <3>1, Handled DEF Types, out
    <2>4. QED
      BY <2>1, <2>2, <2>3, OutFrame
  <1>4. QED
    BY <1>1, <1>2, <1>3

LEMMA PollTypesStep ==
    ASSUME Types, [Next]_vars
    PROVE  PollTypes'
  <1> USE DEF PollTypes
  <1>1. Polled' = Polled /\ PointsRead' = PointsRead /\ LabelsRead' = LabelsRead
    BY ConfigUnchanged, ConfigStays
  <1>2. Len(labels) \in Nat /\ Len(datapoints) \in Nat
    BY LenProperties DEF Types
  <1>3. CASE UNCHANGED pollVars
    BY <1>1, <1>3 DEF Types, pollVars
  <1>4. CASE BeginPoll
    BY <1>1, <1>4, EmptySeq DEF Types, BeginPoll
  <1>5. CASE BeginSending \/ EndPoll
    BY <1>1, <1>5 DEF Types, BeginSending, EndPoll
  <1>6. CASE SendData
    BY <1>1, <1>2, <1>6, Sent DEF Types, SendData
  <1>7. ASSUME NEW r \in todo, ReadPoint(r) \/ FailRead(r)
        PROVE  PollTypes'
    <2>1. r \in DOMAIN Polled /\ r \in Refs
      BY <1>7, PolledPoints DEF Types
    <2>2. /\ labels' \in Seq(LabelsRead)
          /\ Len(labels') = Len(labels) + 1
      <3> DEFINE label == Polled[r].label
      <3>1. label \in LabelsRead
        BY <2>1 DEF LabelsRead
      <3>2. labels' = Append(labels, label)
        BY <1>7 DEF ReadPoint, FailRead
      <3> HIDE DEF label
      <3>3. QED
        BY <3>1, <3>2, AppendProperties DEF Types
    <2>3. CASE ReadPoint(r)
      <3> DEFINE point == [ref |-> r, version |-> value[r], type |-> Polled[r].type]
      <3>1. point \in PointsRead
        BY <2>1 DEF Types, Values, PointsRead
      <3>2. datapoints' = Append(datapoints, point)
        BY <2>3 DEF ReadPoint
      <3> HIDE DEF point
      <3>3. datapoints' \in Seq(PointsRead) /\ Len(datapoints') = Len(datapoints) + 1
        BY <3>1, <3>2, AppendProperties DEF Types
      <3>4. QED
        BY <1>1, <1>2, <2>2, <2>3, <3>3 DEF Types, ReadPoint
    <2>4. CASE FailRead(r)
      BY <1>1, <1>2, <2>2, <2>4 DEF Types, FailRead
    <2>5. QED
      BY <1>7, <2>3, <2>4
  <1>8. QED
    BY <1>3, <1>4, <1>5, <1>6, <1>7, PollFrame DEF PollStep

\* What is left of the reports is a sequence of reports.
LEMMA ShorterReports ==
    ASSUME Types, Shorter
    PROVE  /\ reports' \in Seq(PointsReported)
           /\ \E d \in {0, 1} : \A i \in 1 .. Len(reports') :
                  i + d \in 1 .. Len(reports) /\ reports'[i] = reports[i + d]
  <1>1. reports \in Seq(PointsReported) /\ Len(reports) \in Nat
    BY LenProperties DEF Types, ServerTypes
  <1>2. CASE reports # <<>> /\ reports' = Tail(reports)
    BY <1>1, <1>2, HeadTailProperties
  <1>3. CASE \E n \in 0 .. Len(reports) : reports' = SubSeq(reports, 1, n)
    <2>1. PICK n \in 0 .. Len(reports) : reports' = SubSeq(reports, 1, n)
      BY <1>3
    <2>2. \A i \in 1 .. n : reports[i] \in PointsReported
      BY <1>1, ElementOfSeq
    <2>3. reports' \in Seq(PointsReported) /\ Len(reports') = n
          /\ \A i \in 1 .. n : reports'[i] = reports[i]
      BY <1>1, <2>1, <2>2, SubSeqProperties
    <2>4. QED
      BY <1>1, <2>1, <2>3
  <1>4. CASE reports' = <<>>
    BY <1>4, EmptySeq
  <1>5. QED
    BY <1>2, <1>3, <1>4 DEF Shorter

LEMMA ServerTypesStep ==
    ASSUME Types, [Next]_vars
    PROVE  ServerTypes'
  <1>1. Reported' = Reported /\ PointsReported' = PointsReported
    BY ConfigUnchanged, ConfigStays
  <1>2. reports' \in Seq(PointsReported)
    <2>1. CASE UNCHANGED reports
      BY <2>1 DEF Types, ServerTypes
    <2>2. CASE Shorter
      BY <2>2, ShorterReports
    <2>3. ASSUME NEW r \in Refs, Change(r)
          PROVE  reports' \in Seq(PointsReported)
      <3>1. value'[r] \in 1 .. MaxVersion
        BY <2>3, MaxVersionAssumption DEF Change, Types, Values
      <3>2. CASE r \in onChange
        <4> DEFINE point == [ref |-> r, version |-> value'[r]]
        <4>1. point \in PointsReported
          BY <3>1, <3>2 DEF PointsReported, Types, ServerTypes
        <4>2. reports' = Append(reports, point)
          BY <2>3, <3>2 DEF Change
        <4> HIDE DEF point
        <4>3. QED
          BY <4>1, <4>2, AppendProperties DEF Types, ServerTypes
      <3>3. QED
        BY <2>3, <3>2 DEF Change, Types, ServerTypes
    <2>4. ASSUME NEW r \in Refs, Repeat(r)
          PROVE  reports' \in Seq(PointsReported)
      <3>1. [ref |-> r, version |-> value[r]] \in PointsReported
        BY <2>4 DEF Repeat, PointsReported, Types, ServerTypes, Values
      <3>2. QED
        BY <2>4, <3>1 DEF Repeat
    <2>5. QED
      BY <2>1, <2>2, <2>3, <2>4, ReportsFrame
  <1>3. onChange' \in SUBSET Reported /\ repeated' \in SUBSET Reported
    <2>1. CASE UNCHANGED granted
      BY <2>1 DEF granted, Types, ServerTypes
    <2>2. CASE onChange' = {} /\ repeated' = {}
      BY <2>2
    <2>3. ASSUME NEW t \in toEnable, Enable(t)
          PROVE  onChange' \in SUBSET Reported /\ repeated' \in SUBSET Reported
      <3>1. m_config.datasets[DatasetOf(t)].entries \cap Refs \subseteq Reported
        BY <2>3 DEF Enable, Types, LinkTypes, Reported
      <3>2. QED
        BY <2>3, <3>1 DEF Enable, granted, Types, ServerTypes
    <2>4. QED
      BY <2>1, <2>2, <2>3, GrantedFrame
  <1>4. QED
    BY <1>1, <1>2, <1>3 DEF ServerTypes

LEMMA LinkTypesStep ==
    ASSUME Types, [Next]_vars
    PROVE  LinkTypes'
  <1> USE PoolAssumption DEF LinkTypes
  <1>1. m_config' = m_config /\ Dynamic' = Dynamic /\ Refs' = Refs
    BY ConfigUnchanged, ConfigStays DEF config
  <1>2. CASE UNCHANGED linkVars
    BY <1>1, <1>2 DEF linkVars, serverSets, Types
  <1>3. CASE Connect
    BY <1>1, <1>3, FS_EmptySet DEF Connect, Types
  <1>4. ASSUME NEW n \in toCreate, CreateDataset(n)
        PROVE  LinkTypes'
    BY <1>1, <1>4 DEF CreateDataset, serverSets, Types, Dynamic
  <1>5. ASSUME NEW t \in toEnable, NoTransferSet(t) \/ DatasetMissing(t) \/ Enable(t)
        PROVE  LinkTypes'
    <2>1. CASE NoTransferSet(t)
      BY <1>1, <2>1 DEF NoTransferSet, Enabling, Types
    <2>2. CASE DatasetMissing(t) \/ Enable(t)
      <3>1. IsFiniteSet(reserved) /\ Cardinality(reserved) < Pool
            /\ reserved' = reserved \cup {t}
        BY <2>2, TransferSetsFinite, FS_Subset, FS_CardinalityType
        DEF DatasetMissing, Enable, Exhausted, Types
      <3>2. Cardinality(reserved') <= Pool
        BY <3>1, FS_AddElement, FS_CardinalityType
      <3>3. QED
        BY <1>1, <2>2, <3>1, <3>2 DEF DatasetMissing, Enable, Enabling, Types
    <2>3. QED
      BY <1>5, <2>1, <2>2
  <1>6. CASE InstallHandlers
    BY <1>1, <1>6 DEF InstallHandlers, serverSets, Types
  <1>7. CASE NoticeLoss
    BY <1>1, <1>7 DEF NoticeLoss, serverSets, Types
  <1>8. CASE Lose
    BY <1>1, <1>8 DEF Lose, serverSets, Types
  <1>9. ASSUME NEW r \in Refs, ServerChange(r)
        PROVE  LinkTypes'
    BY <1>1, <1>9 DEF ServerChange, serverSets, Types
  <1>10. QED
    BY <1>2, <1>3, <1>4, <1>5, <1>6, <1>7, <1>8, <1>9, LinkFrame DEF LinkStep, Setup

LEMMA TypesStep ==
    ASSUME Types, [Next]_vars
    PROVE  Types'
  BY ConfigUnchanged, ConfigStays, ValuesStep, PollTypesStep, ServerTypesStep, LinkTypesStep
  DEF Types

-----------------------------------------------------------------------------
(* The order of versions                                                    *)

\* What was read in a poll is of different points, none of them still to read, and
\* what is still to be sent is not older than what polls have ingested.
PollOrder ==
    /\ \A i, j \in 1 .. Len(datapoints) : datapoints[i].ref = datapoints[j].ref => i = j
    /\ \A i \in 1 .. Len(datapoints) :
          /\ datapoints[i].ref \notin todo
          /\ datapoints[i].version <= value[datapoints[i].ref]
          /\ i > sent => lastPolled[datapoints[i].ref] <= datapoints[i].version

\* Reports of a point come in the order of its versions, and are not older than what
\* reports have ingested.
ReportOrder ==
    /\ \A i \in 1 .. Len(reports) :
          /\ reports[i].version <= value[reports[i].ref]
          /\ lastReported[reports[i].ref] <= reports[i].version
    /\ \A i, j \in 1 .. Len(reports) :
          i <= j /\ reports[i].ref = reports[j].ref => reports[i].version <= reports[j].version

ValueOrder == \A r \in Refs : lastPolled[r] <= value[r] /\ lastReported[r] <= value[r]

Order == ValueOrder /\ PollOrder /\ ReportOrder

LEMMA ValueGrows ==
    ASSUME Types, [Next]_vars
    PROVE  \A r \in Refs : /\ value[r] \in Int /\ value'[r] \in Int /\ value[r] <= value'[r]
                            /\ lastPolled[r] \in Int /\ lastReported[r] \in Int
  <1>1. CASE UNCHANGED value
    BY <1>1, MaxVersionAssumption DEF Types, Values
  <1>2. CASE \E r \in Refs : Change(r)
    BY <1>2, MaxVersionAssumption DEF Types, Values, Change
  <1>3. QED
    BY <1>1, <1>2, ValueFrame

LEMMA ValueOrderStep ==
    ASSUME Types, Order, [Next]_vars
    PROVE  ValueOrder'
  <1>1. Refs' = Refs
    BY ConfigUnchanged, ConfigStays
  <1>2. CASE UNCHANGED out
    BY <1>1, <1>2, ValueGrows DEF out, Order, ValueOrder
  <1>3. CASE SendData
    <2> DEFINE i == sent + 1
    <2>1. value' = value
      BY <1>3 DEF SendData, server
    <2>2. i \in 1 .. Len(datapoints) /\ lastReported' = lastReported
          /\ lastPolled' = [lastPolled EXCEPT ![datapoints[i].ref] = datapoints[i].version]
      BY <1>3, Sent
    <2>3. datapoints[i].version <= value[datapoints[i].ref]
      BY <2>2 DEF Order, PollOrder
    <2> HIDE DEF i
    <2>4. QED
      BY <1>1, <2>1, <2>2, <2>3 DEF Order, ValueOrder, Types, Values
  <1>4. CASE HandleReport
    <2>1. value' = value /\ 1 \in 1 .. Len(reports)
      BY <1>4, FirstReport DEF HandleReport
    <2>2. CASE /\ lastPolled' = lastPolled
               /\ lastReported' = [lastReported EXCEPT ![reports[1].ref] = reports[1].version]
      BY <1>1, <2>1, <2>2 DEF Order, ValueOrder, ReportOrder, Types, Values
    <2>3. CASE UNCHANGED out
      BY <1>1, <2>1, <2>3 DEF out, Order, ValueOrder
    <2>4. QED
      BY <1>4, <2>2, <2>3, Handled
  <1>5. QED
    BY <1>2, <1>3, <1>4, OutFrame

\* A step outside of polling leaves the poll alone.
LEMMA PollOrderKept ==
    ASSUME Types, Order, [Next]_vars, UNCHANGED pollVars
    PROVE  PollOrder'
  <1>1. lastPolled' = lastPolled
    <2>1. CASE UNCHANGED out
      BY <2>1 DEF out
    <2>2. CASE HandleReport
      BY <2>1, <2>2, Handled
    <2>3. CASE SendData
      BY <2>3, LenProperties DEF SendData, pollVars, Types, PollTypes
    <2>4. QED
      BY <2>1, <2>2, <2>3, OutFrame
  <1>2. datapoints' = datapoints /\ todo' = todo /\ sent' = sent
    BY DEF pollVars
  <1>3. \A i \in 1 .. Len(datapoints) :
            datapoints[i].ref \in Refs /\ datapoints[i].version \in Int
    BY ReadFacts
  <1>4. \A i \in 1 .. Len(datapoints) : datapoints[i].version <= value'[datapoints[i].ref]
    BY <1>3, ValueGrows DEF Order, PollOrder
  <1>5. QED
    BY <1>1, <1>2, <1>4 DEF Order, PollOrder

LEMMA PollOrderStep ==
    ASSUME Types, Order, [Next]_vars
    PROVE  PollOrder'
  <1>1. Len(datapoints) \in Nat /\ sent \in 0 .. Len(datapoints)
    BY LenProperties DEF Types, PollTypes
  <1>2. CASE UNCHANGED pollVars
    BY <1>2, PollOrderKept
  <1>3. CASE BeginPoll
    BY <1>3 DEF BeginPoll, PollOrder
  <1>4. CASE BeginSending \/ EndPoll
    BY <1>4 DEF BeginSending, EndPoll, out, server, Order, PollOrder
  <1>5. CASE SendData
    <2> DEFINE n == sent + 1
    <2>1. sent' = n /\ n \in 1 .. Len(datapoints)
          /\ lastPolled' = [lastPolled EXCEPT ![datapoints[n].ref] = datapoints[n].version]
      BY <1>5, Sent
    <2>2. datapoints' = datapoints /\ todo' = todo /\ value' = value
      BY <1>5 DEF SendData, server
    <2>3. \A i \in 1 .. Len(datapoints) :
              i > n => lastPolled'[datapoints[i].ref] = lastPolled[datapoints[i].ref]
      BY <1>1, <2>1, ReadFacts DEF Order, PollOrder, Types, Values
    <2>4. QED
      BY <1>1, <2>1, <2>2, <2>3 DEF Order, PollOrder
  <1>6. ASSUME NEW r \in todo, ReadPoint(r)
        PROVE  PollOrder'
    <2> DEFINE point == [ref |-> r, version |-> value[r], type |-> Polled[r].type]
               n == Len(datapoints) + 1
    <2>1. r \in DOMAIN Polled /\ r \in Refs
      BY <1>6, PolledPoints DEF Types, PollTypes
    <2>2. point \in PointsRead
      BY <2>1 DEF Types, Values, PointsRead
    <2>3. datapoints' = Append(datapoints, point)
      BY <1>6 DEF ReadPoint
    <2>4. point.ref = r /\ point.version = value[r]
      OBVIOUS
    <2> HIDE DEF point
    <2>5. /\ Len(datapoints') = n /\ datapoints'[n] = point
          /\ \A i \in 1 .. Len(datapoints) : datapoints'[i] = datapoints[i]
      BY <1>1, <2>2, <2>3, AppendProperties DEF Types, PollTypes
    <2>6. value' = value /\ lastPolled' = lastPolled /\ sent' = sent /\ todo' = todo \ {r}
      BY <1>6 DEF ReadPoint, server, out
    <2>7. lastPolled[r] <= value[r] /\ value[r] <= value[r]
      BY <2>1, ValueGrows DEF Order, ValueOrder
    <2>8. \A i \in 1 .. n : i \in 1 .. Len(datapoints) \/ i = n
      BY <1>1
    <2>9. \A i \in 1 .. Len(datapoints) : datapoints[i].ref # r
      BY <1>6 DEF Order, PollOrder
    <2>10. QED
      BY <1>1, <2>4, <2>5, <2>6, <2>7, <2>8, <2>9 DEF Order, PollOrder
  <1>7. ASSUME NEW r \in todo, FailRead(r)
        PROVE  PollOrder'
    BY <1>7 DEF FailRead, out, server, Order, PollOrder
  <1>8. QED
    BY <1>2, <1>3, <1>4, <1>5, <1>6, <1>7, PollFrame DEF PollStep

\* What is left of the reports is in order.
LEMMA ShorterOrder ==
    ASSUME Types, Order, [Next]_vars, Shorter \/ UNCHANGED reports
    PROVE  ReportOrder'
  <1> DEFINE Kept(d) == \A i \in 1 .. Len(reports') :
                            i + d \in 1 .. Len(reports) /\ reports'[i] = reports[i + d]
  <1>1. PICK d \in {0, 1} : Kept(d)
    <2>1. CASE Shorter
      BY <2>1, ShorterReports
    <2>2. CASE UNCHANGED reports
      <3>1. Len(reports) \in Nat
        BY LenProperties DEF Types, ServerTypes
      <3>2. QED
        BY <2>2, <3>1
    <2>3. QED
      BY <2>1, <2>2
  <1>2. Len(reports') \in Nat
    BY ServerTypesStep, LenProperties DEF ServerTypes
  <1>3. \A i \in 1 .. Len(reports) :
            /\ reports[i].ref \in Refs /\ reports[i].version \in Int
            /\ reports[i].version <= value'[reports[i].ref]
    BY ReportFacts, ValueGrows DEF Order, ReportOrder
  <1>4. ASSUME NEW i \in 1 .. Len(reports')
        PROVE  lastReported'[reports'[i].ref] <= reports'[i].version
    <2> DEFINE r == reports'[i].ref
    <2>1. i + d \in 1 .. Len(reports) /\ reports'[i] = reports[i + d]
      BY <1>1
    <2>2. lastReported[r] <= reports'[i].version /\ r \in Refs
      BY <1>3, <2>1 DEF Order, ReportOrder
    <2>3. CASE lastReported'[r] = lastReported[r]
      BY <2>2, <2>3
    <2>4. CASE /\ HandleReport
               /\ lastReported' = [lastReported EXCEPT ![reports[1].ref] = reports[1].version]
      <3>1. 1 \in 1 .. Len(reports)
        BY <2>4, FirstReport DEF HandleReport
      <3>2. CASE r = reports[1].ref
        BY <1>2, <2>1, <2>2, <2>4, <3>1, <3>2 DEF Order, ReportOrder, Types, Values
      <3>3. CASE r # reports[1].ref
        BY <2>2, <2>4, <3>3 DEF Types, Values
      <3>4. QED
        BY <3>2, <3>3
    <2>5. CASE SendData
      BY <2>3, <2>5, Sent
    <2>6. QED
      BY <2>3, <2>4, <2>5, OutFrame, Handled DEF out
  <1>5. \A i \in 1 .. Len(reports') : reports'[i].version <= value'[reports'[i].ref]
    BY <1>1, <1>3
  <1>6. ASSUME NEW i \in 1 .. Len(reports'), NEW j \in 1 .. Len(reports'),
               i <= j, reports'[i].ref = reports'[j].ref
        PROVE  reports'[i].version <= reports'[j].version
    <2>1. /\ i + d \in 1 .. Len(reports) /\ reports'[i] = reports[i + d]
          /\ j + d \in 1 .. Len(reports) /\ reports'[j] = reports[j + d]
      BY <1>1
    <2>2. i + d <= j + d
      BY <1>2, <1>6
    <2>3. QED
      BY <1>6, <2>1, <2>2 DEF Order, ReportOrder
  <1>7. QED
    BY <1>4, <1>5, <1>6 DEF ReportOrder

\* A report that is appended is of the latest version.
LEMMA AppendedOrder ==
    ASSUME Types, Order, [Next]_vars, UNCHANGED out,
           NEW r \in Reported,
           reports' = Append(reports, [ref |-> r, version |-> value'[r]])
    PROVE  ReportOrder'
  <1> DEFINE point == [ref |-> r, version |-> value'[r]]
             n == Len(reports) + 1
  <1>1. r \in Refs /\ value'[r] \in 1 .. MaxVersion
    BY ValuesStep, ConfigUnchanged, ConfigStays DEF Reported, Values
  <1>2. point \in PointsReported /\ point.ref = r /\ point.version = value'[r]
    BY <1>1 DEF PointsReported
  <1>3. reports' = Append(reports, point)
    OBVIOUS
  <1> HIDE DEF point
  <1>4. /\ Len(reports) \in Nat /\ Len(reports') = n /\ reports'[n] = point
        /\ \A i \in 1 .. Len(reports) : reports'[i] = reports[i]
    BY <1>2, <1>3, AppendProperties, LenProperties DEF Types, ServerTypes
  <1>5. \A i \in 1 .. n : i \in 1 .. Len(reports) \/ i = n
    BY <1>4
  <1>6. lastReported' = lastReported
    BY DEF out
  <1>7. \A i \in 1 .. Len(reports) :
            reports[i].version \in Int /\ reports[i].version <= value'[reports[i].ref]
    BY ReportFacts, ValueGrows DEF Order, ReportOrder
  <1>8. lastReported[r] <= value'[r] /\ value'[r] <= value'[r]
    BY <1>1, ValueGrows DEF Order, ValueOrder
  <1>9. \A i \in 1 .. n :
            /\ reports'[i].version <= value'[reports'[i].ref]
            /\ lastReported[reports'[i].ref] <= reports'[i].version
    BY <1>2, <1>4, <1>5, <1>7, <1>8 DEF Order, ReportOrder
  <1>10. \A i, j \in 1 .. n : i <= j /\ reports'[i].ref = reports'[j].ref
            => reports'[i].version <= reports'[j].version
    BY <1>2, <1>4, <1>5, <1>7, <1>8 DEF Order, ReportOrder
  <1>11. QED
    BY <1>4, <1>6, <1>9, <1>10 DEF ReportOrder

LEMMA ReportOrderStep ==
    ASSUME Types, Order, [Next]_vars
    PROVE  ReportOrder'
  <1>1. CASE Shorter \/ UNCHANGED reports
    BY <1>1, ShorterOrder
  <1>2. ASSUME NEW r \in Refs, Change(r), ~UNCHANGED reports
        PROVE  ReportOrder'
    <2>1. r \in Reported
      BY <1>2 DEF Change, Types, ServerTypes
    <2>2. UNCHANGED out /\ reports' = Append(reports, [ref |-> r, version |-> value'[r]])
      BY <1>2 DEF Change
    <2>3. QED
      BY <2>1, <2>2, AppendedOrder
  <1>3. ASSUME NEW r \in Refs, Repeat(r)
        PROVE  ReportOrder'
    <2> DEFINE point == [ref |-> r, version |-> value'[r]]
    <2>1. r \in Reported /\ value' = value
      BY <1>3 DEF Repeat, Types, ServerTypes
    <2>2. UNCHANGED out /\ reports = <<>> /\ reports' = <<point>>
      BY <1>3 DEF Repeat
    <2>3. Append(<<>>, point) = <<point>>
      OBVIOUS
    <2>4. QED
      BY <2>1, <2>2, <2>3, AppendedOrder
  <1>4. QED
    BY <1>1, <1>2, <1>3, ReportsFrame

-----------------------------------------------------------------------------
(* The ways of a point                                                      *)

\* What was polled is polled, and what the data sets spell and polls read is not reported.
Ways ==
    \A r \in Refs :
        /\ r \notin DOMAIN Polled => lastPolled[r] = 0
        /\ SpelledOnly(r) /\ r \in DOMAIN Polled => lastReported[r] = 0

LEMMA WaysStep ==
    ASSUME Types, Ways, [Next]_vars
    PROVE  Ways'
  <1>1. Refs' = Refs /\ Polled' = Polled /\ \A r : SpelledOnly(r)' <=> SpelledOnly(r)
    BY ConfigUnchanged, ConfigStays
  <1>2. CASE UNCHANGED out
    BY <1>1, <1>2 DEF out, Ways
  <1>3. CASE SendData
    <2>1. /\ lastPolled' = [lastPolled EXCEPT ![datapoints[sent + 1].ref]
                                                 = datapoints[sent + 1].version]
          /\ lastReported' = lastReported
          /\ datapoints[sent + 1].ref \in DOMAIN Polled
      BY <1>3, Sent, ReadFacts
    <2>2. QED
      BY <1>1, <2>1 DEF Ways, Types, Values
  <1>4. CASE /\ HandleReport
             /\ lastPolled' = lastPolled
             /\ lastReported' = [lastReported EXCEPT ![reports[1].ref] = reports[1].version]
    <2>1. SpelledOnly(reports[1].ref) => reports[1].ref \notin DOMAIN Polled
      BY <1>4, FirstReport, ReportFacts DEF HandleReport
    <2>2. QED
      BY <1>1, <1>4, <2>1 DEF Ways, Types, Values
  <1>5. QED
    BY <1>2, <1>3, <1>4, OutFrame, Handled

-----------------------------------------------------------------------------
(* Labels and data objects                                                  *)

\* As long as no read of the poll failed, labels and data points are in step.
Labelling ==
    Len(datapoints) = Len(labels) =>
        \A i \in 1 .. Len(datapoints) : labels[i] = Polled[datapoints[i].ref].label

LEMMA LabellingStep ==
    ASSUME Types, Labelling, [Next]_vars
    PROVE  Labelling'
  <1>1. Polled' = Polled
    BY ConfigUnchanged, ConfigStays
  <1>2. /\ Len(datapoints) \in Nat /\ Len(labels) \in Nat
        /\ Len(datapoints) <= Len(labels)
    BY LenProperties DEF Types, PollTypes
  <1>3. CASE UNCHANGED pollVars
    BY <1>1, <1>3 DEF pollVars, Labelling
  <1>4. CASE BeginPoll
    BY <1>4 DEF BeginPoll, Labelling
  <1>5. CASE BeginSending \/ EndPoll \/ SendData
    BY <1>1, <1>5 DEF BeginSending, EndPoll, SendData, Labelling
  <1>6. ASSUME NEW r \in todo, ReadPoint(r) \/ FailRead(r)
        PROVE  Labelling'
    <2> DEFINE label == Polled[r].label
               point == [ref |-> r, version |-> value[r], type |-> Polled[r].type]
    <2>1. r \in DOMAIN Polled /\ r \in Refs
      BY <1>6, PolledPoints DEF Types, PollTypes
    <2>2. label \in LabelsRead /\ point \in PointsRead /\ point.ref = r
      BY <2>1 DEF LabelsRead, PointsRead, Types, Values
    <2>3. labels' = Append(labels, label)
          /\ (datapoints' = datapoints \/ datapoints' = Append(datapoints, point))
      BY <1>6 DEF ReadPoint, FailRead
    <2>4. label = Polled[r].label
      OBVIOUS
    <2> HIDE DEF label, point
    <2>5. /\ Len(labels') = Len(labels) + 1 /\ labels'[Len(labels) + 1] = label
          /\ \A i \in 1 .. Len(labels) : labels'[i] = labels[i]
      BY <1>2, <2>2, <2>3, AppendProperties DEF Types, PollTypes
    <2>6. CASE datapoints' = datapoints
      BY <1>2, <2>5, <2>6 DEF Labelling
    <2>7. CASE datapoints' = Append(datapoints, point)
      <3>1. /\ Len(datapoints') = Len(datapoints) + 1
            /\ datapoints'[Len(datapoints) + 1] = point
            /\ \A i \in 1 .. Len(datapoints) : datapoints'[i] = datapoints[i]
        BY <1>2, <2>2, <2>7, AppendProperties DEF Types, PollTypes
      <3>2. \A i \in 1 .. Len(datapoints) + 1 :
                i \in 1 .. Len(datapoints) \/ i = Len(datapoints) + 1
        BY <1>2
      <3>3. QED
        BY <1>1, <1>2, <2>2, <2>4, <2>5, <3>1, <3>2 DEF Labelling
    <2>8. QED
      BY <2>3, <2>6, <2>7
  <1>7. QED
    BY <1>3, <1>4, <1>5, <1>6, PollFrame DEF PollStep

\* The name of a type is made of its form and its suffix.
LEMMA TypeNames ==
    ASSUME NEW type \in Indications \cup Commands
    PROVE  LET name == dpTypeToStr(type) IN
           /\ hasQuality(type) <=> name[2] \in {"Q", "QTime", "QTimeExt"}
           /\ hasTimestamp(type) <=> name[2] \in {"QTime", "QTimeExt"}
           /\ Getter(type) =
                  CASE name[1] \in {"Real", "SetPointReal"} -> "Real"
                    [] name[1] \in {"Discrete", "Command", "SetPointDiscrete"} -> "Discrete"
                    [] name[1] = "State"    -> "State"
                    [] name[1] = "StateSup" -> "StateSupplemental"
  <1> USE DEF Indications, Commands, COMMAND, SETPOINTREAL, SETPOINTDISCRETE
  <1> DEFINE form == dpTypeToStr(type)[1]
             suffix == dpTypeToStr(type)[2]
  <1>1. /\ type = 16 => form = "Command" /\ Getter(type) = "Discrete"
        /\ type = 17 => form = "SetPointReal" /\ Getter(type) = "Real"
        /\ type = 18 => form = "SetPointDiscrete" /\ Getter(type) = "Discrete"
        /\ type \in 0 .. 3 => form = "Real" /\ Getter(type) = "Real"
        /\ type \in 4 .. 7 => form = "State" /\ Getter(type) = "State"
        /\ type \in 8 .. 11 => form = "Discrete" /\ Getter(type) = "Discrete"
        /\ type \in 12 .. 15 => form = "StateSup" /\ Getter(type) = "StateSupplemental"
    BY DEF dpTypeToStr, Getter
  <1>2. type \in 16 .. 18 => suffix = "plain"
    BY DEF dpTypeToStr
  <1>3. ASSUME type \in 0 .. 15
        PROVE  \E rest \in 0 .. 3 :
                  type % 4 = rest /\ suffix = <<"plain", "Q", "QTime", "QTimeExt">>[rest + 1]
    <2> DEFINE rest == type % 4
    <2>1. rest \in 0 .. 3
      BY <1>3
    <2>2. suffix = <<"plain", "Q", "QTime", "QTimeExt">>[rest + 1]
      BY <1>3 DEF dpTypeToStr
    <2>3. QED
      BY <2>1, <2>2
  <1> HIDE DEF form, suffix
  <1>4. /\ hasQuality(type) <=> suffix \in {"Q", "QTime", "QTimeExt"}
        /\ hasTimestamp(type) <=> suffix \in {"QTime", "QTimeExt"}
    <2> USE DEF hasQuality, hasTimestamp
    <2>1. CASE type \in 16 .. 18
      BY <1>2, <2>1
    <2>2. CASE type \in 0 .. 15
      <3>1. PICK rest \in 0 .. 3 :
                type % 4 = rest /\ suffix = <<"plain", "Q", "QTime", "QTimeExt">>[rest + 1]
        BY <1>3, <2>2
      <3>2. /\ rest = 0 => suffix = "plain"
            /\ rest = 1 => suffix = "Q"
            /\ rest = 2 => suffix = "QTime"
            /\ rest = 3 => suffix = "QTimeExt"
        BY <3>1
      <3>3. QED
        BY <2>2, <3>1, <3>2
    <2>3. QED
      BY <2>1, <2>2
  <1>5. Getter(type) =
            CASE form \in {"Real", "SetPointReal"} -> "Real"
              [] form \in {"Discrete", "Command", "SetPointDiscrete"} -> "Discrete"
              [] form = "State"    -> "State"
              [] form = "StateSup" -> "StateSupplemental"
    BY <1>1
  <1>6. QED
    BY <1>4, <1>5 DEF form, suffix

\* Every type gives an object as its name announces.
LEMMA TypesAsNamed ==
    ASSUME NEW type \in Indications \cup Commands
    PROVE  AsNamed(createDataObject(type))
  BY TypeNames DEF AsNamed, createDataObject

\* A reading of a polled point, and of a reported one.
LEMMA SentObject ==
    ASSUME Types, SendData, [Next]_vars
    PROVE  /\ ObjectsAsDefined'
           /\ Labelling /\ Len(datapoints) = Len(labels) => Labelled(reading')
  <1> DEFINE n == sent + 1
             r == datapoints[n].ref
             type == datapoints[n].type
  <1>1. n \in 1 .. Len(datapoints)
        /\ reading' = {[label |-> labels[n], ref |-> r, object |-> createDataObject(type)]}
    BY Sent
  <1>2. r \in DOMAIN Polled /\ type = Polled[r].type
    BY <1>1, ReadFacts
  <1>3. PICK i \in Defining(doc, Indications) : Polled[r] = doc[i] /\ doc[i].ref = r
    BY <1>2, PolledPoints DEF Types
  <1>4. i \in Defining(doc, Indications \cup Commands)
        /\ type \in Indications \cup Commands /\ doc[i].type = type
    BY <1>2, <1>3 DEF Defining
  <1>5. AsNamed(createDataObject(type)) /\ createDataObject(type).do_type = dpTypeToStr(type)
    BY <1>4, TypesAsNamed DEF createDataObject
  <1>6. doc' = doc
    BY ConfigUnchanged DEF config
  <1> HIDE DEF n, r, type
  <1>7. ObjectsAsDefined'
    BY <1>1, <1>3, <1>4, <1>5, <1>6 DEF ObjectsAsDefined, Defining, ReadEntries
  <1>8. ASSUME Labelling, Len(datapoints) = Len(labels)
        PROVE  Labelled(reading')
    <2>1. labels[n] = doc[i].label
      BY <1>1, <1>3, <1>8 DEF Labelling, r
    <2>2. QED
      BY <1>1, <1>3, <1>4, <1>5, <2>1 DEF Labelled
  <1>9. QED
    BY <1>7, <1>8

LEMMA HandledObject ==
    ASSUME Types, HandleReport, [Next]_vars, ~UNCHANGED out
    PROVE  ObjectsAsDefined' /\ Labelled(reading')
  <1> DEFINE r == reports[1].ref
             type == Definitions[r].type
  <1>1. r \in DOMAIN Definitions
        /\ reading' = {[label |-> Definitions[r].label, ref |-> r,
                        object |-> createDataObject(type)]}
    BY Handled
  <1>2. PICK i \in Defining(doc, Indications \cup Commands) :
            Definitions[r] = doc[i] /\ doc[i].ref = r
    BY <1>1, DefinedPoints DEF Types
  <1>3. type \in Indications \cup Commands /\ doc[i].type = type
        /\ Definitions[r].label = doc[i].label
    BY <1>2 DEF Defining
  <1>4. AsNamed(createDataObject(type)) /\ createDataObject(type).do_type = dpTypeToStr(type)
    BY <1>3, TypesAsNamed DEF createDataObject
  <1>5. doc' = doc
    BY ConfigUnchanged DEF config
  <1> HIDE DEF r, type
  <1>6. QED
    BY <1>1, <1>2, <1>3, <1>4, <1>5
    DEF ObjectsAsDefined, Labelled, Defining, ReadEntries

LEMMA ObjectsStep ==
    ASSUME Types, ObjectsAsDefined, [Next]_vars
    PROVE  ObjectsAsDefined'
  <1>1. CASE UNCHANGED out
    <2>1. doc' = doc
      BY ConfigUnchanged DEF config
    <2>2. QED
      BY <1>1, <2>1 DEF out, ObjectsAsDefined, Defining, ReadEntries
  <1>2. QED
    BY <1>1, SentObject, HandledObject, OutFrame

-----------------------------------------------------------------------------
(* The set-up of an association                                             *)

\* Why a transfer set is not enabled once its turn has come.
Excused(t) ==
    \/ t \in enabled
    \/ t \in refused
    \/ DatasetOf(t) \notin known
    \/ t \notin reserved /\ Exhausted

\* Nothing is enabled before the data sets are created.
EnableOrder ==
    /\ step = "setup" /\ toCreate # {} => toEnable = DOMAIN m_config.transferSets
    /\ step = "service" => toEnable = {} /\ toCreate = {}
    /\ step = "setup" => reserved \cap toEnable = {}
    /\ link => /\ step # "closed"
               /\ \A t \in DOMAIN m_config.transferSets \ toEnable : Excused(t)

LEMMA EnableOrderStep ==
    ASSUME Types, EnableOrder, [Next]_vars
    PROVE  EnableOrder'
  <1> USE DEF EnableOrder, Excused, DatasetOf, Exhausted, serverSets
  <1>1. m_config' = m_config
    BY ConfigUnchanged DEF config
  <1>2. CASE UNCHANGED linkVars
    BY <1>1, <1>2 DEF linkVars
  <1>3. CASE Connect
    BY <1>1, <1>3 DEF Connect
  <1>4. ASSUME NEW n \in toCreate, CreateDataset(n)
        PROVE  EnableOrder'
    BY <1>1, <1>4 DEF CreateDataset
  <1>5. ASSUME NEW t \in toEnable, NoTransferSet(t) \/ DatasetMissing(t) \/ Enable(t)
        PROVE  EnableOrder'
    <2>1. /\ step = "setup" /\ step' = "setup" /\ toCreate = {} /\ toCreate' = {}
          /\ toEnable' = toEnable \ {t} /\ known' = known /\ link' = link
      BY <1>5 DEF NoTransferSet, DatasetMissing, Enable, Enabling
    <2>2. CASE NoTransferSet(t)
      <3>1. reserved' = reserved /\ enabled' = enabled
            /\ refused' = (IF link /\ ~Exhausted THEN refused \cup {t} ELSE refused)
        BY <2>2 DEF NoTransferSet
      <3>2. QED
        BY <1>1, <2>1, <3>1
    <2>3. CASE DatasetMissing(t) \/ Enable(t)
      <3>1. /\ ~Exhausted /\ reserved' = reserved \cup {t}
            /\ enabled \subseteq enabled' /\ refused \subseteq refused'
            /\ t \in enabled' \/ t \in refused' \/ DatasetOf(t) \notin known
        BY <2>3 DEF DatasetMissing, Enable
      <3>2. \A u \in DOMAIN m_config.transferSets \ toEnable : link => Excused(u)'
        BY <1>1, <2>1, <3>1
      <3>3. link => Excused(t)'
        BY <1>1, <2>1, <3>1
      <3>4. QED
        BY <1>1, <2>1, <3>1, <3>2, <3>3
    <2>4. QED
      BY <1>5, <2>2, <2>3
  <1>6. CASE InstallHandlers
    BY <1>1, <1>6 DEF InstallHandlers
  <1>7. CASE NoticeLoss
    BY <1>1, <1>7 DEF NoticeLoss
  <1>8. CASE Lose
    BY <1>1, <1>8 DEF Lose
  <1>9. ASSUME NEW r \in Refs, ServerChange(r)
        PROVE  EnableOrder'
    BY <1>1, <1>9 DEF ServerChange
  <1>10. QED
    BY <1>2, <1>3, <1>4, <1>5, <1>6, <1>7, <1>8, <1>9, LinkFrame DEF LinkStep, Setup

-----------------------------------------------------------------------------
(* Changes in service                                                       *)

\* The last report of a change, or the reading it became.
Arrived(r) ==
    \/ lastReported[r] = value[r]
    \/ \E i \in 1 .. Len(reports) : reports[i] = [ref |-> r, version |-> value[r]]

Changes ==
    link /\ step = "service" => \A r \in fresh \cap onChange : Defined(r) => Arrived(r)

\* In service, and while the link holds, reports are only taken by the handler.
LEMMA ServiceReports ==
    ASSUME [Next]_vars, link', step' = "service"
    PROVE  \/ \E r \in Refs : Change(r) \/ Repeat(r)
           \/ HandleReport
           \/ UNCHANGED reports
  BY DEF Next, ThreadNext, Setup, Connect, CreateDataset, NoTransferSet, DatasetMissing,
         Enable, Enabling, InstallHandlers, Polling, BeginPoll, ReadPoint, FailRead,
         BeginSending, SendData, EndPoll, NoticeLoss, ValueHandler, DiscardReport,
         ServerChange, ServerRepeat, Lose, vars, acquisitionVars, server, linkVars

\* What arrived stays, whatever is ingested and whatever other points change.
LEMMA ArrivedKept ==
    ASSUME Types, Order, [Next]_vars, link', step' = "service",
           NEW r \in Reported, Defined(r), Arrived(r), value'[r] = value[r]
    PROVE  Arrived(r)'
  <1>1. r \in Refs /\ value[r] \in 1 .. MaxVersion
    BY DEF Reported, Types, Values
  <1>2. CASE lastReported[r] = value[r]
    <2>1. CASE UNCHANGED out
      BY <1>2, <2>1 DEF out, Arrived
    <2>2. CASE SendData
      BY <1>2, <2>2, Sent DEF SendData, server, Arrived
    <2>3. CASE /\ HandleReport
               /\ lastReported' = [lastReported EXCEPT ![reports[1].ref] = reports[1].version]
      <3>1. 1 \in 1 .. Len(reports)
        BY <2>3, FirstReport DEF HandleReport
      <3>2. CASE r = reports[1].ref
        <4>1. lastReported[r] <= reports[1].version /\ reports[1].version <= value[r]
              /\ reports[1].version \in 1 .. MaxVersion
          BY <3>1, <3>2, ReportFacts DEF Order, ReportOrder
        <4>2. reports[1].version = value[r]
          BY <1>1, <1>2, <4>1, MaxVersionAssumption
        <4>3. QED
          BY <1>1, <2>3, <3>2, <4>2 DEF Arrived, Types, Values
      <3>3. CASE r # reports[1].ref
        BY <1>1, <1>2, <2>3, <3>3 DEF Arrived, Types, Values
      <3>4. QED
        BY <3>2, <3>3
    <2>4. QED
      BY <2>1, <2>2, <2>3, OutFrame, Handled
  <1> DEFINE report == [ref |-> r, version |-> value[r]]
  <1>3. ASSUME NEW i \in 1 .. Len(reports), reports[i] = report
        PROVE  Arrived(r)'
    <2>1. Len(reports) \in Nat
      BY LenProperties DEF Types, ServerTypes
    <2>2. CASE UNCHANGED reports
      BY <1>3, <2>2 DEF Arrived
    <2>3. ASSUME NEW s \in Refs, Change(s) \/ Repeat(s)
          PROVE  Arrived(r)'
      <3> DEFINE new == [ref |-> s, version |-> value'[s]]
                 S == PointsReported \cup {new}
      <3>1. \/ reports' = reports
            \/ reports' = Append(reports, new)
            \/ reports = <<>>
        BY <2>3 DEF Change, Repeat
      <3>2. reports \in Seq(S) /\ new \in S
        BY SeqMonotonic DEF Types, ServerTypes
      <3> HIDE DEF new, S
      <3>3. i \in 1 .. Len(reports') /\ reports'[i] = report
        <4>1. CASE reports' = Append(reports, new)
          <5>1. Len(reports') = Len(reports) + 1 /\ reports'[i] = reports[i]
            BY <1>3, <3>2, <4>1, AppendProperties
          <5>2. QED
            BY <1>3, <2>1, <5>1
        <4>2. CASE reports' = reports
          BY <1>3, <4>2
        <4>3. reports # <<>>
          BY <1>3, EmptySeq
        <4>4. QED
          BY <3>1, <4>1, <4>2, <4>3
      <3>4. QED
        BY <3>3 DEF Arrived
    <2>4. CASE HandleReport
      <3>1. /\ Len(reports') = Len(reports) - 1
            /\ \A j \in 1 .. Len(reports) - 1 : reports'[j] = reports[j + 1]
            /\ 1 \in 1 .. Len(reports) /\ Head(reports) = reports[1]
        BY <2>1, <2>4, FirstReport, HeadTailProperties
        DEF HandleReport, Types, ServerTypes
      <3>2. CASE i = 1
        <4>1. r \in DOMAIN Definitions
          BY DefinedIsFound DEF Defined, Types
        <4>2. lastReported' = [lastReported EXCEPT ![r] = value[r]]
          BY <1>3, <2>4, <3>1, <3>2, <4>1 DEF HandleReport, FromReport
        <4>3. QED
          BY <1>1, <4>2 DEF Arrived, Types, Values
      <3>3. CASE i # 1
        <4>1. i - 1 \in 1 .. Len(reports') /\ reports'[i - 1] = report
          BY <1>3, <2>1, <3>1, <3>3
        <4>2. QED
          BY <4>1 DEF Arrived
      <3>4. QED
        BY <3>2, <3>3
    <2>5. QED
      BY <2>2, <2>3, <2>4, ServiceReports
  <1>4. QED
    BY <1>2, <1>3 DEF Arrived

\* A step that ends in service, with points that changed, began there.
LEMMA InService ==
    ASSUME [Next]_vars, link', step' = "service", fresh' # {}
    PROVE  /\ link /\ step = "service" /\ onChange' = onChange
           /\ fresh' = fresh \/ \E s \in Refs : ServerChange(s)
  <1>1. ~Connect /\ ~InstallHandlers /\ ~NoticeLoss /\ ~Lose
    BY DEF Connect, InstallHandlers, NoticeLoss, Lose
  <1>2. ASSUME NEW n, CreateDataset(n) PROVE FALSE
    BY <1>2 DEF CreateDataset
  <1>3. ASSUME NEW t, NoTransferSet(t) \/ DatasetMissing(t) \/ Enable(t) PROVE FALSE
    BY <1>3 DEF NoTransferSet, DatasetMissing, Enable, Enabling
  <1>4. CASE Polling \/ ValueHandler \/ DiscardReport
    BY <1>4 DEF Polling, BeginPoll, ReadPoint, FailRead, BeginSending, SendData, EndPoll,
       ValueHandler, HandleReport, DiscardReport, linkVars, server, granted
  <1>5. ASSUME NEW s \in Refs, ServerChange(s) \/ ServerRepeat(s)
        PROVE  /\ link /\ step = "service" /\ onChange' = onChange
               /\ fresh' = fresh \/ ServerChange(s)
    BY <1>5 DEF ServerChange, Change, ServerRepeat, Repeat, linkVars, granted
  <1>6. CASE UNCHANGED vars
    BY <1>6 DEF vars, acquisitionVars, server, granted, linkVars
  <1>7. QED
    BY <1>1, <1>2, <1>3, <1>4, <1>5, <1>6 DEF Next, ThreadNext, Setup

LEMMA ChangesStep ==
    ASSUME Types, Order, Changes, [Next]_vars
    PROVE  Changes'
  <1> SUFFICES ASSUME link', step' = "service",
                      NEW r \in fresh' \cap onChange', Defined(r)'
               PROVE  Arrived(r)'
    BY DEF Changes
  <1>1. UNCHANGED config /\ (Defined(r) <=> Defined(r)') /\ Reported' = Reported
    BY ConfigUnchanged, ConfigStays DEF config, Defined, Defining, ReadEntries
  <1>2. r \in Reported
    BY <1>1, ServerTypesStep DEF ServerTypes
  <1>3. link /\ step = "service" /\ onChange' = onChange
        /\ (fresh' = fresh \/ \E s \in Refs : ServerChange(s))
    BY <1>2, InService
  <1>4. CASE r \in fresh /\ value'[r] = value[r]
    BY <1>1, <1>2, <1>3, <1>4, ArrivedKept DEF Changes
  <1>5. CASE fresh' = fresh /\ UNCHANGED value
    BY <1>4, <1>5
  <1>6. ASSUME NEW s \in Refs, Change(s), fresh' \subseteq fresh \cup {s}
        PROVE  Arrived(r)'
    <2>1. CASE s = r
      <3> DEFINE new == [ref |-> r, version |-> value'[r]]
      <3>1. reports' = Append(reports, new)
        BY <1>3, <1>6, <2>1 DEF Change
      <3>2. new \in PointsReported
        BY <1>1, <1>2, ValuesStep DEF PointsReported, Reported, Values
      <3> HIDE DEF new
      <3>3. Len(reports') = Len(reports) + 1 /\ reports'[Len(reports) + 1] = new
            /\ Len(reports) \in Nat
        BY <3>1, <3>2, AppendProperties, LenProperties DEF Types, ServerTypes
      <3>4. QED
        BY <3>3 DEF Arrived, new
    <2>2. CASE s # r
      <3>1. value'[r] = value[r]
        BY <1>6, <2>2 DEF Change, Types, Values
      <3>2. QED
        BY <1>4, <1>6, <2>2, <3>1
    <2>3. QED
      BY <2>1, <2>2
  <1>7. QED
    BY <1>3, <1>5, <1>6, ValueFrame DEF ServerChange


-----------------------------------------------------------------------------
(* The inductive invariant, and what follows from it                        *)

Inv ==
    /\ Types
    /\ Order
    /\ Ways
    /\ Labelling
    /\ ObjectsAsDefined
    /\ EnableOrder
    /\ Changes

LEMMA InitInv == Init => Inv
  <1> SUFFICES ASSUME Init PROVE Inv
    OBVIOUS
  <1>1. Configured
    BY DEF Init, AcquisitionInit, Configured
  <1>2. Values /\ ValueOrder /\ Ways
    BY MaxVersionAssumption DEF Init, AcquisitionInit, Values, ValueOrder, Ways
  <1>3. PollTypes /\ ServerTypes
    BY EmptySeq DEF Init, AcquisitionInit, PollTypes, ServerTypes
  <1>4. LinkTypes
    BY PoolAssumption, FS_EmptySet DEF Init, LinkTypes, Static
  <1>5. PollOrder /\ ReportOrder /\ Labelling /\ ObjectsAsDefined
    BY DEF Init, AcquisitionInit, PollOrder, ReportOrder, Labelling, ObjectsAsDefined
  <1>6. EnableOrder /\ Changes
    BY DEF Init, EnableOrder, Changes
  <1>7. QED
    BY <1>1, <1>2, <1>3, <1>4, <1>5, <1>6 DEF Inv, Types, Order

LEMMA StepInv == Inv /\ [Next]_vars => Inv'
  BY TypesStep, ValueOrderStep, PollOrderStep, ReportOrderStep, WaysStep, LabellingStep, ObjectsStep,
     EnableOrderStep, ChangesStep
  DEF Inv, Order

THEOREM Invariance == Spec => []Inv
  BY InitInv, StepInv, PTL DEF Spec

\* Type correctness, for every configuration; labels.at (i) never throws.
THEOREM TypeCorrect == Spec => []TypeOK
  <1>1. Inv => TypeOK
    BY DEF Inv, Types, Values, PollTypes, ServerTypes, LinkTypes, Reported, TypeOK,
           AcquisitionTypeOK
  <1>2. QED
    BY <1>1, Invariance, PTL

\* Neither the polls nor the reports of a point go back to an older value, for every
\* document and stack, and whatever is refused, queued or lost.
THEOREM ReadingsInOrder == Spec => NeverOlder
  <1>1. Inv /\ [Next]_vars =>
            [\A r \in Refs :
                lastPolled'[r] >= lastPolled[r] /\ lastReported'[r] >= lastReported[r]
            ]_acquisitionVars
    <2> SUFFICES ASSUME Inv, [Next]_vars, NEW r \in Refs
                 PROVE  lastPolled[r] <= lastPolled'[r] /\ lastReported[r] <= lastReported'[r]
      <3>1. Inv /\ [Next]_vars =>
                \A s \in Refs :
                    /\ lastPolled[s] \in Int /\ lastPolled'[s] \in Int
                    /\ lastReported[s] \in Int /\ lastReported'[s] \in Int
        BY ValuesStep, ConfigUnchanged, ConfigStays DEF Inv, Types, Values
      <3>2. QED
        BY <3>1
    <2>1. MaxVersion \in Nat
          /\ lastPolled[r] \in 0 .. MaxVersion /\ lastReported[r] \in 0 .. MaxVersion
      BY MaxVersionAssumption DEF Inv, Types, Values
    <2>2. CASE UNCHANGED out
      BY <2>1, <2>2 DEF out
    <2>3. CASE SendData
      <3> DEFINE n == sent + 1
      <3>1. n \in 1 .. Len(datapoints) /\ lastReported' = lastReported
            /\ lastPolled' = [lastPolled EXCEPT ![datapoints[n].ref] = datapoints[n].version]
        BY <2>3, Sent DEF Inv
      <3>2. n > sent
        BY DEF Inv, Types, PollTypes
      <3> HIDE DEF n
      <3>3. QED
        BY <2>1, <3>1, <3>2 DEF Inv, Types, Values, Order, PollOrder
    <2>4. CASE /\ HandleReport /\ lastPolled' = lastPolled
               /\ lastReported' = [lastReported EXCEPT ![reports[1].ref] = reports[1].version]
      <3>1. 1 \in 1 .. Len(reports)
        BY <2>4, FirstReport DEF HandleReport, Inv
      <3>2. QED
        BY <2>1, <2>4, <3>1 DEF Inv, Types, Values, Order, ReportOrder
    <2>5. QED
      BY <2>2, <2>3, <2>4, OutFrame, Handled DEF Inv
  <1>2. QED
    BY <1>1, Invariance, PTL DEF Spec, NeverOlder

\* A point that the data sets spell as the exchange does is acquired in one way only.
THEOREM OneWayOnly == Spec => []AcquiredOneWay
  <1>1. Inv => AcquiredOneWay
    BY DEF Inv, Ways, AcquiredOneWay
  <1>2. QED
    BY <1>1, Invariance, PTL

\* Labels are only mixed up in a poll in which a read has failed.
THEOREM LabelsInStep == Spec => MislabelledAfterFailure
  <1>1. Inv /\ [Next]_vars =>
            [out' # out /\ ~Labelled(reading')
                => poll = "sending" /\ Len(datapoints) < Len(labels)]_acquisitionVars
    <2> SUFFICES ASSUME Inv, [Next]_vars, out' # out, ~Labelled(reading')
                 PROVE  poll = "sending" /\ Len(datapoints) < Len(labels)
      OBVIOUS
    <2>1. Len(datapoints) \in Nat /\ Len(labels) \in Nat /\ Len(datapoints) <= Len(labels)
      BY LenProperties DEF Inv, Types, PollTypes
    <2>2. SendData
      BY OutFrame, HandledObject DEF Inv
    <2>3. QED
      BY <2>1, <2>2, SentObject DEF Inv, SendData
  <1>2. QED
    BY <1>1, Invariance, PTL DEF Spec, MislabelledAfterFailure

\* Every reading has the members and the value that its type announces.
THEOREM ObjectsOfTheirTypes == Spec => []ObjectsAsDefined
  BY Invariance, PTL DEF Inv

\* A transfer set that is not enabled in service was refused, has no data set, or found
\* every transfer set of the server reserved by others.
THEOREM TransferSetsEnabled == Spec => []EnabledUnlessRefused
  <1>1. Inv => EnabledUnlessRefused
    BY DEF Inv, EnableOrder, Excused, EnabledUnlessRefused
  <1>2. QED
    BY <1>1, Invariance, PTL

\* No report of a change is dropped in service.
THEOREM ChangesArrive == Spec => []ReportedChangesArrive
  <1>1. Inv => ReportedChangesArrive
    <2> SUFFICES ASSUME Inv, link, step = "service", NEW r \in fresh \cap onChange, Defined(r)
                 PROVE  \/ lastReported[r] = value[r]
                        \/ \E i \in DOMAIN reports :
                               reports[i] = [ref |-> r, version |-> value[r]]
      BY DEF ReportedChangesArrive
    <2>1. DOMAIN reports = 1 .. Len(reports)
      BY LenProperties DEF Inv, Types, ServerTypes
    <2>2. QED
      BY <2>1 DEF Inv, Changes, Arrived
  <1>2. QED
    BY <1>1, Invariance, PTL

-----------------------------------------------------------------------------
(* Connections are imported as they are written                             *)

\* What is kept of a connection that is imported.
LEMMA GroupWritten ==
    ASSUME NEW c, IsConnection(c), ConnectionOutcome(c) = "imported"
    PROVE  Written(RedGroup(c), c)
  <1>1. /\ ~Skipped(c) /\ c.port # {} /\ \A osi \in c.osi : ~OsiThrows(osi)
    BY DEF ConnectionOutcome
  <1> DEFINE group == RedGroup(c)
  <1>2. c.port = {group.port}
    <2>1. PICK p \in c.port : TRUE
      BY <1>1
    <2>2. p \in Int /\ c.port = {p}
      BY <2>1 DEF IsConnection, AtMostOne
    <2>3. The(c.port) = p
      BY <2>2 DEF The
    <2>4. group.port = p
      BY <2>3 DEF RedGroup
    <2> HIDE DEF group
    <2>5. QED
      BY <2>2, <2>4
  <1>3. group.tls = (c.tls = "true") /\ group.osi = {importOsiSelectors(osi) : osi \in c.osi}
    BY DEF RedGroup
  <1>4. ASSUME NEW parsed \in group.osi, NEW osi \in c.osi, NEW k \in DOMAIN osi.selectors
        PROVE  /\ [i \in DOMAIN parsed[k].bytes |-> {parsed[k].bytes[i]}] = osi.selectors[k]
               /\ Len(parsed[k].bytes) <= IF k \in {"localT", "remoteT"} THEN 4 ELSE 16
    <2>1. parsed = importOsiSelectors(osi)
      BY <1>3, <1>4 DEF IsConnection, AtMostOne
    <2>2. ~importOsiSelectors(osi)[k].thrown
      BY <1>1, <1>4 DEF OsiThrows
    <2>3. importOsiSelectors(osi)[k] = parseOsiSelector(osi.selectors[k], SelectorSize[k])
      BY <1>4 DEF importOsiSelectors
    <2>4. /\ k \in DOMAIN SelectorSize /\ osi.selectors[k] \in Seq(SUBSET Int)
          /\ \A i \in DOMAIN osi.selectors[k] : AtMostOne(osi.selectors[k][i])
      BY <1>4 DEF IsConnection
    <2>5. SelectorSize[k] = IF k \in {"localT", "remoteT"} THEN 4 ELSE 16
      BY <2>4 DEF SelectorSize
    <2>6. SelectorSize[k] \in Nat
      BY <2>5
    <2> DEFINE tokens == osi.selectors[k]
               size == SelectorSize[k]
    <2>7. parsed[k] = parseOsiSelector(tokens, size) /\ ~parseOsiSelector(tokens, size).thrown
      BY <2>1, <2>2, <2>3
    <2>8. tokens \in Seq(SUBSET Int) /\ size \in Nat /\ \A i \in DOMAIN tokens : AtMostOne(tokens[i])
      BY <2>4, <2>6
    <2> HIDE DEF tokens, size
    <2>9. LET bytes == parseOsiSelector(tokens, size).bytes IN
          [i \in DOMAIN bytes |-> {bytes[i]}] = tokens /\ Len(bytes) <= size
      BY <2>7, <2>8, ParsedTokens
    <2>10. [i \in DOMAIN parsed[k].bytes |-> {parsed[k].bytes[i]}] = tokens /\ Len(parsed[k].bytes) <= size
      BY <2>7, <2>9
    <2>11. QED
      BY <2>5, <2>10 DEF tokens, size
  <1>5. group.osi = {} <=> c.osi = {}
    BY <1>3
  <1>6. group.tls = (c.tls = "true")
    BY <1>3
  <1>7. \A parsed \in group.osi, osi \in c.osi : \A k \in DOMAIN osi.selectors :
           /\ [i \in DOMAIN parsed[k].bytes |-> {parsed[k].bytes[i]}] = osi.selectors[k]
           /\ Len(parsed[k].bytes) <= IF k \in {"localT", "remoteT"} THEN 4 ELSE 16
    BY <1>4
  <1> HIDE DEF group
  <1>8. Written(group, c)
    BY <1>2, <1>5, <1>6, <1>7, Zenon DEF Written
  <1>9. QED
    BY <1>8 DEF group

\* In particular the connections the plugin runs with.
LEMMA ConfiguredAsWritten == Configured => ImportedAsWritten
  <1> SUFFICES ASSUME Configured, Runs PROVE ImportedAsWritten
    BY DEF ImportedAsWritten
  <1> DEFINE n == Len(stack.connections)
             groups == m_config.connections
  <1>1. n \in Nat /\ DOMAIN stack.connections = 1 .. n
    BY DocumentFacts
  <1>2. groups = Connections(stack)
    BY DEF Configured, setJsonConfig, Runs
  <1>3. PICK at \in [DOMAIN groups -> 1 .. n] :
            /\ \A i, j \in DOMAIN groups : i < j => at[i] < at[j]
            /\ \A i \in DOMAIN groups :
                  /\ ConnectionOutcome(stack.connections[at[i]]) = "imported"
                  /\ groups[i] = RedGroup(stack.connections[at[i]])
    BY <1>1, <1>2, GroupsOfConnections
  <1>4. \A i \in 1 .. n : IsConnection(stack.connections[i])
    BY <1>1, ConfigurationsAssumption DEF Configured
  <1> HIDE DEF n, groups
  <1>5. \A i \in DOMAIN groups : Written(groups[i], stack.connections[at[i]])
    BY <1>3, <1>4, GroupWritten
  <1>6. QED
    BY <1>1, <1>3, <1>5 DEF ImportedAsWritten, groups

\* Every connection the plugin runs with is one of the document, in its order, with its
\* port, and its selectors byte by byte within their buffers.
THEOREM ConnectionsAsWritten == Spec => []ImportedAsWritten
  <1>1. Inv => ImportedAsWritten
    BY ConfiguredAsWritten DEF Inv, Types
  <1>2. QED
    BY <1>1, Invariance, PTL
=============================================================================
