------------------------- MODULE MemoryNotesProofs -------------------------
(***************************************************************************)
(* What holds of the store of notes, and of the readers that follow it with  *)
(* snapshots and deltas, for every number of notes, keys, consumers and      *)
(* lifetimes, every batch and page size and every clock.                     *)
(***************************************************************************)
EXTENDS MemorySync, FiniteSetTheorems, FiniteSetsExt, WellFoundedInduction, TLAPS

\* A non-empty set of naturals has a least element.
LEMMA MinOfNat ==
    ASSUME NEW S \in SUBSET Nat, S # {}
    PROVE  Min(S) \in S /\ \A x \in S : Min(S) <= x
  <1>1. PICK m \in S : \A y \in S : ~(<<y, m>> \in OpToRel(<, Nat))
    BY WFMin, NatLessThanWellFounded
  <1>2. \A y \in S : m <= y
    <2>. SUFFICES ASSUME NEW y \in S, y < m PROVE FALSE
      OBVIOUS
    <2>1. <<y, m>> \in Nat \X Nat /\ <<y, m>>[1] < <<y, m>>[2]
      OBVIOUS
    <2>2. <<y, m>> \in OpToRel(<, Nat)
      BY <2>1, Zenon DEF OpToRel
    <2>. QED  BY <1>1, <2>2
  <1>. QED  BY <1>2 DEF Min

\* A non-empty set of naturals with a bound has a greatest element.
LEMMA MaxOfRange ==
    ASSUME NEW n \in Nat, NEW S \in SUBSET (0..n), S # {}
    PROVE  Max(S) \in S /\ \A x \in S : x <= Max(S)
  <1>. DEFINE T == {k \in 0..n : n - k \in S}
  <1>1. \A x \in S : n - x \in T
    OBVIOUS
  <1>2. T \in SUBSET Nat /\ T # {}
    <2>1. PICK x \in S : TRUE
      OBVIOUS
    <2>2. n - x \in T
      BY <1>1, <2>1
    <2>3. T \subseteq Nat
      OBVIOUS
    <2>. QED  BY <2>2, <2>3, Zenon
  <1>. HIDE DEF T
  <1>3. PICK m \in T : \A y \in T : m <= y
    BY <1>2, MinOfNat
  <1>4. n - m \in S /\ m \in 0..n
    BY DEF T
  <1>5. \A x \in S : x <= n - m
    BY <1>1, <1>3, <1>4
  <1>. QED  BY <1>4, <1>5 DEF Max

-----------------------------------------------------------------------------

\* A request that stored its note is either still retained under its key, or its
\* deadline has passed and the clock refuses every further retry.
RequestsAreSettled ==
    \A k \in Key, d \in Deadline :
        /\ stored[<<k, d>>] <= 1
        /\ stored[<<k, d>>] = 1 => d <= now \/ (k \in DOMAIN idem /\ idem[k].deadline = d)

\* The index is exact or given up; a runtime without a search table has given it up.
IndexIsHonest ==
    \/ through = -1
    \/ fts /\ through = head /\ index = DOMAIN entries

NotesInv == NotesTypeOK /\ RequestsAreSettled /\ NothingMissingAboveFloor /\ IndexIsHonest

\* The empty store satisfies the invariant.
LEMMA NotesInvInit ==
    ASSUME NotesInit
    PROVE  NotesInv
  <1>1. NotesTypeOK
    <2>1. /\ now \in 0..MaxNow /\ head \in 0..MaxSeq /\ floor \in 0..head
          /\ through \in -1..MaxSeq
      BY NotesAssumption DEF NotesInit
    <2>2. /\ DOMAIN entries = {} /\ DOMAIN idem = {}
          /\ entries = [s \in DOMAIN entries |-> entries[s]]
          /\ idem = [k \in DOMAIN idem |-> idem[k]]
      BY DEF NotesInit
    <2>3. stored \in [Key \X Deadline -> Nat]
      BY DEF NotesInit
    <2>. QED  BY <2>1, <2>2, <2>3 DEF NotesInit, NotesTypeOK
  <1>2. RequestsAreSettled
    BY DEF NotesInit, RequestsAreSettled
  <1>3. NothingMissingAboveFloor
    BY DEF NotesInit, NothingMissingAboveFloor
  <1>4. IndexIsHonest
    BY DEF NotesInit, IndexIsHonest
  <1>. QED  BY <1>1, <1>2, <1>3, <1>4 DEF NotesInv

\* Where neither the notes nor the retries change, the invariant is kept if the
\* clock does not go back and the index stays honest.
LEMMA NotesUntouched ==
    ASSUME NotesInv, UNCHANGED <<head, floor, entries, idem, stored>>,
           now' \in 0..MaxNow, now <= now',
           fts' \in BOOLEAN, blocked' \in BOOLEAN, phase' \in {"down", "started", "swept"},
           through' \in -1..MaxSeq, index' \subseteq NoteSeq, IndexIsHonest'
    PROVE  NotesInv'
  <1>1. NotesTypeOK'
    BY DEF NotesInv, NotesTypeOK
  <1>2. RequestsAreSettled'
    <2>. SUFFICES ASSUME NEW k \in Key, NEW d \in Deadline, stored[<<k, d>>] = 1
                  PROVE  d <= now' \/ (k \in DOMAIN idem /\ idem[k].deadline = d)
      BY DEF NotesInv, RequestsAreSettled
    <2>1. d \in Int /\ now \in Int /\ now' \in Int
      BY NotesAssumption DEF NotesInv, NotesTypeOK, Deadline
    <2>2. d <= now \/ (k \in DOMAIN idem /\ idem[k].deadline = d)
      BY DEF NotesInv, RequestsAreSettled
    <2>. QED  BY <2>1, <2>2
  <1>3. NothingMissingAboveFloor'
    BY DEF NotesInv, NothingMissingAboveFloor
  <1>. QED  BY <1>1, <1>2, <1>3 DEF NotesInv

\* A new note takes the next sequence, and its request is retained with it.
LEMMA NoteKeepsInv ==
    ASSUME NotesInv, NEW content \in Content, NEW key \in Key \cup {NoKey},
           NEW deadline, key # NoKey => deadline \in Deadline, Note(content, key, deadline)
    PROVE  NotesInv'
  <1>1. /\ head \in Nat /\ head + 1 \in NoteSeq /\ head' = head + 1
        /\ floor \in 0..head /\ DOMAIN entries \subseteq 1..head
    BY NotesAssumption DEF NotesInv, NotesTypeOK, Note, NoteSeq
  <1>2. DOMAIN entries' = DOMAIN entries \cup {head + 1}
    BY DEF Note, WithEntry
  <1>3. /\ entries' = [s \in DOMAIN entries' |-> entries'[s]]
        /\ \A s \in DOMAIN entries' : entries'[s] \in Entry
    <2>1. entries' = [s \in DOMAIN entries' |-> entries'[s]]
      BY DEF Note, WithEntry
    <2>2. ASSUME NEW s \in DOMAIN entries
          PROVE  Linked(content.target, head + 1)[s] \in Entry
      <3>1. entries[s] \in Entry /\ head + 1 \in 0..MaxSeq
        BY <1>1, NotesAssumption DEF NotesInv, NotesTypeOK, NoteSeq
      <3>2. [entries[s] EXCEPT !.replaced_by = head + 1] \in Entry
        BY <3>1 DEF Entry
      <3>. QED  BY <3>1, <3>2 DEF Linked
    <2>3. [kind |-> content.kind, expires |-> content.expires, replaced_by |-> 0] \in Entry
      BY NotesAssumption DEF Content, Entry
    <2>4. ASSUME NEW s \in DOMAIN entries'
          PROVE  entries'[s] \in Entry
      BY <1>1, <1>2, <2>2, <2>3 DEF Note, WithEntry
    <2>. QED  BY <2>1, <2>4
  <1>4. NothingMissingAboveFloor'
    <2>1. (floor + 1)..head \subseteq DOMAIN entries /\ floor' = floor
      BY DEF NotesInv, NothingMissingAboveFloor, Note
    <2>. QED  BY <1>1, <1>2, <2>1 DEF NothingMissingAboveFloor
  <1>5. IndexIsHonest' /\ through' \in -1..MaxSeq /\ index' \subseteq NoteSeq
    <2>1. /\ through \in -1..MaxSeq /\ index \subseteq NoteSeq /\ fts' = fts
          /\ IndexIsHonest
      BY DEF NotesInv, NotesTypeOK, Note
    <2>2. CASE fts /\ through >= 0
      <3>1. index' = index \cup {head + 1} /\ through' = head + 1
        BY <2>2 DEF Note, IndexNote
      <3>2. index = DOMAIN entries
        BY <2>1, <2>2 DEF IndexIsHonest
      <3>. QED  BY <1>1, <1>2, <2>1, <2>2, <3>1, <3>2 DEF IndexIsHonest, NoteSeq
    <2>3. CASE ~(fts /\ through >= 0)
      <3>1. index' = index /\ through' = through
        BY <2>3 DEF Note, IndexNote
      <3>2. through = -1
        BY <1>1, <2>1, <2>3 DEF IndexIsHonest
      <3>. QED  BY <2>1, <3>1, <3>2 DEF IndexIsHonest
    <2>. QED  BY <2>2, <2>3
  <1>6. RequestsAreSettled' /\ (idem = [k \in DOMAIN idem |-> idem[k]])'
        /\ DOMAIN idem' \subseteq Key
        /\ (\A k \in DOMAIN idem : idem[k] \in [mark : Content, seq : NoteSeq, deadline : Deadline])'
        /\ stored' \in [Key \X Deadline -> Nat]
    <2>1. /\ stored \in [Key \X Deadline -> Nat] /\ now' = now
          /\ idem = [k \in DOMAIN idem |-> idem[k]] /\ DOMAIN idem \subseteq Key
          /\ \A k \in DOMAIN idem : idem[k] \in [mark : Content, seq : NoteSeq, deadline : Deadline]
          /\ RequestsAreSettled
      BY DEF NotesInv, NotesTypeOK, Note
    <2>2. CASE key = NoKey
      <3>1. idem' = idem /\ stored' = stored
        BY <2>2 DEF Note
      <3>2. (idem = [k \in DOMAIN idem |-> idem[k]])'
        BY <2>1, <3>1
      <3>. QED  BY <2>1, <3>1, <3>2 DEF RequestsAreSettled
    <2>3. CASE key # NoKey
      <3>1. /\ key \in Key /\ deadline \in Deadline
            /\ now < deadline /\ key \notin DOMAIN idem
        BY <2>3 DEF Note, Fresh, Timely
      <3>2. /\ idem' = [k \in DOMAIN idem \cup {key} |->
                          IF k = key
                          THEN [mark |-> content, seq |-> head + 1, deadline |-> deadline]
                          ELSE idem[k]]
            /\ stored' = [stored EXCEPT ![<<key, deadline>>] = @ + 1]
        BY <2>3 DEF Note
      <3>3. deadline \in Int /\ now \in Int
        BY <3>1, NotesAssumption DEF Deadline, NotesInv, NotesTypeOK
      <3>4. stored[<<key, deadline>>] = 0
        <4>1. stored[<<key, deadline>>] \in Nat /\ stored[<<key, deadline>>] <= 1
          BY <2>1, <3>1 DEF RequestsAreSettled
        <4>2. stored[<<key, deadline>>] # 1
          BY <2>1, <3>1, <3>3 DEF RequestsAreSettled
        <4>. QED  BY <4>1, <4>2
      <3>5. stored' \in [Key \X Deadline -> Nat]
        BY <2>1, <3>1, <3>2
      <3>6. DOMAIN idem' = DOMAIN idem \cup {key} /\ idem'[key].deadline = deadline
            /\ \A k \in DOMAIN idem : idem'[k] = idem[k]
        BY <3>1, <3>2
      <3>7. ASSUME NEW k \in Key, NEW d \in Deadline
            PROVE  /\ stored'[<<k, d>>] <= 1
                   /\ stored'[<<k, d>>] = 1 =>
                        d <= now' \/ (k \in DOMAIN idem' /\ idem'[k].deadline = d)
        <4>1. CASE k = key /\ d = deadline
          BY <2>1, <3>1, <3>2, <3>4, <3>6, <4>1
        <4>2. CASE ~(k = key /\ d = deadline)
          <5>1. stored'[<<k, d>>] = stored[<<k, d>>]
            BY <2>1, <3>2, <4>2
          <5>2. /\ stored[<<k, d>>] <= 1
                /\ stored[<<k, d>>] = 1 => d <= now \/ (k \in DOMAIN idem /\ idem[k].deadline = d)
            BY <2>1 DEF RequestsAreSettled
          <5>. QED  BY <2>1, <3>6, <5>1, <5>2
        <4>. QED  BY <4>1, <4>2
      <3>8. /\ (idem = [k \in DOMAIN idem |-> idem[k]])'
            /\ DOMAIN idem' \subseteq Key
        BY <2>1, <3>1, <3>2, <3>6
      <3>9. ASSUME NEW k \in DOMAIN idem'
            PROVE  idem'[k] \in [mark : Content, seq : NoteSeq, deadline : Deadline]
        BY <1>1, <2>1, <3>1, <3>2, <3>6
      <3>. QED  BY <3>5, <3>7, <3>8, <3>9 DEF RequestsAreSettled
    <2>. QED  BY <2>2, <2>3
  <1>7. /\ UNCHANGED <<now, fts, blocked, phase>> /\ floor' = floor
    BY DEF Note
  <1>8. NotesTypeOK'
    <2>1. head' \in 0..MaxSeq /\ floor' \in 0..head' /\ DOMAIN entries' \subseteq 1..head'
      BY <1>1, <1>2, <1>7 DEF NoteSeq
    <2>. QED  BY <1>3, <1>5, <1>6, <1>7, <2>1 DEF NotesTypeOK, NotesInv
  <1>. QED  BY <1>4, <1>5, <1>6, <1>8 DEF NotesInv

\* The floor moves to the highest removed row, so nothing above it was removed, and
\* the index loses exactly the removed rows or is given up.
LEMMA ForgetFacts ==
    ASSUME NotesInv, NEW gone \in SUBSET DOMAIN entries, NEW maintained \in BOOLEAN,
           Forget(gone, maintained), UNCHANGED <<head, fts>>
    PROVE  /\ entries' = [s \in DOMAIN entries' |-> entries'[s]]
           /\ DOMAIN entries' \subseteq 1..head
           /\ \A s \in DOMAIN entries' : entries'[s] \in Entry
           /\ floor' \in 0..head
           /\ NothingMissingAboveFloor'
           /\ IndexIsHonest'
           /\ through' \in -1..MaxSeq /\ index' \subseteq NoteSeq
  <1>1. /\ head \in 0..MaxSeq /\ floor \in 0..head /\ DOMAIN entries \subseteq 1..head
        /\ \A s \in DOMAIN entries : entries[s] \in Entry
        /\ through \in -1..MaxSeq /\ index \subseteq NoteSeq
        /\ (floor + 1)..head \subseteq DOMAIN entries
        /\ IndexIsHonest
        /\ MaxSeq \in Nat
    BY NotesAssumption DEF NotesInv, NotesTypeOK, NothingMissingAboveFloor
  <1>2. entries' = [s \in DOMAIN entries \ gone |-> entries[s]]
    BY DEF Forget
  <1>3. /\ DOMAIN entries' = DOMAIN entries \ gone
        /\ entries' = [s \in DOMAIN entries' |-> entries'[s]]
        /\ \A s \in DOMAIN entries' : entries'[s] = entries[s]
    BY <1>2
  <1>4. floor' \in floor..head /\ \A s \in gone : s <= floor'
    <2>1. CASE gone = {}
      BY <1>1, <2>1 DEF Forget, FloorAfter
    <2>2. CASE gone # {}
      <3>1. {floor} \cup gone \in SUBSET (0..head) /\ {floor} \cup gone # {} /\ head \in Nat
        BY <1>1
      <3>. DEFINE top == Max({floor} \cup gone)
      <3>2. top \in {floor} \cup gone /\ \A x \in {floor} \cup gone : x <= top
        BY <3>1, MaxOfRange
      <3>3. floor' = top
        BY <2>2 DEF Forget, FloorAfter
      <3>. HIDE DEF top
      <3>4. top \in 0..head /\ floor <= top /\ \A s \in gone : s <= top
        BY <3>1, <3>2
      <3>5. top \in floor..head
        BY <1>1, <3>4
      <3>. QED  BY <3>3, <3>4, <3>5, Zenon
    <2>. QED  BY <2>1, <2>2
  <1>5. NothingMissingAboveFloor'
    <2>0. floor \in Int /\ head \in Int /\ head' = head /\ floor' \in Int /\ floor <= floor'
      BY <1>1, <1>4
    <2>. DEFINE low == floor'
                all == DOMAIN entries'
    <2>1. low \in Int /\ floor <= low /\ (\A s \in gone : s <= low)
          /\ all = DOMAIN entries \ gone
      BY <1>3, <1>4, <2>0
    <2>. HIDE DEF low, all
    <2>2. (floor + 1)..head \subseteq DOMAIN entries
      BY <1>1
    <2>3. (low + 1)..head \subseteq all
      BY <2>0, <2>1, <2>2
    <2>. QED  BY <2>0, <2>3 DEF NothingMissingAboveFloor, low, all
  <1>6. IndexIsHonest' /\ through' \in -1..MaxSeq /\ index' \subseteq NoteSeq
    <2>1. CASE gone # {} /\ (~fts \/ ~maintained)
      <3>1. through' = -1 /\ index' = index
        BY <2>1 DEF Forget, Unindex
      <3>. QED  BY <1>1, <3>1 DEF IndexIsHonest
    <2>2. CASE ~(gone # {} /\ (~fts \/ ~maintained))
      <3>1. /\ through' = through
            /\ index' = IF IndexUsable THEN index \ gone ELSE index
        BY <2>2 DEF Forget, Unindex
      <3>2. CASE through = -1
        BY <1>1, <3>1, <3>2 DEF IndexIsHonest
      <3>3. CASE through # -1
        <4>1. fts /\ through = head /\ index = DOMAIN entries
          BY <1>1, <3>3 DEF IndexIsHonest
        <4>2. index' = DOMAIN entries'
          BY <1>3, <3>1, <4>1 DEF IndexUsable
        <4>3. index' \subseteq NoteSeq
          BY <1>1, <3>1
        <4>. QED  BY <1>1, <3>1, <4>1, <4>2, <4>3 DEF IndexIsHonest
      <3>. QED  BY <3>2, <3>3
    <2>. QED  BY <2>1, <2>2
  <1>. QED  BY <1>1, <1>3, <1>4, <1>5, <1>6

\* expire() forgets lapsed rows and retries whose deadline is behind the clock.
LEMMA ExpireKeepsInv ==
    ASSUME NotesInv, ExpireNotes
    PROVE  NotesInv'
  <1>1. PICK maintained \in BOOLEAN : Forget(Lapsed, maintained)
    BY DEF ExpireNotes
  <1>2. UNCHANGED <<now, head, fts, blocked, stored>> /\ phase' = "swept"
        /\ idem' = [k \in LiveRetries |-> idem[k]]
    BY DEF ExpireNotes
  <1>3. Lapsed \in SUBSET DOMAIN entries
    BY DEF Lapsed
  <1>4. /\ entries' = [s \in DOMAIN entries' |-> entries'[s]]
        /\ DOMAIN entries' \subseteq 1..head
        /\ \A s \in DOMAIN entries' : entries'[s] \in Entry
        /\ floor' \in 0..head
        /\ NothingMissingAboveFloor'
        /\ IndexIsHonest'
        /\ through' \in -1..MaxSeq /\ index' \subseteq NoteSeq
    BY <1>1, <1>2, <1>3, ForgetFacts
  <1>5. DOMAIN idem' = LiveRetries /\ LiveRetries \subseteq DOMAIN idem
        /\ \A k \in LiveRetries : idem'[k] = idem[k]
    BY <1>2 DEF LiveRetries
  <1>6. RequestsAreSettled'
    <2>. SUFFICES ASSUME NEW k \in Key, NEW d \in Deadline, stored[<<k, d>>] = 1
                  PROVE  d <= now \/ (k \in DOMAIN idem' /\ idem'[k].deadline = d)
      BY <1>2 DEF NotesInv, RequestsAreSettled
    <2>1. d <= now \/ (k \in DOMAIN idem /\ idem[k].deadline = d)
      BY DEF NotesInv, RequestsAreSettled
    <2>2. d \in Int /\ now \in Int
      BY NotesAssumption DEF NotesInv, NotesTypeOK, Deadline
    <2>3. CASE k \in LiveRetries
      BY <1>5, <2>1, <2>3
    <2>4. CASE k \notin LiveRetries
      BY <2>1, <2>2, <2>4 DEF LiveRetries
    <2>. QED  BY <2>3, <2>4
  <1>7. NotesTypeOK'
    <2>1. /\ idem' = [k \in DOMAIN idem' |-> idem'[k]]
          /\ DOMAIN idem' \subseteq Key
          /\ \A k \in DOMAIN idem' :
                idem'[k] \in [mark : Content, seq : NoteSeq, deadline : Deadline]
      BY <1>2, <1>5 DEF NotesInv, NotesTypeOK
    <2>. QED  BY <1>2, <1>4, <2>1 DEF NotesInv, NotesTypeOK
  <1>. QED  BY <1>4, <1>6, <1>7 DEF NotesInv

\* Dying between two transactions of expire() leaves a legal store behind.
LEMMA DieKeepsInv ==
    ASSUME NotesInv, DieExpiring
    PROVE  NotesInv'
  <1>1. UNCHANGED <<now, head, idem, fts, blocked, stored>> /\ phase' = "down"
    BY DEF DieExpiring
  <1>2. /\ entries' = [s \in DOMAIN entries' |-> entries'[s]]
        /\ DOMAIN entries' \subseteq 1..head
        /\ \A s \in DOMAIN entries' : entries'[s] \in Entry
        /\ floor' \in 0..head
        /\ NothingMissingAboveFloor'
        /\ IndexIsHonest'
        /\ through' \in -1..MaxSeq /\ index' \subseteq NoteSeq
    <2>1. CASE GiveUpIndex
      <3>1. through' = -1 /\ UNCHANGED <<entries, floor, index>>
        BY <2>1 DEF GiveUpIndex
      <3>2. MaxSeq \in Nat
        BY NotesAssumption
      <3>. QED  BY <1>1, <3>1, <3>2
                DEF NotesInv, NotesTypeOK, NothingMissingAboveFloor, IndexIsHonest
    <2>2. CASE \E n \in 1..Cardinality(Lapsed), maintained \in BOOLEAN :
                  Forget(FirstBatches(n), maintained)
      <3>1. PICK n \in 1..Cardinality(Lapsed), maintained \in BOOLEAN :
               Forget(FirstBatches(n), maintained)
        BY <2>2
      <3>2. FirstBatches(n) \in SUBSET DOMAIN entries
        BY DEF FirstBatches, Lapsed
      <3>. QED  BY <1>1, <3>1, <3>2, ForgetFacts
    <2>. QED  BY <2>1, <2>2 DEF DieExpiring
  <1>3. RequestsAreSettled'
    BY <1>1 DEF NotesInv, RequestsAreSettled
  <1>4. NotesTypeOK'
    BY <1>1, <1>2 DEF NotesInv, NotesTypeOK
  <1>. QED  BY <1>2, <1>3, <1>4 DEF NotesInv

\* A runtime that opens the store trusts the index only where it reaches the head.
LEMMA RestartKeepsInv ==
    ASSUME NotesInv, Restart
    PROVE  NotesInv'
  <1>1. PICK present \in BOOLEAN : Reopen(present)
    BY DEF Restart
  <1>2. /\ UNCHANGED <<now, head, floor, entries, idem, stored>>
        /\ blocked' = FALSE /\ phase' = "started"
    BY DEF Restart
  <1>3. /\ head \in 0..MaxSeq /\ MaxSeq \in Nat /\ DOMAIN entries \subseteq 1..head
        /\ through \in -1..MaxSeq /\ index \subseteq NoteSeq /\ IndexIsHonest
        /\ now \in 0..MaxNow /\ MaxNow \in Nat
    BY NotesAssumption DEF NotesInv, NotesTypeOK
  <1>4. through' \in -1..MaxSeq /\ index' \subseteq NoteSeq
    <2>1. through' \in {-1, through, head} /\ (index' = index \/ index' = DOMAIN entries)
      BY <1>1 DEF Reopen
    <2>2. -1 \in -1..MaxSeq /\ head \in -1..MaxSeq /\ 1..head \subseteq NoteSeq
      BY <1>3 DEF NoteSeq
    <2>. QED  BY <1>3, <2>1, <2>2
  <1>5. IndexIsHonest'
    BY <1>1, <1>2, <1>3 DEF Reopen, IndexIsHonest
  <1>6. fts' \in BOOLEAN
    BY <1>1 DEF Reopen
  <1>7. now' \in 0..MaxNow /\ now <= now'
    BY <1>2, <1>3
  <1>. QED  BY <1>2, <1>4, <1>5, <1>6, <1>7, NotesUntouched

\* Every step of the store keeps the invariant.
LEMMA NotesInvNext ==
    ASSUME NotesInv, [NotesNext]_noteVars
    PROVE  NotesInv'
  <1>1. CASE AnyNote
    BY <1>1, NoteKeepsInv DEF AnyNote
  <1>2. CASE ExpireNotes
    BY <1>2, ExpireKeepsInv
  <1>3. CASE DieExpiring
    BY <1>3, DieKeepsInv
  <1>4. CASE Restart
    BY <1>4, RestartKeepsInv
  <1>5. CASE Block \/ Recover \/ Tick \/ UNCHANGED noteVars
    <2>1. /\ UNCHANGED <<head, floor, entries, idem, fts, through, index, stored>>
          /\ phase' = phase /\ blocked' \in BOOLEAN
          /\ now' \in 0..MaxNow /\ now <= now'
      <3>1. now \in 0..MaxNow /\ MaxNow \in Nat /\ blocked \in BOOLEAN
        BY NotesAssumption DEF NotesInv, NotesTypeOK
      <3>2. CASE Block \/ Recover
        <4>1. /\ UNCHANGED <<head, floor, entries, idem, fts, through, index, stored>>
              /\ phase' = phase /\ now' = now /\ blocked' \in BOOLEAN
          BY <3>2, Zenon DEF Block, Recover
        <4>2. now' \in 0..MaxNow /\ now <= now'
          BY <3>1, <4>1
        <4>. QED  BY <4>1, <4>2
      <3>3. CASE Tick
        BY <3>1, <3>3 DEF Tick
      <3>4. CASE UNCHANGED noteVars
        BY <3>1, <3>4 DEF noteVars
      <3>. QED  BY <1>5, <3>2, <3>3, <3>4
    <2>2. IndexIsHonest'
      BY <2>1 DEF NotesInv, IndexIsHonest
    <2>3. fts' \in BOOLEAN /\ phase' \in {"down", "started", "swept"}
          /\ through' \in -1..MaxSeq /\ index' \subseteq NoteSeq
      BY <2>1 DEF NotesInv, NotesTypeOK
    <2>. QED  BY <2>1, <2>2, <2>3, NotesUntouched
  <1>. QED  BY <1>1, <1>2, <1>3, <1>4, <1>5 DEF NotesNext
----------------------------------------------------------------------------

\* The invariant of the store of notes.
THEOREM NotesInvariance == NotesSpec => []NotesInv
  <1>1. NotesInit => NotesInv
    BY NotesInvInit
  <1>2. NotesInv /\ [NotesNext]_noteVars => NotesInv'
    BY NotesInvNext
  <1>. QED  BY <1>1, <1>2, PTL DEF NotesSpec

\* A request stores at most one note however often it is repeated (note()).
THEOREM RequestsStoreOnce == NotesSpec => []OneNotePerRequest
  <1>1. NotesInv => OneNotePerRequest
    BY DEF NotesInv, RequestsAreSettled, OneNotePerRequest
  <1>. QED  BY <1>1, NotesInvariance, PTL

\* No row above the floor is ever missing (_forget()).
THEOREM FloorCoversRemoved == NotesSpec => []NothingMissingAboveFloor
  <1>1. NotesInv => NothingMissingAboveFloor
    BY DEF NotesInv
  <1>. QED  BY <1>1, NotesInvariance, PTL

\* An index that recall() trusts holds exactly the stored notes
\* (_reconcile_index(), _unindex()).
THEOREM TrustedIndexIsExact == NotesSpec => []IndexIsExact
  <1>1. NotesInv => IndexIsExact
    BY NotesAssumption DEF NotesInv, NotesTypeOK, IndexIsHonest, IndexUsable, IndexIsExact
  <1>. QED  BY <1>1, NotesInvariance, PTL
----------------------------------------------------------------------------
(* The readers.                                                             *)

\* A replacement is newer than what it replaces.
LinksForward ==
    \A s \in DOMAIN entries :
        entries[s].replaced_by # 0 => s < entries[s].replaced_by /\ entries[s].replaced_by <= head

\* In force: written up to at, not replaced by then, and not expired now.
InForce(s, at) ==
    /\ s \in DOMAIN entries /\ s <= at
    /\ entries[s].kind = "decision"
    /\ entries[s].replaced_by = 0 \/ entries[s].replaced_by > at
    /\ entries[s].expires = 0 \/ entries[s].expires > now

FrozenItems == UNION {[S -> Kinds] : S \in SUBSET NoteSeq}

FrozenRow == [consumer : Consumer, head : 0..MaxSeq, items : FrozenItems, issued : Nat,
              acked : BOOLEAN, at : Nat, paged : SUBSET NoteSeq]

\* The columns that the readers' proof relies on.
SyncShape ==
    /\ cursors = [c \in DOMAIN cursors |-> cursors[c]]
    /\ DOMAIN cursors \subseteq Consumer
    /\ \A c \in DOMAIN cursors : cursors[c] \in Cursor
    /\ frozen \in 0..MaxSnapshot
    /\ snapshots = [i \in DOMAIN snapshots |-> snapshots[i]]
    /\ DOMAIN snapshots \subseteq 1..frozen
    /\ \A i \in DOMAIN snapshots : snapshots[i] \in FrozenRow
    /\ job \in Request \cup {NoJob}
    /\ job # NoJob => job.consumer \in DOMAIN cursors
    /\ view \in [Consumer -> SUBSET NoteSeq]
    /\ received \in [Consumer -> SUBSET NoteSeq]

\* What a frozen snapshot says stays true at its head.
Faithful(row) ==
    /\ row.head <= head
    /\ DOMAIN row.items \subseteq 1..row.head
    /\ \A s \in DOMAIN entries : InForce(s, row.head) => s \in DOMAIN row.items
    /\ \A s \in DOMAIN row.items \cap DOMAIN entries :
          entries[s].replaced_by = 0 \/ entries[s].replaced_by > row.head

\* Its pages were sent in order and without a gap.
PagedInOrder(row) ==
    /\ row.paged \subseteq DOMAIN row.items
    /\ \A s \in DOMAIN row.items : Position(row.items, s) < row.issued => s \in row.paged

CursorOK(row) ==
    /\ row.seq <= row.issued /\ row.issued <= head
    /\ row.snapshot <= frozen
    /\ row.snapshot \in DOMAIN snapshots => row.issued <= snapshots[row.snapshot].head

\* A consumer that reads deltas, whether or not the floor has passed it.
Attached(c) ==
    /\ c \in DOMAIN cursors
    /\ cursors[c].snapshot = 0 /\ ~cursors[c].resnapshot
    /\ cursors[c].bootstrapped

\* Its view is right at its cursor, and it was sent everything up to issued.
ViewOK(c) ==
    /\ \A s \in DOMAIN entries : InForce(s, cursors[c].seq) => s \in view[c]
    /\ \A s \in view[c] \cap DOMAIN entries :
          entries[s].replaced_by \in 1..cursors[c].seq => entries[s].replaced_by \in view[c]
    /\ \A s \in (cursors[c].seq + 1)..cursors[c].issued : s \in received[c]
    /\ \A s \in received[c] : s <= cursors[c].seq => s \in view[c]

SnapshotsOK ==
    \A i \in DOMAIN snapshots : Faithful(snapshots[i]) /\ PagedInOrder(snapshots[i])
CursorsOK == \A c \in DOMAIN cursors : CursorOK(cursors[c])
ViewsOK == \A c \in Consumer : Attached(c) => ViewOK(c)

ReadersOK == SyncShape /\ SnapshotsOK /\ CursorsOK /\ ViewsOK

SyncInv == NotesInv /\ LinksForward /\ ReadersOK

\* What a step of the service may do to the notes, as far as readers are concerned:
\* rows appear above the head, a link is written once and points above it.
StoreStep ==
    /\ head <= head' /\ now <= now'
    /\ \A s \in DOMAIN entries' : s \in DOMAIN entries \/ s > head
    /\ \A s \in DOMAIN entries' \cap DOMAIN entries :
          /\ entries'[s].kind = entries[s].kind
          /\ entries'[s].expires = entries[s].expires
          /\ \/ entries'[s].replaced_by = entries[s].replaced_by
             \/ entries[s].replaced_by = 0 /\ entries'[s].replaced_by > head

\* A new note links the note it replaces, if that has no link yet.
LEMMA NoteIsStoreStep ==
    ASSUME NotesInv, LinksForward, NEW content, NEW key, NEW deadline,
           Note(content, key, deadline)
    PROVE  LinksForward' /\ StoreStep
  <1>1. /\ head \in Nat /\ head' = head + 1 /\ now \in Int /\ now' = now
        /\ DOMAIN entries \subseteq 1..head
        /\ \A s \in DOMAIN entries : entries[s] \in Entry
    BY NotesAssumption DEF NotesInv, NotesTypeOK, Note
  <1>2. /\ DOMAIN entries' = DOMAIN entries \cup {head + 1}
        /\ entries'[head + 1].replaced_by = 0
        /\ \A s \in DOMAIN entries : entries'[s] = Linked(content.target, head + 1)[s]
    BY <1>1 DEF Note, WithEntry
  <1>3. ASSUME NEW s \in DOMAIN entries
        PROVE  /\ entries'[s].kind = entries[s].kind
               /\ entries'[s].expires = entries[s].expires
               /\ \/ entries'[s].replaced_by = entries[s].replaced_by
                  \/ entries[s].replaced_by = 0 /\ entries'[s].replaced_by = head + 1
    <2>1. CASE s = content.target /\ entries[s].replaced_by = 0
      <3>1. entries'[s] = [entries[s] EXCEPT !.replaced_by = head + 1] /\ entries[s] \in Entry
        BY <1>1, <1>2, <2>1 DEF Linked
      <3>. QED  BY <2>1, <3>1 DEF Entry
    <2>2. CASE ~(s = content.target /\ entries[s].replaced_by = 0)
      BY <1>2, <2>2 DEF Linked
    <2>. QED  BY <2>1, <2>2
  <1>4. StoreStep
    BY <1>1, <1>2, <1>3 DEF StoreStep
  <1>5. LinksForward'
    <2>. SUFFICES ASSUME NEW s \in DOMAIN entries', entries'[s].replaced_by # 0
                  PROVE  s < entries'[s].replaced_by /\ entries'[s].replaced_by <= head'
      BY DEF LinksForward
    <2>1. s \in DOMAIN entries /\ s \in Int /\ entries[s].replaced_by \in Int /\ s <= head
      BY <1>1, <1>2 DEF Entry
    <2>2. entries[s].replaced_by # 0 =>
             s < entries[s].replaced_by /\ entries[s].replaced_by <= head
      BY <2>1 DEF LinksForward
    <2>3. entries'[s].replaced_by = entries[s].replaced_by \/ entries'[s].replaced_by = head + 1
      BY <1>3, <2>1
    <2>. QED  BY <1>1, <2>1, <2>2, <2>3
  <1>. QED  BY <1>4, <1>5

\* Expiry only removes rows.
LEMMA ForgetIsStoreStep ==
    ASSUME NotesInv, LinksForward, NEW gone, NEW maintained, Forget(gone, maintained),
           UNCHANGED <<now, head>>
    PROVE  LinksForward' /\ StoreStep
  <1>1. /\ DOMAIN entries' \subseteq DOMAIN entries
        /\ \A s \in DOMAIN entries' : entries'[s] = entries[s]
    BY DEF Forget
  <1>2. head' = head /\ now' = now /\ head \in Int /\ now \in Int
    BY NotesAssumption DEF NotesInv, NotesTypeOK
  <1>3. LinksForward'
    BY <1>1, <1>2 DEF LinksForward
  <1>4. StoreStep
    BY <1>1, <1>2 DEF StoreStep
  <1>. QED  BY <1>3, <1>4

\* All other steps leave the notes alone.
LEMMA QuietIsStoreStep ==
    ASSUME NotesInv, LinksForward, UNCHANGED <<head, entries>>, now <= now'
    PROVE  LinksForward' /\ StoreStep
  <1>1. head \in Int
    BY DEF NotesInv, NotesTypeOK
  <1>2. LinksForward'
    BY DEF LinksForward
  <1>3. StoreStep
    BY <1>1 DEF StoreStep
  <1>. QED  BY <1>2, <1>3

\* Every step of the service keeps the store's invariant and is a store step.
LEMMA ServiceStoreStep ==
    ASSUME NotesInv, LinksForward, [SyncNext]_vars
    PROVE  NotesInv' /\ LinksForward' /\ StoreStep
  <1>0. now \in 0..MaxNow /\ MaxNow \in Nat /\ now <= now
    BY NotesAssumption DEF NotesInv, NotesTypeOK
  <1>1. CASE UNCHANGED noteVars
    <2>1. NotesInv'
      BY <1>1, NotesInvNext
    <2>2. UNCHANGED <<now, head, entries>>
      BY <1>1 DEF noteVars
    <2>. QED  BY <1>0, <2>1, <2>2, QuietIsStoreStep
  <1>2. CASE Abort
    <2>1. /\ UNCHANGED <<now, head, floor, entries, idem, fts, through, index, phase, stored>>
          /\ blocked' \in BOOLEAN
      BY <1>2 DEF Abort, NotesInv, NotesTypeOK
    <2>2. /\ fts' \in BOOLEAN /\ phase' \in {"down", "started", "swept"}
          /\ through' \in -1..MaxSeq /\ index' \subseteq NoteSeq /\ IndexIsHonest'
      BY <2>1 DEF NotesInv, NotesTypeOK, IndexIsHonest
    <2>3. now' \in 0..MaxNow /\ now <= now'
      BY <1>0, <2>1
    <2>4. NotesInv'
      BY <2>1, <2>2, <2>3, NotesUntouched
    <2>. QED  BY <2>1, <2>3, <2>4, QuietIsStoreStep
  <1>3. CASE Expire
    <2>1. ExpireNotes
      BY <1>3 DEF Expire
    <2>2. NotesInv'
      BY <2>1, ExpireKeepsInv
    <2>3. PICK maintained \in BOOLEAN : Forget(Lapsed, maintained)
      BY <2>1 DEF ExpireNotes
    <2>4. UNCHANGED <<now, head>>
      BY <2>1 DEF ExpireNotes
    <2>. QED  BY <2>2, <2>3, <2>4, ForgetIsStoreStep
  <1>4. CASE RestartService
    <2>1. Restart
      BY <1>4 DEF RestartService
    <2>2. NotesInv'
      BY <2>1, RestartKeepsInv
    <2>3. UNCHANGED <<now, head, entries>>
      BY <2>1 DEF Restart
    <2>. QED  BY <1>0, <2>2, <2>3, QuietIsStoreStep
  <1>5. CASE NotesOnly
    <2>1. CASE AnyNote
      <3>1. NotesInv'
        BY <2>1, NotesInvNext DEF NotesNext
      <3>2. \E content, key, deadline : Note(content, key, deadline)
        BY <2>1 DEF AnyNote
      <3>. QED  BY <3>1, <3>2, NoteIsStoreStep
    <2>2. CASE DieExpiring
      <3>1. NotesInv'
        BY <2>2, DieKeepsInv
      <3>2. UNCHANGED <<now, head>>
        BY <2>2 DEF DieExpiring
      <3>3. CASE GiveUpIndex
        BY <1>0, <3>1, <3>2, <3>3, QuietIsStoreStep DEF GiveUpIndex
      <3>4. CASE \E gone, maintained : Forget(gone, maintained)
        BY <3>1, <3>2, <3>4, ForgetIsStoreStep
      <3>. QED  BY <2>2, <3>3, <3>4 DEF DieExpiring
    <2>3. CASE Block \/ Recover \/ Tick
      <3>1. NotesInv'
        BY <2>3, NotesInvNext DEF NotesNext
      <3>2. UNCHANGED <<head, entries>> /\ (now' = now \/ now' = now + 1)
        BY <2>3 DEF Block, Recover, Tick
      <3>3. now <= now'
        BY <1>0, <3>2
      <3>. QED  BY <3>1, <3>2, <3>3, QuietIsStoreStep
    <2>. QED  BY <1>5, <2>1, <2>2, <2>3 DEF NotesOnly
  <1>6. CASE \/ \E r \in Request : Enter(r)
             \/ ClearSnapshot \/ Freeze \/ SendPage \/ SendDelta \/ AckSnapshot \/ AckThrough
    <2>1. UNCHANGED noteVars
      BY <1>6 DEF Enter, ClearSnapshot, Freeze, SendPage, SendDelta, AckSnapshot, AckThrough
    <2>. QED  BY <1>1, <2>1
  <1>7. CASE UNCHANGED vars
    <2>1. UNCHANGED noteVars
      BY <1>7 DEF vars
    <2>. QED  BY <1>1, <2>1
  <1>. QED  BY <1>2, <1>3, <1>4, <1>5, <1>6, <1>7 DEF SyncNext

\* A snapshot holds finitely many notes of the two kinds.
LEMMA ItemsFacts ==
    ASSUME NEW items \in FrozenItems
    PROVE  /\ DOMAIN items \subseteq NoteSeq /\ DOMAIN items \subseteq Int
           /\ \A x \in DOMAIN items : items[x] \in {"decision", "finding"}
           /\ IsFiniteSet(DOMAIN items)
  <1>1. PICK S \in SUBSET NoteSeq : items \in [S -> Kinds]
    BY Zenon DEF FrozenItems
  <1>2. DOMAIN items \in SUBSET NoteSeq /\ \A x \in DOMAIN items : items[x] \in {"decision", "finding"}
    BY <1>1, NotesAssumption
  <1>3. IsFiniteSet(NoteSeq)
    BY NotesAssumption, FS_Interval DEF NoteSeq
  <1>4. IsFiniteSet(DOMAIN items)
    BY <1>2, <1>3, FS_Subset
  <1>. QED  BY <1>2, <1>4 DEF NoteSeq

\* A row that precedes another one stands before it in the snapshot.
LEMMA PositionsRise ==
    ASSUME NEW items \in FrozenItems, NEW s \in DOMAIN items, NEW t \in DOMAIN items,
           Precedes(items, t, s)
    PROVE  Position(items, t) < Position(items, s)
  <1>. DEFINE Above(x) == {y \in DOMAIN items : Precedes(items, y, x)}
  <1>1. \A x \in DOMAIN items : items[x] \in {"decision", "finding"}
    BY ItemsFacts
  <1>2. IsFiniteSet(DOMAIN items) /\ DOMAIN items \subseteq Int
    BY ItemsFacts
  <1>3. Above(t) \in SUBSET Above(s)
    <2>. SUFFICES ASSUME NEW y \in DOMAIN items, Precedes(items, y, t)
                  PROVE  Precedes(items, y, s)
      OBVIOUS
    <2>. QED  BY <1>1, <1>2 DEF Precedes
  <1>4. t \in Above(s) /\ t \notin Above(t)
    BY <1>2 DEF Precedes
  <1>5. Above(s) \in SUBSET DOMAIN items
    OBVIOUS
  <1>6. IsFiniteSet(Above(s))
    BY <1>2, <1>5, FS_Subset
  <1>. HIDE DEF Above
  <1>7. /\ Cardinality(Above(t)) <= Cardinality(Above(s))
        /\ Cardinality(Above(t)) # Cardinality(Above(s))
        /\ IsFiniteSet(Above(t))
    BY <1>3, <1>4, <1>6, FS_Subset
  <1>8. Cardinality(Above(t)) \in Nat /\ Cardinality(Above(s)) \in Nat
    BY <1>6, <1>7, FS_CardinalityType
  <1>9. Cardinality(Above(t)) < Cardinality(Above(s))
    BY <1>7, <1>8
  <1>. QED  BY <1>9 DEF Position, Above

\* Positions number the rows of a snapshot from 0: they are below its size, no two rows
\* share one, so a page holds at most PageLimit rows.
LEMMA PageFacts ==
    ASSUME NEW items \in FrozenItems, NEW token \in Nat
    PROVE  /\ Cardinality(DOMAIN items) \in Nat
           /\ \A s \in DOMAIN items :
                 Position(items, s) \in Nat /\ Position(items, s) < Cardinality(DOMAIN items)
           /\ Cardinality(PageFrom(items, token)) \in 0..PageLimit
  <1>1. \A x \in DOMAIN items : items[x] \in {"decision", "finding"}
    BY ItemsFacts
  <1>2. IsFiniteSet(DOMAIN items) /\ DOMAIN items \subseteq Int
    BY ItemsFacts
  <1>3. Cardinality(DOMAIN items) \in Nat
    BY <1>2, FS_CardinalityType
  <1>4. ASSUME NEW s \in DOMAIN items
        PROVE  Position(items, s) \in Nat /\ Position(items, s) < Cardinality(DOMAIN items)
    <2>. DEFINE Above == {y \in DOMAIN items : Precedes(items, y, s)}
    <2>1. Above \in SUBSET DOMAIN items /\ s \notin Above
      BY <1>2 DEF Precedes
    <2>. HIDE DEF Above
    <2>2. /\ Cardinality(Above) <= Cardinality(DOMAIN items)
          /\ Cardinality(Above) # Cardinality(DOMAIN items)
          /\ IsFiniteSet(Above)
      BY <1>2, <2>1, FS_Subset
    <2>3. Cardinality(Above) \in Nat
      BY <2>2, FS_CardinalityType
    <2>4. Cardinality(Above) < Cardinality(DOMAIN items)
      BY <1>3, <2>2, <2>3
    <2>. QED  BY <2>3, <2>4 DEF Position, Above
  <1>5. Cardinality(PageFrom(items, token)) \in 0..PageLimit
    <2>. DEFINE page == PageFrom(items, token)
                last == token + PageLimit - 1
                place == [s \in page |-> Position(items, s)]
    <2>1. PageLimit \in Nat \ {0} /\ last \in Int
      BY SyncAssumption
    <2>2. page \in SUBSET DOMAIN items /\ \A s \in page : Position(items, s) \in token..last
      BY DEF PageFrom
    <2>3. \A s, t \in page : Position(items, s) = Position(items, t) => s = t
      <3>. SUFFICES ASSUME NEW s \in page, NEW t \in page, s # t
                    PROVE  Position(items, s) # Position(items, t)
        OBVIOUS
      <3>1. s \in DOMAIN items /\ t \in DOMAIN items
        BY <2>2
      <3>2. Precedes(items, t, s) \/ Precedes(items, s, t)
        BY <1>1, <1>2, <3>1 DEF Precedes
      <3>3. Position(items, s) \in Nat /\ Position(items, t) \in Nat
        BY <1>4, <3>1
      <3>4. Position(items, t) < Position(items, s) \/ Position(items, s) < Position(items, t)
        BY <3>1, <3>2, PositionsRise
      <3>. QED  BY <3>3, <3>4
    <2>. HIDE DEF page, last
    <2>4. place \in Injection(page, token..last)
      BY <2>2, <2>3 DEF Injection, IsInjective
    <2>5. IsFiniteSet(token..last) /\ Cardinality(token..last) = PageLimit
      <3>1. IsFiniteSet(token..last) /\ Cardinality(token..last) =
               IF token > last THEN 0 ELSE last - token + 1
        BY <2>1, FS_Interval
      <3>. QED  BY <2>1, <3>1 DEF last
    <2>6. Cardinality(page) <= PageLimit /\ IsFiniteSet(page)
      <3>. HIDE DEF place
      <3>. QED  BY <2>4, <2>5, FS_Injection
    <2>7. Cardinality(page) \in Nat
      BY <2>6, FS_CardinalityType
    <2>. QED  BY <2>1, <2>6, <2>7 DEF page
  <1>. QED  BY <1>3, <1>4, <1>5

\* A delta starts above the cursor and goes on without a gap, because the floor has
\* not passed the cursor.
LEMMA DeltaFacts ==
    ASSUME NotesInv, NEW seq \in Nat, NEW issued \in Nat, floor <= seq, seq <= issued, issued <= head
    PROVE  LET top == Max({issued} \cup DeltaPage(seq)) IN
           /\ DeltaPage(seq) \subseteq (seq + 1)..head
           /\ top \in issued..head
           /\ \A s \in (seq + 1)..top : s <= issued \/ s \in DeltaPage(seq)
  <1>. DEFINE rows == {s \in DOMAIN entries : s > seq}
              Before(s) == {t \in rows : t < s}
              page == DeltaPage(seq)
              top == Max({issued} \cup page)
  <1>1. /\ head \in Nat /\ floor \in Nat /\ DOMAIN entries \subseteq 1..head
        /\ (floor + 1)..head \subseteq DOMAIN entries /\ PageLimit \in Nat
    BY SyncAssumption DEF NotesInv, NotesTypeOK, NothingMissingAboveFloor
  <1>2. page = {s \in rows : Cardinality(Before(s)) < PageLimit}
    BY DEF DeltaPage
  <1>3. rows \subseteq (seq + 1)..head /\ (seq + 1)..head \subseteq rows
    BY <1>1
  <1>4. \A s \in rows : IsFiniteSet(Before(s)) /\ Cardinality(Before(s)) \in Nat
    <2>. SUFFICES ASSUME NEW s \in rows
                  PROVE  IsFiniteSet(Before(s)) /\ Cardinality(Before(s)) \in Nat
      OBVIOUS
    <2>1. IsFiniteSet((seq + 1)..head)
      BY <1>1, FS_Interval
    <2>2. Before(s) \in SUBSET ((seq + 1)..head)
      BY <1>3
    <2>. QED  BY <2>1, <2>2, FS_Subset, FS_CardinalityType
  <1>. HIDE DEF rows
  <1>5. page \subseteq (seq + 1)..head
    BY <1>2, <1>3
  <1>6. {issued} \cup page \in SUBSET (0..head) /\ {issued} \cup page # {}
    BY <1>1, <1>5
  <1>7. top \in {issued} \cup page /\ \A x \in {issued} \cup page : x <= top
    BY <1>1, <1>6, MaxOfRange
  <1>. HIDE DEF page, top
  <1>8. top \in issued..head
    BY <1>1, <1>6, <1>7
  <1>9. ASSUME NEW s \in (seq + 1)..top, ~(s <= issued)
        PROVE  s \in page
    <2>0. top \in Int /\ s \in Int /\ head \in Int /\ issued <= top /\ top <= head
      BY <1>1, <1>8
    <2>1. top \in page /\ s <= top /\ s \in (seq + 1)..head
      BY <1>7, <1>9, <2>0
    <2>2. s \in rows /\ top \in rows /\ Cardinality(Before(top)) < PageLimit
      BY <1>2, <1>3, <2>1
    <2>3. Before(s) \in SUBSET Before(top)
      <3>1. \A t \in rows : t \in Int /\ (t < s => t < top)
        BY <1>3, <2>0, <2>1
      <3>. QED  BY <3>1
    <2>4. Cardinality(Before(s)) <= Cardinality(Before(top))
      BY <1>4, <2>2, <2>3, FS_Subset
    <2>5. Cardinality(Before(s)) < PageLimit
      BY <1>1, <1>4, <2>2, <2>4
    <2>. QED  BY <1>2, <2>2, <2>5
  <1>. QED  BY <1>5, <1>8, <1>9 DEF page, top

\* No step changes what was in force, or replaced, at a point behind the head.
LEMMA PastIsKept ==
    ASSUME NotesInv, StoreStep, NotesInv', NEW at \in Nat, at <= head, NEW s \in DOMAIN entries',
           s <= at
    PROVE  /\ s \in DOMAIN entries
           /\ InForce(s, at)' => InForce(s, at)
           /\ \/ entries'[s].replaced_by = entries[s].replaced_by
              \/ entries[s].replaced_by = 0 /\ entries'[s].replaced_by > at
  <1>1. /\ head \in Nat /\ now \in Int /\ now' \in Int /\ DOMAIN entries' \subseteq Int
        /\ \A t \in DOMAIN entries : entries[t] \in Entry
        /\ \A t \in DOMAIN entries' : entries'[t] \in Entry
        /\ DOMAIN entries \subseteq Int /\ Lifetime \subseteq Int /\ MaxSeq \in Int
    BY NotesAssumption DEF NotesInv, NotesTypeOK
  <1>2. s \in DOMAIN entries
    BY <1>1 DEF StoreStep
  <1>3. /\ entries[s].expires \in Int
        /\ entries[s].replaced_by \in Int /\ entries'[s].replaced_by \in Int
    <2>1. entries[s] \in Entry /\ entries'[s] \in Entry
      BY <1>1, <1>2
    <2>2. /\ entries[s].expires \in Lifetime
          /\ entries[s].replaced_by \in 0..MaxSeq /\ entries'[s].replaced_by \in 0..MaxSeq
      BY <2>1 DEF Entry
    <2>3. Lifetime \subseteq Int /\ 0..MaxSeq \subseteq Int
      BY <1>1
    <2>. QED  BY <2>2, <2>3
  <1>4. /\ entries'[s].kind = entries[s].kind
        /\ entries'[s].expires = entries[s].expires
        /\ \/ entries'[s].replaced_by = entries[s].replaced_by
           \/ entries[s].replaced_by = 0 /\ entries'[s].replaced_by > at
        /\ now <= now'
    BY <1>1, <1>2, <1>3 DEF StoreStep
  <1>5. InForce(s, at)' => InForce(s, at)
    BY <1>1, <1>2, <1>3, <1>4 DEF InForce
  <1>. QED  BY <1>2, <1>4, <1>5

\* So a snapshot that keeps its items stays faithful,
LEMMA FaithfulIsKept ==
    ASSUME NotesInv, StoreStep, NotesInv', NEW i,
           snapshots[i] \in FrozenRow, Faithful(snapshots[i]),
           snapshots'[i].head = snapshots[i].head, snapshots'[i].items = snapshots[i].items
    PROVE  Faithful(snapshots[i])'
  <1>. DEFINE at == snapshots[i].head
              all == DOMAIN snapshots[i].items
  <1>1. /\ at \in Nat /\ at <= head /\ head \in Int /\ head' \in Int /\ head <= head'
        /\ all \subseteq 1..at
    BY NotesAssumption DEF FrozenRow, Faithful, StoreStep, NotesInv, NotesTypeOK
  <1>2. at <= head'
    BY <1>1
  <1>3. ASSUME NEW s \in DOMAIN entries', InForce(s, at)'
        PROVE  s \in all
    <2>1. s <= at
      BY <1>3 DEF InForce
    <2>2. s \in DOMAIN entries /\ InForce(s, at)
      BY <1>1, <1>3, <2>1, PastIsKept
    <2>. QED  BY <2>2 DEF Faithful
  <1>4. ASSUME NEW s \in all \cap DOMAIN entries'
        PROVE  entries'[s].replaced_by = 0 \/ entries'[s].replaced_by > at
    <2>1. s <= at
      BY <1>1
    <2>2. /\ s \in DOMAIN entries
          /\ \/ entries'[s].replaced_by = entries[s].replaced_by
             \/ entries[s].replaced_by = 0 /\ entries'[s].replaced_by > at
      BY <1>1, <2>1, PastIsKept
    <2>3. entries[s].replaced_by = 0 \/ entries[s].replaced_by > at
      BY <2>2 DEF Faithful
    <2>. QED  BY <2>2, <2>3
  <1>. QED  BY <1>1, <1>2, <1>3, <1>4 DEF Faithful, InForce

\* and the view of a reader that does nothing stays right.
LEMMA ViewIsKept ==
    ASSUME NotesInv, StoreStep, NotesInv', LinksForward', NEW c, c \in DOMAIN cursors,
           cursors[c] \in Cursor, CursorOK(cursors[c]), ViewOK(c),
           cursors'[c].seq = cursors[c].seq, cursors'[c].issued = cursors[c].issued,
           view'[c] = view[c], received'[c] = received[c], view[c] \subseteq NoteSeq
    PROVE  ViewOK(c)'
  <1>. DEFINE at == cursors[c].seq
  <1>1. /\ at \in Nat /\ at <= head /\ head \in Int
    BY NotesAssumption DEF Cursor, CursorOK, NotesInv, NotesTypeOK
  <1>2. ASSUME NEW s \in DOMAIN entries', InForce(s, at)'
        PROVE  s \in view[c]
    <2>1. s <= at
      BY <1>2 DEF InForce
    <2>2. s \in DOMAIN entries /\ InForce(s, at)
      BY <1>1, <1>2, <2>1, PastIsKept
    <2>. QED  BY <2>2 DEF ViewOK
  <1>3. ASSUME NEW s \in view[c] \cap DOMAIN entries', entries'[s].replaced_by \in 1..at
        PROVE  entries'[s].replaced_by \in view[c]
    <2>1. s < entries'[s].replaced_by /\ s \in Int
      BY <1>3 DEF LinksForward, NotesInv, NotesTypeOK
    <2>2. s <= at
      BY <1>1, <1>3, <2>1
    <2>3. /\ s \in DOMAIN entries
          /\ \/ entries'[s].replaced_by = entries[s].replaced_by
             \/ entries[s].replaced_by = 0 /\ entries'[s].replaced_by > at
      BY <1>1, <2>2, PastIsKept
    <2>4. entries'[s].replaced_by = entries[s].replaced_by
      BY <1>1, <1>3, <2>3
    <2>. QED  BY <1>3, <2>3, <2>4 DEF ViewOK
  <1>. QED  BY <1>1, <1>2, <1>3 DEF ViewOK, InForce

\* A snapshot that is not touched keeps its part of the invariant,
LEMMA SnapshotIsKept ==
    ASSUME SyncInv, StoreStep, NotesInv', NEW i \in DOMAIN snapshots, snapshots'[i] = snapshots[i]
    PROVE  Faithful(snapshots[i])' /\ PagedInOrder(snapshots[i])'
  <1>1. snapshots[i] \in FrozenRow /\ Faithful(snapshots[i]) /\ PagedInOrder(snapshots[i]) /\ NotesInv
    BY DEF SyncInv, ReadersOK, SyncShape, SnapshotsOK
  <1>2. Faithful(snapshots[i])'
    BY <1>1, FaithfulIsKept
  <1>3. PagedInOrder(snapshots[i])'
    BY <1>1 DEF PagedInOrder
  <1>. QED  BY <1>2, <1>3

\* a cursor as well, where its snapshot's head stays the same,
LEMMA CursorIsKept ==
    ASSUME SyncInv, StoreStep, NotesInv', NEW c \in DOMAIN cursors,
           cursors'[c].seq = cursors[c].seq, cursors'[c].issued = cursors[c].issued,
           cursors'[c].snapshot \in {0, cursors[c].snapshot},
           frozen' \in Nat, frozen <= frozen', DOMAIN snapshots' \subseteq Nat \ {0},
           \A i \in DOMAIN snapshots' : i <= frozen =>
               i \in DOMAIN snapshots /\ snapshots'[i].head = snapshots[i].head
    PROVE  CursorOK(cursors[c])'
  <1>1. /\ cursors[c] \in Cursor /\ CursorOK(cursors[c]) /\ frozen \in Nat
        /\ head \in Int /\ head' \in Int /\ head <= head'
    BY NotesAssumption, SyncAssumption
       DEF SyncInv, ReadersOK, SyncShape, CursorsOK, NotesInv, NotesTypeOK, StoreStep
  <1>2. cursors[c].seq \in Int /\ cursors[c].issued \in Int /\ cursors[c].snapshot \in Nat
    BY <1>1, NotesAssumption, SyncAssumption DEF Cursor
  <1>3. cursors'[c].snapshot \in DOMAIN snapshots' =>
           /\ cursors'[c].snapshot \in DOMAIN snapshots
           /\ cursors'[c].snapshot = cursors[c].snapshot
           /\ snapshots'[cursors'[c].snapshot].head = snapshots[cursors[c].snapshot].head
    BY <1>1, <1>2 DEF CursorOK
  <1>4. /\ cursors'[c].seq <= cursors'[c].issued /\ cursors'[c].issued <= head'
        /\ cursors'[c].snapshot <= frozen'
    BY <1>1, <1>2 DEF CursorOK
  <1>. QED  BY <1>1, <1>3, <1>4 DEF CursorOK

\* and a view whose reader stays where it is.
LEMMA AttachedIsKept ==
    ASSUME SyncInv, StoreStep, NotesInv', LinksForward', NEW c \in DOMAIN cursors, Attached(c),
           cursors'[c].seq = cursors[c].seq, cursors'[c].issued = cursors[c].issued,
           view'[c] = view[c], received'[c] = received[c]
    PROVE  ViewOK(c)'
  <1>1. c \in Consumer /\ cursors[c] \in Cursor /\ CursorOK(cursors[c]) /\ ViewOK(c) /\ NotesInv
        /\ view[c] \subseteq NoteSeq
    BY DEF SyncInv, ReadersOK, SyncShape, CursorsOK, ViewsOK
  <1>. QED  BY <1>1, ViewIsKept

\* A step that only cuts off the request keeps the readers' part.
LEMMA ReadersUntouched ==
    ASSUME SyncInv, StoreStep, NotesInv', LinksForward', job' \in {job, NoJob},
           UNCHANGED <<cursors, snapshots, frozen, view, received>>
    PROVE  ReadersOK'
  <1>1. SyncShape'
    BY DEF SyncInv, ReadersOK, SyncShape
  <1>2. SnapshotsOK'
    BY SnapshotIsKept DEF SnapshotsOK
  <1>3. CursorsOK'
    <2>1. frozen' \in Nat /\ frozen <= frozen' /\ DOMAIN snapshots' \subseteq Nat \ {0}
      BY SyncAssumption DEF SyncInv, ReadersOK, SyncShape
    <2>. QED  BY <2>1, CursorIsKept DEF CursorsOK
  <1>4. ViewsOK'
    <2>. SUFFICES ASSUME NEW c \in Consumer, Attached(c)'
                  PROVE  ViewOK(c)'
      BY DEF ViewsOK
    <2>1. c \in DOMAIN cursors /\ Attached(c)
      BY DEF Attached
    <2>. QED  BY <2>1, AttachedIsKept
  <1>. QED  BY <1>1, <1>2, <1>3, <1>4 DEF ReadersOK

\* What SetCursor() writes.
LEMMA CursorSet ==
    ASSUME SyncShape, NEW c \in DOMAIN cursors, NEW row \in Cursor, SetCursor(c, row)
    PROVE  /\ cursors' = [d \in DOMAIN cursors' |-> cursors'[d]]
           /\ DOMAIN cursors' = DOMAIN cursors
           /\ \A d \in DOMAIN cursors' : cursors'[d] \in Cursor
           /\ cursors'[c] = row
           /\ \A d \in DOMAIN cursors : d # c => cursors'[d] = cursors[d]
  BY DEF SyncShape, SetCursor

\* The consumer of a running request is registered.
LEMMA ServedIsRegistered ==
    ASSUME SyncShape, job # NoJob
    PROVE  /\ job \in Request /\ job.consumer \in DOMAIN cursors /\ job.consumer \in Consumer
           /\ cursors[job.consumer] \in Cursor /\ job.n \in Nat /\ job.id \in Nat
  <1>1. job \in Request /\ job.consumer \in DOMAIN cursors
    BY DEF SyncShape
  <1>2. job.n \in 0..MaxSeq /\ job.id \in 0..MaxSnapshot
    BY <1>1, NotesAssumption, SyncAssumption DEF Request, SnapshotId
  <1>. QED  BY <1>1, <1>2 DEF SyncShape

\* A request begins: its consumer is registered, with nothing read yet.
LEMMA EnterKeepsReaders ==
    ASSUME SyncInv, StoreStep, NotesInv', LinksForward', NEW r \in Request, Enter(r)
    PROVE  ReadersOK'
  <1>. DEFINE c == r.consumer
  <1>0. /\ SyncShape /\ c \in Consumer /\ now \in 0..MaxNow /\ UNCHANGED <<snapshots, frozen>>
        /\ job' = r /\ MaxSeq \in Nat /\ MaxSnapshot \in Nat
        /\ frozen' \in Nat /\ frozen <= frozen' /\ DOMAIN snapshots' \subseteq Nat \ {0}
    BY NotesAssumption, SyncAssumption
       DEF SyncInv, ReadersOK, SyncShape, Enter, Request, NotesInv, NotesTypeOK
  <1>1. SnapshotsOK'
    BY <1>0, SnapshotIsKept DEF SnapshotsOK
  <1>2. CASE c \in DOMAIN cursors
    <2>. DEFINE row == [cursors[c] EXCEPT !.updated = now]
    <2>1. SetCursor(c, row) /\ UNCHANGED <<view, received>>
      BY <1>2 DEF Enter
    <2>2. /\ row \in Cursor /\ row.seq = cursors[c].seq /\ row.issued = cursors[c].issued
          /\ row.snapshot = cursors[c].snapshot /\ row.resnapshot = cursors[c].resnapshot
          /\ row.bootstrapped = cursors[c].bootstrapped
      BY <1>0, <1>2 DEF SyncShape, Cursor
    <2>. HIDE DEF row, c
    <2>3. /\ cursors' = [d \in DOMAIN cursors' |-> cursors'[d]]
          /\ DOMAIN cursors' = DOMAIN cursors
          /\ \A d \in DOMAIN cursors' : cursors'[d] \in Cursor
          /\ cursors'[c] = row
          /\ \A d \in DOMAIN cursors : d # c => cursors'[d] = cursors[d]
      BY <1>0, <1>2, <2>1, <2>2, CursorSet
    <2>4. \A d \in DOMAIN cursors :
             /\ cursors'[d].seq = cursors[d].seq /\ cursors'[d].issued = cursors[d].issued
             /\ cursors'[d].snapshot = cursors[d].snapshot
             /\ cursors'[d].resnapshot = cursors[d].resnapshot
             /\ cursors'[d].bootstrapped = cursors[d].bootstrapped
      BY <2>2, <2>3
    <2>5. SyncShape'
      <3>1. job' \in Request \cup {NoJob} /\ job'.consumer \in DOMAIN cursors'
        BY <1>0, <1>2, <2>3 DEF c
      <3>. QED  BY <1>0, <2>1, <2>3, <3>1 DEF SyncShape
    <2>6. CursorsOK'
      BY <1>0, <2>3, <2>4, CursorIsKept DEF CursorsOK
    <2>7. ViewsOK'
      <3>. SUFFICES ASSUME NEW d \in Consumer, Attached(d)'
                    PROVE  ViewOK(d)'
        BY DEF ViewsOK
      <3>1. d \in DOMAIN cursors /\ Attached(d)
        BY <2>3, <2>4 DEF Attached
      <3>. QED  BY <2>1, <2>4, <3>1, AttachedIsKept
    <2>. QED  BY <1>1, <2>5, <2>6, <2>7 DEF ReadersOK
  <1>3. CASE c \notin DOMAIN cursors
    <2>1. /\ cursors' = [d \in DOMAIN cursors \cup {c} |->
                           IF d = c THEN NewCursor ELSE cursors[d]]
          /\ view' = [view EXCEPT ![c] = {}]
          /\ received' = [received EXCEPT ![c] = {}]
      BY <1>3 DEF Enter
    <2>2. /\ NewCursor \in Cursor /\ NewCursor.seq = 0 /\ NewCursor.issued = 0
          /\ NewCursor.snapshot = 0 /\ NewCursor.bootstrapped = FALSE
      BY <1>0 DEF NewCursor, Cursor
    <2>. HIDE DEF c
    <2>3. /\ cursors' = [d \in DOMAIN cursors' |-> cursors'[d]]
          /\ DOMAIN cursors' = DOMAIN cursors \cup {c}
          /\ cursors'[c] = NewCursor
          /\ \A d \in DOMAIN cursors : cursors'[d] = cursors[d]
      BY <1>3, <2>1
    <2>4. SyncShape'
      <3>1. /\ \A d \in DOMAIN cursors' : cursors'[d] \in Cursor
            /\ DOMAIN cursors' \subseteq Consumer
        BY <1>0, <2>2, <2>3 DEF SyncShape
      <3>2. view' \in [Consumer -> SUBSET NoteSeq] /\ received' \in [Consumer -> SUBSET NoteSeq]
        BY <1>0, <2>1 DEF SyncShape
      <3>3. job' \in Request \cup {NoJob} /\ job'.consumer \in DOMAIN cursors'
        BY <1>0, <2>3 DEF c
      <3>. QED  BY <1>0, <2>3, <3>1, <3>2, <3>3 DEF SyncShape
    <2>5. CursorsOK'
      <3>. SUFFICES ASSUME NEW d \in DOMAIN cursors' PROVE CursorOK(cursors[d])'
        BY DEF CursorsOK
      <3>1. CASE d \in DOMAIN cursors
        BY <1>0, <2>3, <3>1, CursorIsKept
      <3>2. CASE d = c
        <4>1. 0 <= head' /\ 0 \notin DOMAIN snapshots'
          BY <1>0 DEF NotesInv, NotesTypeOK
        <4>. QED  BY <1>0, <2>2, <2>3, <3>2, <4>1 DEF CursorOK
      <3>. QED  BY <2>3, <3>1, <3>2
    <2>6. ViewsOK'
      <3>. SUFFICES ASSUME NEW d \in Consumer, Attached(d)'
                    PROVE  ViewOK(d)'
        BY DEF ViewsOK
      <3>1. d # c /\ d \in DOMAIN cursors /\ Attached(d)
        BY <2>2, <2>3 DEF Attached
      <3>2. view'[d] = view[d] /\ received'[d] = received[d]
        BY <1>0, <2>1, <3>1 DEF SyncShape
      <3>. QED  BY <2>3, <3>1, <3>2, AttachedIsKept
    <2>. QED  BY <1>1, <2>4, <2>5, <2>6 DEF ReadersOK
  <1>. QED  BY <1>2, <1>3

\* sync() gives up an unusable snapshot: the consumer is owed a new one.
LEMMA ClearKeepsReaders ==
    ASSUME SyncInv, StoreStep, NotesInv', LinksForward', ClearSnapshot
    PROVE  ReadersOK'
  <1>. DEFINE c == job.consumer
              row == [cursors[c] EXCEPT !.snapshot = 0, !.resnapshot = TRUE]
  <1>0. SyncShape /\ job # NoJob /\ UNCHANGED <<snapshots, frozen, job, view, received>>
    BY DEF SyncInv, ReadersOK, ClearSnapshot, Serving, NoJob
  <1>1. c \in DOMAIN cursors /\ cursors[c] \in Cursor
    BY <1>0, ServedIsRegistered
  <1>2. SetCursor(c, row)
    BY DEF ClearSnapshot
  <1>3. /\ row \in Cursor /\ row.seq = cursors[c].seq /\ row.issued = cursors[c].issued
        /\ row.snapshot = 0 /\ row.resnapshot
    <2>1. 0 \in 0..MaxSnapshot
      BY SyncAssumption
    <2>2. row \in Cursor
      BY <1>1, <2>1 DEF Cursor
    <2>. QED  BY <1>1, <2>2 DEF Cursor
  <1>. HIDE DEF c, row
  <1>4. /\ cursors' = [d \in DOMAIN cursors' |-> cursors'[d]]
        /\ DOMAIN cursors' = DOMAIN cursors
        /\ \A d \in DOMAIN cursors' : cursors'[d] \in Cursor
        /\ cursors'[c] = row
        /\ \A d \in DOMAIN cursors : d # c => cursors'[d] = cursors[d]
    BY <1>0, <1>1, <1>2, <1>3, CursorSet
  <1>5. SyncShape'
    BY <1>0, <1>4 DEF SyncShape
  <1>6. SnapshotsOK'
    BY <1>0, SnapshotIsKept DEF SnapshotsOK
  <1>7. CursorsOK'
    <2>1. frozen' \in Nat /\ frozen <= frozen' /\ DOMAIN snapshots' \subseteq Nat \ {0}
      BY <1>0, SyncAssumption DEF SyncShape
    <2>2. \A d \in DOMAIN cursors :
             /\ cursors'[d].seq = cursors[d].seq /\ cursors'[d].issued = cursors[d].issued
             /\ cursors'[d].snapshot \in {0, cursors[d].snapshot}
      BY <1>3, <1>4
    <2>. QED  BY <1>0, <1>4, <2>1, <2>2, CursorIsKept DEF CursorsOK
  <1>8. ViewsOK'
    <2>. SUFFICES ASSUME NEW d \in Consumer, Attached(d)'
                  PROVE  ViewOK(d)'
      BY DEF ViewsOK
    <2>1. d # c /\ d \in DOMAIN cursors /\ Attached(d)
      BY <1>3, <1>4 DEF Attached
    <2>. QED  BY <1>0, <1>4, <2>1, AttachedIsKept
  <1>. QED  BY <1>5, <1>6, <1>7, <1>8 DEF ReadersOK

\* A new snapshot holds every decision in force and nothing that was replaced.
LEMMA NewSnapshotFacts ==
    ASSUME NotesInv, LinksForward, NEW c \in Consumer
    PROVE  /\ NewSnapshot(c) \in FrozenRow
           /\ NewSnapshot(c).head = head
           /\ Faithful(NewSnapshot(c)) /\ PagedInOrder(NewSnapshot(c))
  <1>1. /\ head \in 0..MaxSeq /\ now \in Nat /\ DOMAIN entries \subseteq 1..head
        /\ \A s \in DOMAIN entries : entries[s] \in Entry
        /\ MaxSeq \in Nat
    BY NotesAssumption DEF NotesInv, NotesTypeOK
  <1>2. Members \in SUBSET DOMAIN entries /\ Members \in SUBSET NoteSeq
    BY <1>1 DEF Members, Live, NoteSeq
  <1>. DEFINE items == [s \in Members |-> entries[s].kind]
  <1>3. items \in [Members -> Kinds] /\ DOMAIN items = Members
    BY <1>1, <1>2 DEF Entry
  <1>4. items \in FrozenItems
    BY <1>2, <1>3, Zenon DEF FrozenItems
  <1>5. NewSnapshot(c) = [consumer |-> c, head |-> head, items |-> items, issued |-> 0,
                          acked |-> FALSE, at |-> now, paged |-> {}]
    BY DEF NewSnapshot
  <1>. HIDE DEF items
  <1>6. /\ NewSnapshot(c) \in FrozenRow /\ NewSnapshot(c).head = head
        /\ NewSnapshot(c).items = items
        /\ NewSnapshot(c).issued = 0 /\ NewSnapshot(c).paged = {}
    BY <1>1, <1>4, <1>5 DEF FrozenRow
  <1>7. Faithful(NewSnapshot(c))
    <2>1. \A s \in DOMAIN entries : InForce(s, head) => s \in Members
      <3>. SUFFICES ASSUME NEW s \in DOMAIN entries, InForce(s, head)
                    PROVE  s \in Members
        OBVIOUS
      <3>1. entries[s].replaced_by \in 0..MaxSeq /\ entries[s] \in Entry
        BY <1>1 DEF Entry
      <3>2. entries[s].replaced_by = 0
        BY <1>1, <3>1 DEF InForce, LinksForward
      <3>. QED  BY <3>2 DEF InForce, Members, Live
    <2>2. \A s \in Members : entries[s].replaced_by = 0
      BY DEF Members, Live
    <2>. QED  BY <1>1, <1>2, <1>3, <1>6, <2>1, <2>2 DEF Faithful
  <1>8. PagedInOrder(NewSnapshot(c))
    <2>1. \A s \in DOMAIN items : Position(items, s) \in Nat
      BY <1>4, PageFacts
    <2>2. \A s \in DOMAIN items : ~(Position(items, s) < 0)
      BY <2>1
    <2>. QED  BY <1>6, <2>2 DEF PagedInOrder
  <1>. QED  BY <1>6, <1>7, <1>8

\* freeze() opens a snapshot at the head, which nothing that was issued has passed.
LEMMA FreezeKeepsReaders ==
    ASSUME SyncInv, StoreStep, NotesInv', LinksForward', Freeze
    PROVE  ReadersOK'
  <1>. DEFINE c == job.consumer
              id == frozen + 1
              kept == DOMAIN snapshots \ Pruned(c)
              row == [cursors[c] EXCEPT !.snapshot = id, !.updated = now]
  <1>0. /\ SyncShape /\ NotesInv /\ LinksForward /\ job # NoJob
        /\ UNCHANGED <<noteVars, job, view, received>> /\ frozen' = id
    BY DEF SyncInv, ReadersOK, Freeze, Serving, NoJob
  <1>1. c \in DOMAIN cursors /\ c \in Consumer /\ cursors[c] \in Cursor
    BY <1>0, ServedIsRegistered
  <1>2. /\ SetCursor(c, row) /\ cursors[c].snapshot = 0
        /\ snapshots' = [i \in kept \cup {id} |-> IF i = id THEN NewSnapshot(c) ELSE snapshots[i]]
    BY DEF Freeze
  <1>3. /\ id \in 1..MaxSnapshot /\ frozen \in Nat /\ MaxSnapshot \in Nat
        /\ frozen <= id /\ id \in Nat /\ now \in 0..MaxNow
        /\ kept \subseteq DOMAIN snapshots /\ kept \subseteq 1..frozen
    BY <1>0, SyncAssumption DEF SyncShape, Freeze, NotesInv, NotesTypeOK
  <1>4. row \in Cursor /\ row.seq = cursors[c].seq /\ row.issued = cursors[c].issued
        /\ row.snapshot = id
    <2>1. id \in 0..MaxSnapshot
      BY <1>3
    <2>2. row \in Cursor
      BY <1>1, <1>3, <2>1 DEF Cursor
    <2>. QED  BY <1>1, <2>2 DEF Cursor
  <1>. HIDE DEF c, row, kept
  <1>5. /\ cursors' = [d \in DOMAIN cursors' |-> cursors'[d]]
        /\ DOMAIN cursors' = DOMAIN cursors
        /\ \A d \in DOMAIN cursors' : cursors'[d] \in Cursor
        /\ cursors'[c] = row
        /\ \A d \in DOMAIN cursors : d # c => cursors'[d] = cursors[d]
    BY <1>0, <1>1, <1>2, <1>4, CursorSet
  <1>6. /\ NewSnapshot(c) \in FrozenRow /\ NewSnapshot(c).head = head
        /\ Faithful(NewSnapshot(c)) /\ PagedInOrder(NewSnapshot(c))
    BY <1>0, <1>1, NewSnapshotFacts
  <1>7. /\ DOMAIN snapshots' = kept \cup {id}
        /\ snapshots' = [i \in DOMAIN snapshots' |-> snapshots'[i]]
        /\ snapshots'[id] = NewSnapshot(c)
        /\ \A i \in kept : i # id /\ i \in DOMAIN snapshots /\ snapshots'[i] = snapshots[i]
    BY <1>2, <1>3
  <1>8. SyncShape'
    <2>1. /\ \A i \in DOMAIN snapshots' : snapshots'[i] \in FrozenRow
          /\ DOMAIN snapshots' \subseteq 1..frozen'
          /\ frozen' \in 0..MaxSnapshot
      BY <1>0, <1>3, <1>6, <1>7 DEF SyncShape
    <2>. QED  BY <1>0, <1>5, <1>7, <2>1 DEF SyncShape
  <1>9. SnapshotsOK'
    <2>. SUFFICES ASSUME NEW i \in DOMAIN snapshots'
                  PROVE  Faithful(snapshots[i])' /\ PagedInOrder(snapshots[i])'
      BY DEF SnapshotsOK
    <2>1. CASE i = id
      <3>1. snapshots'[i] = NewSnapshot(c) /\ UNCHANGED <<now, head, entries>>
        BY <1>0, <1>7, <2>1 DEF noteVars
      <3>2. Faithful(snapshots[i])'
        BY <1>6, <3>1 DEF Faithful, InForce
      <3>3. PagedInOrder(snapshots[i])'
        BY <1>6, <3>1 DEF PagedInOrder
      <3>. QED  BY <3>2, <3>3
    <2>2. CASE i \in kept
      BY <1>7, <2>2, SnapshotIsKept
    <2>. QED  BY <1>7, <2>1, <2>2
  <1>10. CursorsOK'
    <2>. SUFFICES ASSUME NEW d \in DOMAIN cursors PROVE CursorOK(cursors[d])'
      BY <1>5 DEF CursorsOK
    <2>1. CASE d = c
      <3>1. CursorOK(cursors[c]) /\ head' = head
        BY <1>0, <1>1 DEF SyncInv, ReadersOK, CursorsOK, noteVars
      <3>. QED  BY <1>0, <1>3, <1>4, <1>5, <1>6, <1>7, <2>1, <3>1 DEF CursorOK
    <2>2. CASE d # c
      <3>1. frozen' \in Nat /\ frozen <= frozen' /\ DOMAIN snapshots' \subseteq Nat \ {0}
        BY <1>0, <1>3, <1>7
      <3>2. \A i \in DOMAIN snapshots' : i <= frozen =>
               i \in DOMAIN snapshots /\ snapshots'[i].head = snapshots[i].head
        BY <1>3, <1>7
      <3>. QED  BY <1>5, <2>2, <3>1, <3>2, CursorIsKept
    <2>. QED  BY <2>1, <2>2
  <1>11. ViewsOK'
    <2>. SUFFICES ASSUME NEW d \in Consumer, Attached(d)'
                  PROVE  ViewOK(d)'
      BY DEF ViewsOK
    <2>1. d # c /\ d \in DOMAIN cursors /\ Attached(d)
      BY <1>3, <1>4, <1>5 DEF Attached
    <2>. QED  BY <1>0, <1>5, <2>1, AttachedIsKept
  <1>. QED  BY <1>8, <1>9, <1>10, <1>11 DEF ReadersOK

\* The greater of two naturals.
LEMMA MaxOfTwo ==
    ASSUME NEW a \in Nat, NEW b \in Nat
    PROVE  Max({a, b}) \in {a, b} /\ a <= Max({a, b}) /\ b <= Max({a, b})
  <1>1. a + b \in Nat /\ {a, b} \in SUBSET (0..(a + b)) /\ {a, b} # {}
    OBVIOUS
  <1>2. Max({a, b}) \in {a, b} /\ \A x \in {a, b} : x <= Max({a, b})
    BY <1>1, MaxOfRange
  <1>. QED  BY <1>2

\* A page starts at or below what was issued and is no longer than PageLimit, so it
\* leaves no gap behind the rows that were sent.
LEMMA PageKeepsOrder ==
    ASSUME NEW row \in FrozenRow, PagedInOrder(row), NEW token \in Nat, token <= row.issued,
           NEW new \in FrozenRow, new.items = row.items,
           new.issued = Max({row.issued, token + Cardinality(PageFrom(row.items, token))}),
           new.paged = row.paged \cup PageFrom(row.items, token)
    PROVE  PagedInOrder(new)
  <1>. DEFINE items == row.items
              page == PageFrom(items, token)
              n == Cardinality(page)
  <1>1. items \in FrozenItems /\ row.issued \in Nat
    BY DEF FrozenRow
  <1>2. /\ n \in 0..PageLimit /\ PageLimit \in Nat
        /\ \A s \in DOMAIN items : Position(items, s) \in Nat
    BY <1>1, PageFacts, SyncAssumption
  <1>3. page = {s \in DOMAIN items : Position(items, s) \in token..(token + PageLimit - 1)}
    BY DEF PageFrom
  <1>. HIDE DEF items, page, n
  <1>4. /\ new.issued \in {row.issued, token + n} /\ token + n \in Nat
    <2>1. token + n \in Nat
      BY <1>2
    <2>. QED  BY <1>1, <2>1, MaxOfTwo DEF items, page, n
  <1>5. ASSUME NEW s \in DOMAIN items, Position(items, s) < new.issued
        PROVE  s \in new.paged
    <2>1. CASE Position(items, s) < row.issued
      BY <2>1 DEF PagedInOrder, items
    <2>2. CASE ~(Position(items, s) < row.issued)
      <3>1. Position(items, s) \in token..(token + PageLimit - 1)
        BY <1>1, <1>2, <1>4, <1>5, <2>2
      <3>. QED  BY <1>3, <3>1 DEF items, page
    <2>. QED  BY <2>1, <2>2
  <1>6. new.paged \subseteq DOMAIN items
    BY <1>3 DEF PagedInOrder, items, page
  <1>. QED  BY <1>5, <1>6 DEF PagedInOrder, items

\* snapshot_page() sends a page of the open snapshot.
LEMMA PageKeepsReaders ==
    ASSUME SyncInv, StoreStep, NotesInv', LinksForward', SendPage
    PROVE  ReadersOK'
  <1>. DEFINE c == job.consumer
              id == cursors[c].snapshot
              row == snapshots[id]
              page == PageFrom(row.items, job.n)
              top == Max({row.issued, job.n + Cardinality(page)})
              new == [row EXCEPT !.issued = top, !.paged = row.paged \cup page]
  <1>0. /\ SyncShape /\ NotesInv /\ job # NoJob /\ job' = NoJob
        /\ UNCHANGED <<cursors, frozen, view, received>>
    <2>1. SyncShape /\ NotesInv
      BY DEF SyncInv, ReadersOK
    <2>2. job.op = "sync"
      BY DEF SendPage, Serving
    <2>3. NoJob.op = "none"
      BY DEF NoJob
    <2>4. job' = NoJob /\ UNCHANGED <<cursors, frozen, view, received>>
      BY DEF SendPage
    <2>. QED  BY <2>1, <2>2, <2>3, <2>4
  <1>1. c \in DOMAIN cursors /\ cursors[c] \in Cursor /\ job.n \in Nat
    BY <1>0, ServedIsRegistered
  <1>2. /\ id \in DOMAIN snapshots /\ job.n <= row.issued
    BY DEF SendPage, Unusable, OwnedBy, TokenAllowed
  <1>3. snapshots' = [snapshots EXCEPT ![id] = new]
    BY DEF SendPage
  <1>4. row \in FrozenRow /\ PagedInOrder(row)
    BY <1>2 DEF SyncInv, ReadersOK, SyncShape, SnapshotsOK
  <1>5. /\ new \in FrozenRow /\ new.items = row.items /\ new.head = row.head
        /\ new.issued = top /\ new.paged = row.paged \cup page
    <2>1. row.items \in FrozenItems /\ row.issued \in Nat /\ row.paged \in SUBSET NoteSeq
      BY <1>4 DEF FrozenRow
    <2>2. DOMAIN row.items \subseteq NoteSeq
      BY <2>1, ItemsFacts
    <2>3. page \in SUBSET NoteSeq
      BY <2>2 DEF PageFrom
    <2>4. Cardinality(page) \in Nat
      BY <1>1, <2>1, PageFacts, SyncAssumption
    <2>5. top \in Nat
      <3>1. job.n + Cardinality(page) \in Nat
        BY <1>1, <2>4
      <3>. QED  BY <2>1, <3>1, MaxOfTwo
    <2>. HIDE DEF top, page, row
    <2>. QED  BY <1>4, <2>1, <2>3, <2>5 DEF FrozenRow
  <1>6. PagedInOrder(new)
    <2>. HIDE DEF new
    <2>. QED  BY <1>1, <1>2, <1>4, <1>5, PageKeepsOrder
  <1>. HIDE DEF c, id, new, top, page
  <1>7. /\ DOMAIN snapshots' = DOMAIN snapshots
        /\ snapshots' = [i \in DOMAIN snapshots' |-> snapshots'[i]]
        /\ snapshots'[id] = new
        /\ \A i \in DOMAIN snapshots : i # id => snapshots'[i] = snapshots[i]
    BY <1>0, <1>2, <1>3 DEF SyncShape
  <1>8. SyncShape'
    <2>1. \A i \in DOMAIN snapshots' : snapshots'[i] \in FrozenRow
      BY <1>0, <1>5, <1>7 DEF SyncShape
    <2>. QED  BY <1>0, <1>7, <2>1 DEF SyncShape
  <1>9. SnapshotsOK'
    <2>. SUFFICES ASSUME NEW i \in DOMAIN snapshots
                  PROVE  Faithful(snapshots[i])' /\ PagedInOrder(snapshots[i])'
      BY <1>7 DEF SnapshotsOK
    <2>1. CASE i = id
      <3>1. snapshots[i] \in FrozenRow /\ Faithful(snapshots[i])
        BY DEF SyncInv, ReadersOK, SyncShape, SnapshotsOK
      <3>2. Faithful(snapshots[i])'
        BY <1>0, <1>5, <1>7, <2>1, <3>1, FaithfulIsKept
      <3>3. PagedInOrder(snapshots[i])'
        BY <1>6, <1>7, <2>1 DEF PagedInOrder
      <3>. QED  BY <3>2, <3>3
    <2>2. CASE i # id
      BY <1>7, <2>2, SnapshotIsKept
    <2>. QED  BY <2>1, <2>2
  <1>10. CursorsOK'
    <2>1. frozen' \in Nat /\ frozen <= frozen' /\ DOMAIN snapshots' \subseteq Nat \ {0}
      BY <1>0, <1>7, SyncAssumption DEF SyncShape
    <2>2. \A i \in DOMAIN snapshots : snapshots'[i].head = snapshots[i].head
      BY <1>5, <1>7
    <2>. QED  BY <1>0, <1>7, <2>1, <2>2, CursorIsKept DEF CursorsOK
  <1>11. ViewsOK'
    <2>. SUFFICES ASSUME NEW d \in Consumer, Attached(d)'
                  PROVE  ViewOK(d)'
      BY DEF ViewsOK
    <2>1. d \in DOMAIN cursors /\ Attached(d)
      BY <1>0 DEF Attached
    <2>. QED  BY <1>0, <2>1, AttachedIsKept
  <1>. QED  BY <1>8, <1>9, <1>10, <1>11 DEF ReadersOK

\* A cursor changes alone: what is left to show is its own row and its view.
LEMMA OneCursorMoves ==
    ASSUME SyncInv, StoreStep, NotesInv', LinksForward', NEW c \in DOMAIN cursors, NEW row \in Cursor,
           SetCursor(c, row), job' \in {job, NoJob},
           DOMAIN snapshots' = DOMAIN snapshots, frozen' = frozen,
           snapshots' = [i \in DOMAIN snapshots' |-> snapshots'[i]],
           \A i \in DOMAIN snapshots : /\ snapshots'[i] \in FrozenRow
                                       /\ snapshots'[i].head = snapshots[i].head,
           SnapshotsOK',
           view' \in [Consumer -> SUBSET NoteSeq], received' \in [Consumer -> SUBSET NoteSeq],
           \A d \in Consumer : d # c => view'[d] = view[d] /\ received'[d] = received[d],
           CursorOK(cursors[c])', ViewOK(c)'
    PROVE  ReadersOK'
  <1>0. SyncShape
    BY DEF SyncInv, ReadersOK
  <1>1. /\ cursors' = [d \in DOMAIN cursors' |-> cursors'[d]]
        /\ DOMAIN cursors' = DOMAIN cursors
        /\ \A d \in DOMAIN cursors' : cursors'[d] \in Cursor
        /\ cursors'[c] = row
        /\ \A d \in DOMAIN cursors : d # c => cursors'[d] = cursors[d]
    BY <1>0, CursorSet
  <1>2. SyncShape'
    BY <1>0, <1>1 DEF SyncShape
  <1>3. CursorsOK'
    <2>. SUFFICES ASSUME NEW d \in DOMAIN cursors, d # c PROVE CursorOK(cursors[d])'
      BY <1>1 DEF CursorsOK
    <2>1. frozen' \in Nat /\ frozen <= frozen' /\ DOMAIN snapshots' \subseteq Nat \ {0}
      BY <1>0, SyncAssumption DEF SyncShape
    <2>. QED  BY <1>1, <2>1, CursorIsKept
  <1>4. ViewsOK'
    <2>. SUFFICES ASSUME NEW d \in Consumer, Attached(d)', d # c
                  PROVE  ViewOK(d)'
      BY DEF ViewsOK
    <2>1. d \in DOMAIN cursors /\ Attached(d)
      BY <1>1 DEF Attached
    <2>. QED  BY <1>1, <2>1, AttachedIsKept
  <1>. QED  BY <1>2, <1>3, <1>4 DEF ReadersOK

\* A delta extends what was issued without a gap.
LEMMA DeltaKeepsReaders ==
    ASSUME SyncInv, StoreStep, NotesInv', LinksForward', SendDelta
    PROVE  ReadersOK'
  <1>c. PICK c : c = job.consumer
    OBVIOUS
  <1>. DEFINE seq == cursors[c].seq
              issued == cursors[c].issued
              page == DeltaPage(seq)
              top == Max({issued} \cup page)
              row == [cursors[c] EXCEPT !.issued = top]
  <1>0. /\ SyncShape /\ NotesInv /\ job # NoJob /\ job' = NoJob
        /\ UNCHANGED <<noteVars, snapshots, frozen, view>>
    BY DEF SyncInv, ReadersOK, SendDelta, Serving, NoJob
  <1>1. c \in DOMAIN cursors /\ c \in Consumer /\ cursors[c] \in Cursor
    BY <1>c, <1>0, ServedIsRegistered
  <1>2. /\ SetCursor(c, row) /\ received' = [received EXCEPT ![c] = @ \cup page]
        /\ cursors[c].snapshot = 0 /\ ~MustSnapshot(c)
    BY <1>c DEF SendDelta
  <1>3. /\ seq \in Nat /\ issued \in Nat /\ floor \in Int /\ head \in 0..MaxSeq /\ MaxSeq \in Nat
    BY <1>0, <1>1, NotesAssumption DEF Cursor, NotesInv, NotesTypeOK
  <1>4. /\ seq <= issued /\ issued <= head /\ floor <= seq /\ Attached(c)
    BY <1>1, <1>2, <1>3 DEF SyncInv, ReadersOK, CursorsOK, CursorOK, MustSnapshot, Attached
  <1>5. /\ page \subseteq (seq + 1)..head
        /\ top \in issued..head
        /\ \A s \in (seq + 1)..top : s <= issued \/ s \in page
    BY <1>0, <1>3, <1>4, DeltaFacts
  <1>. HIDE DEF page, top
  <1>6. row \in Cursor /\ row.issued = top /\ row.seq = seq /\ row.snapshot = 0
    <2>1. top \in 0..MaxSeq
      BY <1>3, <1>5
    <2>2. row \in Cursor
      BY <1>1, <2>1 DEF Cursor
    <2>. QED  BY <1>1, <1>2, <2>2 DEF Cursor
  <1>. HIDE DEF row, seq, issued
  <1>7. cursors'[c] = row
    BY <1>0, <1>1, <1>2, <1>6, CursorSet
  <1>8. CursorOK(cursors[c])'
    <2>1. row.seq <= row.issued /\ row.issued <= head /\ row.snapshot <= frozen
          /\ row.snapshot \notin DOMAIN snapshots
      BY <1>0, <1>3, <1>4, <1>5, <1>6, SyncAssumption DEF SyncShape
    <2>2. head' = head
      BY <1>0 DEF noteVars
    <2>. QED  BY <1>0, <1>7, <2>1, <2>2 DEF CursorOK
  <1>9. /\ received' \in [Consumer -> SUBSET NoteSeq]
        /\ received'[c] = received[c] \cup page
        /\ \A d \in Consumer : d # c => received'[d] = received[d]
    <2>1. page \subseteq NoteSeq
      BY <1>3, <1>5 DEF NoteSeq
    <2>. QED  BY <1>0, <1>1, <1>2, <2>1 DEF SyncShape
  <1>10. ViewOK(c)'
    <2>1. ViewOK(c) /\ entries' = entries /\ now' = now
      BY <1>0, <1>1, <1>4 DEF SyncInv, ReadersOK, ViewsOK, noteVars
    <2>2. \A s \in (seq + 1)..top : s \in received'[c]
      <3>. SUFFICES ASSUME NEW s \in (seq + 1)..top, s <= issued PROVE s \in received[c]
        BY <1>5, <1>9
      <3>1. s \in (seq + 1)..issued
        BY <1>3, <1>5
      <3>. QED  BY <2>1, <3>1 DEF ViewOK, seq, issued
    <2>3. \A s \in received'[c] : s <= seq => s \in view[c]
      <3>. SUFFICES ASSUME NEW s \in received'[c], s <= seq PROVE s \in view[c]
        OBVIOUS
      <3>1. s \notin page
        <4>1. s \notin (seq + 1)..head
          BY <1>3
        <4>. QED  BY <1>5, <4>1
      <3>2. s \in received[c]
        BY <1>9, <3>1
      <3>. QED  BY <2>1, <3>2 DEF ViewOK, seq
    <2>4. /\ \A s \in DOMAIN entries : InForce(s, seq) => s \in view[c]
          /\ \A s \in view[c] \cap DOMAIN entries :
                entries[s].replaced_by \in 1..seq => entries[s].replaced_by \in view[c]
      BY <2>1 DEF ViewOK, seq
    <2>. QED  BY <1>0, <1>6, <1>7, <2>1, <2>2, <2>3, <2>4 DEF ViewOK, InForce
  <1>11. SnapshotsOK'
    BY <1>0, SnapshotIsKept DEF SnapshotsOK
  <1>12. /\ snapshots' = [i \in DOMAIN snapshots' |-> snapshots'[i]]
         /\ \A i \in DOMAIN snapshots : /\ snapshots'[i] \in FrozenRow
                                        /\ snapshots'[i].head = snapshots[i].head
         /\ DOMAIN snapshots' = DOMAIN snapshots
         /\ view' \in [Consumer -> SUBSET NoteSeq] /\ \A d \in Consumer : view'[d] = view[d]
    BY <1>0 DEF SyncShape
  <1>. QED  BY <1>0, <1>1, <1>2, <1>6, <1>8, <1>9, <1>10, <1>11, <1>12, OneCursorMoves

\* A numeric acknowledgement takes over what was received up to it.
LEMMA AckThroughKeepsReaders ==
    ASSUME SyncInv, StoreStep, NotesInv', LinksForward', AckThrough
    PROVE  ReadersOK'
  <1>c. PICK c : c = job.consumer
    OBVIOUS
  <1>. DEFINE seq == cursors[c].seq
              n == job.n
              row == [cursors[c] EXCEPT !.seq = n]
              taken == {s \in received[c] : s <= n}
  <1>0. /\ SyncShape /\ NotesInv /\ LinksForward /\ job # NoJob /\ job' = NoJob
        /\ UNCHANGED <<noteVars, snapshots, frozen, received>>
    BY DEF SyncInv, ReadersOK, AckThrough, Serving, NoJob
  <1>1. c \in DOMAIN cursors /\ c \in Consumer /\ cursors[c] \in Cursor /\ n \in Nat
    BY <1>c, <1>0, ServedIsRegistered
  <1>2. /\ SetCursor(c, row) /\ view' = [view EXCEPT ![c] = @ \cup taken]
        /\ Ackable(cursors[c], n)
    BY <1>c DEF AckThrough
  <1>3. /\ seq \in Nat /\ cursors[c].issued \in Nat /\ head \in 0..MaxSeq /\ MaxSeq \in Nat
        /\ cursors[c].issued \in 0..MaxSeq
    BY <1>0, <1>1, NotesAssumption DEF Cursor, NotesInv, NotesTypeOK
  <1>4. /\ seq <= n /\ n <= cursors[c].issued /\ cursors[c].issued <= head
        /\ Attached(c) /\ cursors[c].snapshot = 0 /\ ViewOK(c)
    BY <1>1, <1>2, <1>3 DEF SyncInv, ReadersOK, CursorsOK, CursorOK, ViewsOK, Ackable, Attached
  <1>5. row \in Cursor /\ row.issued = cursors[c].issued /\ row.seq = n /\ row.snapshot = 0
    <2>1. n \in 0..MaxSeq
      BY <1>1, <1>3, <1>4
    <2>2. row \in Cursor
      BY <1>1, <2>1 DEF Cursor
    <2>. QED  BY <1>1, <1>4, <2>2 DEF Cursor
  <1>. HIDE DEF row, seq, n, taken
  <1>6. cursors'[c] = row
    BY <1>0, <1>1, <1>2, <1>5, CursorSet
  <1>7. CursorOK(cursors[c])'
    <2>1. row.seq <= row.issued /\ row.issued <= head /\ row.snapshot <= frozen
          /\ row.snapshot \notin DOMAIN snapshots
      BY <1>0, <1>3, <1>4, <1>5, SyncAssumption DEF SyncShape
    <2>2. head' = head
      BY <1>0 DEF noteVars
    <2>. QED  BY <1>0, <1>6, <2>1, <2>2 DEF CursorOK
  <1>8. /\ view' \in [Consumer -> SUBSET NoteSeq] /\ received[c] \subseteq NoteSeq
        /\ view'[c] = view[c] \cup taken /\ view[c] \subseteq NoteSeq
        /\ \A d \in Consumer : d # c => view'[d] = view[d]
    <2>1. taken \subseteq NoteSeq /\ received[c] \subseteq NoteSeq
      BY <1>0, <1>1 DEF SyncShape, taken
    <2>. QED  BY <1>0, <1>1, <1>2, <2>1 DEF SyncShape
  <1>9. ViewOK(c)'
    <2>0. entries' = entries /\ now' = now /\ received' = received
      BY <1>0 DEF noteVars
    <2>1. \A s \in (seq + 1)..n : s \in taken
      <3>. SUFFICES ASSUME NEW s \in (seq + 1)..n PROVE s \in taken
        OBVIOUS
      <3>1. s \in (seq + 1)..cursors[c].issued /\ s <= n
        BY <1>1, <1>3, <1>4
      <3>. QED  BY <1>4, <3>1 DEF ViewOK, seq, taken
    <2>2. \A s \in DOMAIN entries : s \in Int /\ entries[s].replaced_by \in Int
      BY <1>0 DEF NotesInv, NotesTypeOK, Entry
    <2>3. ASSUME NEW s \in DOMAIN entries, InForce(s, n)
          PROVE  s \in view'[c]
      <3>1. CASE s <= seq
        <4>1. InForce(s, seq)
          BY <1>1, <1>3, <1>4, <2>2, <2>3, <3>1 DEF InForce
        <4>. QED  BY <1>4, <1>8, <4>1 DEF ViewOK, seq
      <3>2. CASE ~(s <= seq)
        <4>1. s \in (seq + 1)..n
          BY <1>1, <1>3, <2>2, <2>3, <3>2 DEF InForce
        <4>. QED  BY <1>8, <2>1, <4>1
      <3>. QED  BY <3>1, <3>2
    <2>4. ASSUME NEW s \in view'[c] \cap DOMAIN entries, entries[s].replaced_by \in 1..n
          PROVE  entries[s].replaced_by \in view'[c]
      <3>0. s < entries[s].replaced_by
        BY <1>0, <2>4 DEF LinksForward
      <3>1. CASE entries[s].replaced_by > seq
        <4>1. entries[s].replaced_by \in (seq + 1)..n
          BY <1>1, <1>3, <2>4, <3>1
        <4>. QED  BY <1>8, <2>1, <4>1
      <3>2. CASE ~(entries[s].replaced_by > seq)
        <4>1. entries[s].replaced_by \in 1..seq /\ s <= seq
          BY <1>1, <1>3, <2>2, <2>4, <3>0, <3>2
        <4>2. s \in view[c]
          BY <1>4, <1>8, <2>4, <4>1 DEF ViewOK, seq, taken
        <4>. QED  BY <1>4, <1>8, <2>4, <4>1, <4>2 DEF ViewOK, seq
      <3>. QED  BY <3>1, <3>2
    <2>5. \A s \in (n + 1)..cursors[c].issued : s \in received[c]
      <3>. SUFFICES ASSUME NEW s \in (n + 1)..cursors[c].issued PROVE s \in received[c]
        OBVIOUS
      <3>1. s \in (seq + 1)..cursors[c].issued
        BY <1>1, <1>3, <1>4
      <3>. QED  BY <1>4, <3>1 DEF ViewOK, seq
    <2>6. \A s \in received[c] : s <= n => s \in view'[c]
      BY <1>8 DEF taken
    <2>. QED  BY <1>5, <1>6, <2>0, <2>3, <2>4, <2>5, <2>6 DEF ViewOK, InForce
  <1>10. SnapshotsOK'
    BY <1>0, SnapshotIsKept DEF SnapshotsOK
  <1>11. /\ snapshots' = [i \in DOMAIN snapshots' |-> snapshots'[i]]
         /\ \A i \in DOMAIN snapshots : /\ snapshots'[i] \in FrozenRow
                                        /\ snapshots'[i].head = snapshots[i].head
         /\ DOMAIN snapshots' = DOMAIN snapshots
         /\ received' \in [Consumer -> SUBSET NoteSeq]
         /\ \A d \in Consumer : received'[d] = received[d]
    BY <1>0 DEF SyncShape
  <1>. QED  BY <1>0, <1>1, <1>2, <1>5, <1>7, <1>8, <1>9, <1>10, <1>11, OneCursorMoves

\* An acknowledged snapshot was sent completely, and its head is not behind what
\* was issued before.
LEMMA AckSnapshotFacts ==
    ASSUME SyncInv, AckSnapshot, NEW c, c = job.consumer
    PROVE  /\ job \in Request /\ c \in DOMAIN cursors /\ c \in Consumer /\ cursors[c] \in Cursor
           /\ job.id \in DOMAIN snapshots /\ snapshots[job.id] \in FrozenRow
           /\ Faithful(snapshots[job.id]) /\ PagedInOrder(snapshots[job.id])
           /\ snapshots[job.id].paged = DOMAIN snapshots[job.id].items
           /\ cursors[c].seq <= snapshots[job.id].head
           /\ Max({snapshots[job.id].head, cursors[c].issued}) = snapshots[job.id].head
  <1>. DEFINE row == snapshots[job.id]
  <1>1. SyncShape /\ job # NoJob
    <2>1. SyncShape
      BY DEF SyncInv, ReadersOK
    <2>2. job.op = "ack"
      BY DEF AckSnapshot, Serving
    <2>3. NoJob.op = "none"
      BY DEF NoJob
    <2>. QED  BY <2>1, <2>2, <2>3
  <1>2. job \in Request /\ c \in DOMAIN cursors /\ c \in Consumer /\ cursors[c] \in Cursor
    BY <1>1, ServedIsRegistered
  <1>3. /\ job.id \in DOMAIN snapshots /\ job.id = cursors[c].snapshot /\ Complete(row)
    BY DEF AckSnapshot, OwnedBy
  <1>4. row \in FrozenRow /\ Faithful(row) /\ PagedInOrder(row) /\ CursorOK(cursors[c])
    BY <1>2, <1>3 DEF SyncInv, ReadersOK, SyncShape, SnapshotsOK, CursorsOK
  <1>5. row.paged = DOMAIN row.items
    <2>1. row.items \in FrozenItems /\ row.issued \in Nat /\ 0 \in Nat
      BY <1>4 DEF FrozenRow
    <2>2. /\ Cardinality(DOMAIN row.items) \in Nat
          /\ \A s \in DOMAIN row.items : /\ Position(row.items, s) \in Nat
                                         /\ Position(row.items, s) < Cardinality(DOMAIN row.items)
      BY <2>1, PageFacts
    <2>3. \A s \in DOMAIN row.items : Position(row.items, s) < row.issued
      BY <1>3, <2>1, <2>2 DEF Complete
    <2>. QED  BY <1>4, <2>3 DEF PagedInOrder
  <1>6. /\ row.head \in Nat /\ cursors[c].seq \in Nat /\ cursors[c].issued \in Nat
    BY <1>2, <1>4, NotesAssumption DEF FrozenRow, Cursor
  <1>7. cursors[c].issued <= row.head /\ cursors[c].seq <= row.head
    BY <1>3, <1>4, <1>6 DEF CursorOK
  <1>8. Max({row.head, cursors[c].issued}) = row.head
    <2>. DEFINE top == Max({row.head, cursors[c].issued})
    <2>1. top \in {row.head, cursors[c].issued} /\ row.head <= top
      BY <1>6, MaxOfTwo
    <2>. HIDE DEF top
    <2>2. top = row.head
      BY <1>6, <1>7, <2>1
    <2>. QED  BY <2>2 DEF top
  <1>. QED  BY <1>2, <1>3, <1>4, <1>5, <1>7, <1>8

\* The acknowledged snapshot becomes the view.
LEMMA AckSnapshotKeepsReaders ==
    ASSUME SyncInv, StoreStep, NotesInv', LinksForward', AckSnapshot
    PROVE  ReadersOK'
  <1>1. PICK c, id : c = job.consumer /\ id = job.id
    OBVIOUS
  <1>. DEFINE row == snapshots[id]
              new == [row EXCEPT !.acked = TRUE, !.at = now]
              cursor == [cursors[c] EXCEPT !.seq = row.head, !.issued = row.head, !.snapshot = 0,
                                           !.bootstrapped = TRUE, !.resnapshot = FALSE]
  <1>2. /\ c \in DOMAIN cursors /\ c \in Consumer /\ cursors[c] \in Cursor
        /\ id \in DOMAIN snapshots /\ row \in FrozenRow /\ Faithful(row) /\ PagedInOrder(row)
        /\ row.paged = DOMAIN row.items
        /\ Max({row.head, cursors[c].issued}) = row.head
    BY <1>1, AckSnapshotFacts
  <1>3. /\ SyncShape /\ NotesInv /\ job' = NoJob /\ UNCHANGED <<noteVars, frozen>>
    BY DEF SyncInv, ReadersOK, AckSnapshot
  <1>4. /\ snapshots' = [snapshots EXCEPT ![id] = new]
        /\ SetCursor(c, cursor)
        /\ view' = [view EXCEPT ![c] = row.paged]
        /\ received' = [received EXCEPT ![c] = {}]
    BY <1>1, <1>2 DEF AckSnapshot
  <1>5. /\ row.head \in 0..MaxSeq /\ now \in Nat /\ MaxSnapshot \in Nat /\ MaxSeq \in Nat
        /\ row.paged \in SUBSET NoteSeq /\ head \in Int /\ frozen \in Nat
    BY <1>2, <1>3, NotesAssumption, SyncAssumption DEF FrozenRow, NotesInv, NotesTypeOK, SyncShape
  <1>6. /\ new \in FrozenRow /\ new.head = row.head /\ new.items = row.items
        /\ new.issued = row.issued /\ new.paged = row.paged
    BY <1>2, <1>5 DEF FrozenRow
  <1>7. /\ cursor \in Cursor /\ cursor.seq = row.head /\ cursor.issued = row.head
        /\ cursor.snapshot = 0
    <2>1. 0 \in 0..MaxSnapshot
      BY <1>5
    <2>2. cursor \in Cursor
      BY <1>2, <1>5, <2>1 DEF Cursor
    <2>. QED  BY <1>2, <2>2 DEF Cursor
  <1>. HIDE DEF new, cursor
  <1>8. /\ DOMAIN snapshots' = DOMAIN snapshots
        /\ snapshots' = [i \in DOMAIN snapshots' |-> snapshots'[i]]
        /\ snapshots'[id] = new
        /\ \A i \in DOMAIN snapshots : i # id => snapshots'[i] = snapshots[i]
    BY <1>2, <1>3, <1>4 DEF SyncShape
  <1>9. \A i \in DOMAIN snapshots : /\ snapshots'[i] \in FrozenRow
                                    /\ snapshots'[i].head = snapshots[i].head
    BY <1>3, <1>6, <1>8 DEF SyncShape
  <1>10. SnapshotsOK'
    <2>. SUFFICES ASSUME NEW i \in DOMAIN snapshots
                  PROVE  Faithful(snapshots[i])' /\ PagedInOrder(snapshots[i])'
      BY <1>8 DEF SnapshotsOK
    <2>1. CASE i = id
      <3>1. Faithful(snapshots[i])'
        BY <1>2, <1>3, <1>6, <1>8, <2>1, FaithfulIsKept
      <3>2. PagedInOrder(snapshots[i])'
        BY <1>2, <1>6, <1>8, <2>1 DEF PagedInOrder
      <3>. QED  BY <3>1, <3>2
    <2>2. CASE i # id
      BY <1>8, <2>2, SnapshotIsKept
    <2>. QED  BY <2>1, <2>2
  <1>11. cursors'[c] = cursor
    BY <1>2, <1>3, <1>4, <1>7, CursorSet
  <1>12. CursorOK(cursors[c])'
    <2>1. cursor.seq <= cursor.issued /\ cursor.issued <= head /\ cursor.snapshot <= frozen
          /\ cursor.snapshot \notin DOMAIN snapshots'
      BY <1>2, <1>3, <1>5, <1>7, <1>8 DEF SyncShape, Faithful
    <2>2. head' = head /\ frozen' = frozen
      BY <1>3 DEF noteVars
    <2>. QED  BY <1>11, <2>1, <2>2 DEF CursorOK
  <1>13. /\ view' \in [Consumer -> SUBSET NoteSeq] /\ view'[c] = row.paged
         /\ received' \in [Consumer -> SUBSET NoteSeq] /\ received'[c] = {}
         /\ \A d \in Consumer : d # c => view'[d] = view[d] /\ received'[d] = received[d]
    BY <1>2, <1>3, <1>4, <1>5 DEF SyncShape
  <1>14. ViewOK(c)'
    <2>1. entries' = entries /\ now' = now
      BY <1>3 DEF noteVars
    <2>2. /\ \A s \in DOMAIN entries : InForce(s, row.head) => s \in view'[c]
          /\ \A s \in view'[c] \cap DOMAIN entries : entries[s].replaced_by \notin 1..row.head
      <3>1. \A s \in view'[c] \cap DOMAIN entries :
               entries[s].replaced_by = 0 \/ entries[s].replaced_by > row.head
        BY <1>2, <1>13 DEF Faithful
      <3>. QED  BY <1>2, <1>5, <1>13, <3>1 DEF Faithful
    <2>3. (row.head + 1)..row.head = {}
      BY <1>5
    <2>. QED  BY <1>7, <1>11, <1>13, <2>1, <2>2, <2>3 DEF ViewOK, InForce
  <1>. QED  BY <1>2, <1>3, <1>4, <1>7, <1>8, <1>9, <1>10, <1>12, <1>13, <1>14, OneCursorMoves

\* expire() takes snapshots and idle consumers away and changes none.
LEMMA ExpireKeepsReaders ==
    ASSUME SyncInv, StoreStep, NotesInv', LinksForward', Expire
    PROVE  ReadersOK'
  <1>1. SyncShape /\ job = NoJob /\ UNCHANGED <<frozen, job, view, received>>
    BY DEF SyncInv, ReadersOK, Expire, Idle
  <1>2. /\ cursors' = [c \in DOMAIN cursors' |-> cursors'[c]]
        /\ DOMAIN cursors' \subseteq DOMAIN cursors
        /\ \A c \in DOMAIN cursors' : cursors'[c] = cursors[c]
    BY DEF Expire
  <1>3. /\ snapshots' = [i \in DOMAIN snapshots' |-> snapshots'[i]]
        /\ DOMAIN snapshots' \subseteq DOMAIN snapshots
        /\ \A i \in DOMAIN snapshots' : snapshots'[i] = snapshots[i]
    BY DEF Expire
  <1>4. SyncShape'
    BY <1>1, <1>2, <1>3 DEF SyncShape
  <1>5. SnapshotsOK'
    BY <1>3, SnapshotIsKept DEF SnapshotsOK
  <1>6. CursorsOK'
    <2>1. frozen' \in Nat /\ frozen <= frozen' /\ DOMAIN snapshots' \subseteq Nat \ {0}
      BY <1>1, <1>3, SyncAssumption DEF SyncShape
    <2>. QED  BY <1>2, <1>3, <2>1, CursorIsKept DEF CursorsOK
  <1>7. ViewsOK'
    <2>. SUFFICES ASSUME NEW d \in Consumer, Attached(d)'
                  PROVE  ViewOK(d)'
      BY DEF ViewsOK
    <2>1. d \in DOMAIN cursors /\ Attached(d) /\ cursors'[d] = cursors[d]
      BY <1>2 DEF Attached
    <2>. QED  BY <1>1, <2>1, AttachedIsKept
  <1>. QED  BY <1>4, <1>5, <1>6, <1>7 DEF ReadersOK

\* Nobody has read anything yet.
LEMMA SyncInvInit ==
    ASSUME SyncInit
    PROVE  SyncInv
  <1>1. NotesInv
    BY NotesInvInit DEF SyncInit
  <1>2. LinksForward
    BY DEF SyncInit, NotesInit, LinksForward
  <1>3. SyncShape
    BY SyncAssumption DEF SyncInit, SyncShape
  <1>4. SnapshotsOK /\ CursorsOK /\ ViewsOK
    BY DEF SyncInit, SnapshotsOK, CursorsOK, ViewsOK, Attached
  <1>. QED  BY <1>1, <1>2, <1>3, <1>4 DEF SyncInv, ReadersOK

\* Every step of the service keeps the invariant.
LEMMA SyncInvNext ==
    ASSUME SyncInv, [SyncNext]_vars
    PROVE  SyncInv'
  <1>1. NotesInv' /\ LinksForward' /\ StoreStep
    BY ServiceStoreStep DEF SyncInv
  <1>2. ReadersOK'
    <2>1. CASE \E r \in Request : Enter(r)
      BY <1>1, <2>1, EnterKeepsReaders
    <2>2. CASE ClearSnapshot
      BY <1>1, <2>2, ClearKeepsReaders
    <2>3. CASE Freeze
      BY <1>1, <2>3, FreezeKeepsReaders
    <2>4. CASE SendPage
      BY <1>1, <2>4, PageKeepsReaders
    <2>5. CASE SendDelta
      BY <1>1, <2>5, DeltaKeepsReaders
    <2>6. CASE AckSnapshot
      BY <1>1, <2>6, AckSnapshotKeepsReaders
    <2>7. CASE AckThrough
      BY <1>1, <2>7, AckThroughKeepsReaders
    <2>8. CASE Expire
      BY <1>1, <2>8, ExpireKeepsReaders
    <2>9. CASE Abort \/ RestartService \/ NotesOnly \/ UNCHANGED vars
      <3>1. job' \in {job, NoJob} /\ UNCHANGED <<cursors, snapshots, frozen, view, received>>
        BY <2>9 DEF Abort, RestartService, NotesOnly, vars, syncVars
      <3>. QED  BY <1>1, <3>1, ReadersUntouched
    <2>. QED  BY <2>1, <2>2, <2>3, <2>4, <2>5, <2>6, <2>7, <2>8, <2>9 DEF SyncNext
  <1>. QED  BY <1>1, <1>2 DEF SyncInv

\* The invariant of the readers.
THEOREM SyncInvariance == SyncSpec => []SyncInv
  <1>1. SyncInit => SyncInv
    BY SyncInvInit
  <1>2. SyncInv /\ [SyncNext]_vars => SyncInv'
    BY SyncInvNext
  <1>. QED  BY <1>1, <1>2, PTL DEF SyncSpec

\* A consumer that is given deltas has every decision that is in force at its cursor
\* (sync(), snapshot_page(), ack()).
THEOREM ViewsAreComplete == SyncSpec => []ViewIsComplete
  <1>1. SyncInv => ViewIsComplete
    <2>. SUFFICES ASSUME SyncInv, NEW c \in Consumer, Current(c), NEW s \in DOMAIN entries,
                         InForce(s, cursors[c].seq)
                  PROVE  s \in view[c]
      BY DEF ViewIsComplete, InForce
    <2>1. Attached(c)
      BY DEF Current, MustSnapshot, Attached
    <2>. QED  BY <2>1 DEF SyncInv, ReadersOK, ViewsOK, ViewOK
  <1>. QED  BY <1>1, SyncInvariance, PTL

\* And it holds the replacement of every note that was replaced before its cursor
\* (note(), _forget(), sync()).
THEOREM ViewsHoldNoZombie == SyncSpec => []ViewHasNoZombie
  <1>1. SyncInv => ViewHasNoZombie
    <2>. SUFFICES ASSUME SyncInv, NEW c \in Consumer, Current(c)
                  PROVE  \A s \in view[c] \cap DOMAIN entries :
                            entries[s].replaced_by \in 1..cursors[c].seq
                               => entries[s].replaced_by \in view[c]
      BY DEF ViewHasNoZombie
    <2>1. Attached(c)
      BY DEF Current, MustSnapshot, Attached
    <2>. QED  BY <2>1 DEF SyncInv, ReadersOK, ViewsOK, ViewOK
  <1>. QED  BY <1>1, SyncInvariance, PTL

\* A cursor moves only in an acknowledgement, and there never back.
LEMMA SeqAdvances ==
    ASSUME SyncInv, [SyncNext]_vars, NEW c \in DOMAIN cursors \cap DOMAIN cursors'
    PROVE  cursors[c].seq <= cursors'[c].seq
  <1>0. SyncShape /\ cursors[c] \in Cursor
    BY DEF SyncInv, ReadersOK, SyncShape
  <1>1. cursors[c].seq \in Nat /\ cursors[c].seq <= cursors[c].seq
    BY <1>0, NotesAssumption DEF Cursor
  <1>2. CASE AckSnapshot
    <2>1. PICK d : d = job.consumer
      OBVIOUS
    <2>2. d \in DOMAIN cursors /\ cursors[d].seq <= snapshots[job.id].head /\ cursors[d] \in Cursor
      BY <1>2, <2>1, AckSnapshotFacts
    <2>3. c = d => cursors'[c].seq = snapshots[job.id].head
      BY <1>2, <2>1, <2>2 DEF AckSnapshot, SetCursor, Cursor
    <2>4. c # d => cursors'[c] = cursors[c]
      BY <1>2, <2>1 DEF AckSnapshot, SetCursor
    <2>. QED  BY <1>1, <2>2, <2>3, <2>4
  <1>3. CASE AckThrough
    <2>1. c = job.consumer => cursors'[c].seq = job.n /\ cursors[c].seq <= job.n
      BY <1>0, <1>3 DEF AckThrough, SetCursor, Ackable, Cursor
    <2>2. c # job.consumer => cursors'[c] = cursors[c]
      BY <1>3 DEF AckThrough, SetCursor
    <2>. QED  BY <1>1, <2>1, <2>2
  <1>4. CASE \E r \in Request : Enter(r)
    <2>1. PICK r \in Request : Enter(r)
      BY <1>4
    <2>2. cursors'[c].seq = cursors[c].seq
      BY <1>0, <2>1 DEF Enter, SetCursor, Cursor
    <2>. QED  BY <1>1, <2>2
  <1>5. CASE ClearSnapshot \/ Freeze \/ SendDelta
    <2>1. cursors'[c].seq = cursors[c].seq
      <3>1. CASE ClearSnapshot
        BY <1>0, <3>1 DEF ClearSnapshot, SetCursor, Cursor
      <3>2. CASE Freeze
        BY <1>0, <3>2 DEF Freeze, SetCursor, Cursor
      <3>3. CASE SendDelta
        BY <1>0, <3>3 DEF SendDelta, SetCursor, Cursor
      <3>. QED  BY <1>5, <3>1, <3>2, <3>3
    <2>. QED  BY <1>1, <2>1
  <1>6. CASE Expire
    <2>1. cursors'[c] = cursors[c]
      BY <1>6 DEF Expire
    <2>. QED  BY <1>1, <2>1
  <1>7. CASE SendPage \/ Abort \/ RestartService \/ NotesOnly \/ UNCHANGED vars
    <2>1. cursors' = cursors
      BY <1>7 DEF SendPage, Abort, RestartService, NotesOnly, vars, syncVars
    <2>. QED  BY <1>1, <2>1
  <1>. QED  BY <1>2, <1>3, <1>4, <1>5, <1>6, <1>7 DEF SyncNext

\* A registered consumer's cursor never moves back and never passes what it was
\* issued (ack()).
THEOREM CursorsOnlyAdvance == SyncSpec => CursorsAdvance
  <1>1. SyncInv /\ SyncInv' /\ [SyncNext]_vars =>
           [\A c \in DOMAIN cursors \cap DOMAIN cursors' :
               cursors[c].seq <= cursors'[c].seq /\ cursors'[c].seq <= cursors'[c].issued]_vars
    <2>. SUFFICES ASSUME SyncInv, SyncInv', [SyncNext]_vars,
                         NEW c \in DOMAIN cursors \cap DOMAIN cursors'
                  PROVE  cursors[c].seq <= cursors'[c].seq /\ cursors'[c].seq <= cursors'[c].issued
      OBVIOUS
    <2>1. cursors'[c].seq <= cursors'[c].issued
      BY DEF SyncInv, ReadersOK, CursorsOK, CursorOK
    <2>. QED  BY <2>1, SeqAdvances
  <1>. QED  BY <1>1, SyncInvariance, PTL DEF SyncSpec, CursorsAdvance
----------------------------------------------------------------------------
(* The limits of the roster.                                                *)

\* Registered and retired consumers are disjoint and within MAX_CONSUMERS and
\* MAX_CONSUMERS + MAX_RETIRED; every timestamp lies in the past.
RosterOK ==
    /\ IsFiniteSet(DOMAIN cursors) /\ IsFiniteSet(DOMAIN retired)
    /\ DOMAIN retired \subseteq Consumer \ DOMAIN cursors
    /\ Cardinality(DOMAIN cursors) <= MaxConsumers
    /\ Cardinality(DOMAIN cursors) + Cardinality(DOMAIN retired) <= MaxConsumers + MaxRetired
    /\ \A c \in DOMAIN retired : retired[c] \in 0..now
    /\ \A i \in DOMAIN snapshots : snapshots[i].at \in 0..now

\* A step that keeps who is registered and who is retired keeps the limits.
LEMMA RosterUntouched ==
    ASSUME SyncInv, RosterOK, now \in Nat, now' \in Nat, now <= now',
           DOMAIN cursors' = DOMAIN cursors, retired' = retired,
           \A i \in DOMAIN snapshots' : \/ i \in DOMAIN snapshots /\ snapshots'[i].at = snapshots[i].at
                                        \/ snapshots'[i].at = now
    PROVE  RosterOK'
  <1>1. \A t \in 0..now : t \in 0..now'
    OBVIOUS
  <1>2. \A c \in DOMAIN retired' : retired'[c] \in 0..now'
    BY <1>1 DEF RosterOK
  <1>3. \A i \in DOMAIN snapshots' : snapshots'[i].at \in 0..now'
    <2>. SUFFICES ASSUME NEW i \in DOMAIN snapshots'  PROVE snapshots'[i].at \in 0..now'
      OBVIOUS
    <2>1. CASE i \in DOMAIN snapshots /\ snapshots'[i].at = snapshots[i].at
      BY <1>1, <2>1 DEF RosterOK
    <2>2. CASE snapshots'[i].at = now
      BY <2>2
    <2>. QED  BY <2>1, <2>2
  <1>. QED  BY <1>2, <1>3 DEF RosterOK

\* register() adds a consumer only below both limits, and never a retired one.
LEMMA EnterKeepsRoster ==
    ASSUME SyncInv, RosterOK, now \in Nat, NEW r \in Request, Enter(r)
    PROVE  RosterOK'
  <1>1. PICK c \in Consumer : c = r.consumer
    BY DEF Request
  <1>2. UNCHANGED <<retired, snapshots>> /\ now' = now
    BY DEF Enter, noteVars
  <1>3. CASE c \in DOMAIN cursors
    <2>1. DOMAIN cursors' = DOMAIN cursors
      BY <1>1, <1>3 DEF Enter, SetCursor
    <2>. QED  BY <1>2, <2>1, RosterUntouched
  <1>4. CASE c \notin DOMAIN cursors
    <2>1. CanRegister(c) /\ DOMAIN cursors' = DOMAIN cursors \cup {c}
      BY <1>1, <1>4 DEF Enter
    <2>2. /\ IsFiniteSet(DOMAIN cursors')
          /\ Cardinality(DOMAIN cursors') = Cardinality(DOMAIN cursors) + 1
      BY <1>4, <2>1, FS_AddElement DEF RosterOK
    <2>3. /\ Cardinality(DOMAIN cursors) \in Nat /\ Cardinality(DOMAIN retired) \in Nat
          /\ MaxConsumers \in Nat /\ MaxRetired \in Nat
      BY FS_CardinalityType, SyncAssumption DEF RosterOK
    <2>4. /\ Cardinality(DOMAIN cursors') <= MaxConsumers
          /\ Cardinality(DOMAIN cursors') + Cardinality(DOMAIN retired') <= MaxConsumers + MaxRetired
      BY <1>2, <2>1, <2>2, <2>3 DEF CanRegister
    <2>5. DOMAIN retired' \subseteq Consumer \ DOMAIN cursors'
      BY <1>2, <2>1 DEF CanRegister, RosterOK
    <2>. QED  BY <1>2, <2>2, <2>4, <2>5 DEF RosterOK
  <1>. QED  BY <1>3, <1>4

\* expire() moves idle consumers from one table to the other.
LEMMA ExpireKeepsRoster ==
    ASSUME SyncInv, RosterOK, now \in Nat, now' = now, Expire
    PROVE  RosterOK'
  <1>. DEFINE idle == IdleConsumers
              graves == {c \in DOMAIN retired : ~(retired[c] < now - RetiredTTL)}
  <1>1. /\ DOMAIN cursors' = DOMAIN cursors \ idle
        /\ DOMAIN retired' = graves \cup idle
        /\ \A c \in DOMAIN retired' : retired'[c] = IF c \in idle THEN now ELSE retired[c]
    BY DEF Expire
  <1>2. idle \subseteq DOMAIN cursors /\ graves \subseteq DOMAIN retired
    BY DEF IdleConsumers
  <1>3. DOMAIN cursors \subseteq Consumer /\ DOMAIN retired \subseteq Consumer \ DOMAIN cursors
    BY DEF SyncInv, ReadersOK, SyncShape, RosterOK
  <1>4. DOMAIN retired' \subseteq Consumer \ DOMAIN cursors'
    BY <1>1, <1>2, <1>3
  <1>5. \A c \in DOMAIN retired' : retired'[c] \in 0..now'
    <2>. SUFFICES ASSUME NEW c \in DOMAIN retired'  PROVE retired'[c] \in 0..now
      OBVIOUS
    <2>1. CASE c \in idle
      BY <1>1, <2>1
    <2>2. CASE c \notin idle
      BY <1>1, <1>2, <2>2 DEF RosterOK
    <2>. QED  BY <2>1, <2>2
  <1>6. \A i \in DOMAIN snapshots' : snapshots'[i].at \in 0..now'
    BY DEF Expire, RosterOK
  <1>. HIDE DEF idle, graves
  <1>7. /\ IsFiniteSet(idle) /\ IsFiniteSet(graves) /\ IsFiniteSet(DOMAIN cursors)
        /\ Cardinality(graves) <= Cardinality(DOMAIN retired)
    BY <1>2, FS_Subset DEF RosterOK
  <1>8. /\ IsFiniteSet(DOMAIN cursors \ idle)
        /\ Cardinality(DOMAIN cursors \ idle)
              = Cardinality(DOMAIN cursors) - Cardinality(DOMAIN cursors \cap idle)
    BY <1>7, FS_Difference
  <1>9. DOMAIN cursors \cap idle = idle /\ graves \cap idle = {}
    BY <1>2, <1>3
  <1>10. /\ IsFiniteSet(graves \cup idle)
         /\ Cardinality(graves \cup idle)
               = Cardinality(graves) + Cardinality(idle) - Cardinality(graves \cap idle)
    BY <1>7, FS_Union
  <1>11. Cardinality(graves \cap idle) = 0
    BY <1>9, FS_EmptySet
  <1>12. /\ Cardinality(idle) \in Nat /\ Cardinality(graves) \in Nat
         /\ Cardinality(DOMAIN cursors) \in Nat /\ Cardinality(DOMAIN retired) \in Nat
         /\ MaxConsumers \in Nat /\ MaxRetired \in Nat
    BY <1>7, FS_CardinalityType, SyncAssumption DEF RosterOK
  <1>13. /\ Cardinality(DOMAIN cursors') = Cardinality(DOMAIN cursors) - Cardinality(idle)
         /\ Cardinality(DOMAIN retired') = Cardinality(graves) + Cardinality(idle)
    <2>1. Cardinality(DOMAIN cursors') = Cardinality(DOMAIN cursors) - Cardinality(idle)
      BY <1>1, <1>8, <1>9
    <2>2. Cardinality(DOMAIN retired') = Cardinality(graves) + Cardinality(idle) - 0
      BY <1>1, <1>10, <1>11
    <2>. QED  BY <1>12, <2>1, <2>2
  <1>14. /\ Cardinality(DOMAIN cursors) <= MaxConsumers
         /\ Cardinality(DOMAIN cursors) + Cardinality(DOMAIN retired) <= MaxConsumers + MaxRetired
    BY DEF RosterOK
  <1>15. /\ Cardinality(DOMAIN cursors') <= MaxConsumers
         /\ Cardinality(DOMAIN cursors') + Cardinality(DOMAIN retired') <= MaxConsumers + MaxRetired
    BY <1>7, <1>12, <1>13, <1>14
  <1>. QED  BY <1>1, <1>4, <1>5, <1>6, <1>8, <1>10, <1>15 DEF RosterOK

\* Every step of the service keeps the limits.
LEMMA RosterNext ==
    ASSUME SyncInv, SyncInv', RosterOK, [SyncNext]_vars
    PROVE  RosterOK'
  <1>1. now \in Nat /\ now' \in Nat /\ now <= now'
    BY ServiceStoreStep, NotesAssumption DEF SyncInv, NotesInv, NotesTypeOK, StoreStep
  <1>2. CASE \E r \in Request : Enter(r)
    BY <1>1, <1>2, EnterKeepsRoster
  <1>3. CASE Expire
    <2>1. now' = now
      BY <1>3 DEF Expire, ExpireNotes
    <2>. QED  BY <1>1, <1>3, <2>1, ExpireKeepsRoster
  <1>4. CASE ClearSnapshot \/ SendDelta \/ AckThrough
    <2>1. DOMAIN cursors' = DOMAIN cursors
      BY <1>4 DEF ClearSnapshot, SendDelta, AckThrough, SetCursor
    <2>2. UNCHANGED <<retired, snapshots>>
      BY <1>4 DEF ClearSnapshot, SendDelta, AckThrough
    <2>. QED  BY <1>1, <2>1, <2>2, RosterUntouched
  <1>5. CASE Freeze
    <2>1. DOMAIN cursors' = DOMAIN cursors /\ retired' = retired
      BY <1>5 DEF Freeze, SetCursor
    <2>2. \A i \in DOMAIN snapshots' : \/ i \in DOMAIN snapshots /\ snapshots'[i] = snapshots[i]
                                       \/ snapshots'[i].at = now
      BY <1>5 DEF Freeze, NewSnapshot
    <2>. QED  BY <1>1, <2>1, <2>2, RosterUntouched
  <1>6. CASE SendPage
    <2>1. cursors' = cursors /\ retired' = retired
      BY <1>6 DEF SendPage
    <2>2. DOMAIN snapshots' = DOMAIN snapshots
      BY <1>6 DEF SendPage
    <2>3. ASSUME NEW i \in DOMAIN snapshots  PROVE snapshots'[i].at = snapshots[i].at
      <3>1. snapshots[i] \in FrozenRow
        BY DEF SyncInv, ReadersOK, SyncShape
      <3>. QED  BY <1>6, <3>1 DEF SendPage, FrozenRow
    <2>. QED  BY <1>1, <2>1, <2>2, <2>3, RosterUntouched
  <1>7. CASE AckSnapshot
    <2>1. DOMAIN cursors' = DOMAIN cursors /\ retired' = retired
      BY <1>7 DEF AckSnapshot, SetCursor
    <2>2. DOMAIN snapshots' = DOMAIN snapshots
      BY <1>7 DEF AckSnapshot
    <2>3. ASSUME NEW i \in DOMAIN snapshots
          PROVE  snapshots'[i].at = snapshots[i].at \/ snapshots'[i].at = now
      <3>1. snapshots[i] \in FrozenRow
        BY DEF SyncInv, ReadersOK, SyncShape
      <3>2. CASE i = job.id
        BY <1>7, <3>1, <3>2 DEF AckSnapshot, FrozenRow
      <3>3. CASE i # job.id
        BY <1>7, <3>3 DEF AckSnapshot
      <3>. QED  BY <3>2, <3>3
    <2>. QED  BY <1>1, <2>1, <2>2, <2>3, RosterUntouched
  <1>8. CASE Abort \/ RestartService \/ NotesOnly \/ UNCHANGED vars
    <2>1. UNCHANGED <<cursors, retired, snapshots>>
      BY <1>8 DEF Abort, RestartService, NotesOnly, vars, syncVars
    <2>. QED  BY <1>1, <2>1, RosterUntouched
  <1>. QED  BY <1>2, <1>3, <1>4, <1>5, <1>6, <1>7, <1>8 DEF SyncNext

\* However consumers register, fall idle and are forgotten, at most MAX_CONSUMERS
\* are registered, at most MAX_CONSUMERS + MAX_RETIRED are remembered at all, and
\* none is registered while its tombstone stands (register(), expire()).
THEOREM RosterIsBounded == SyncSpec => []RosterOK
  <1>1. SyncInit => RosterOK
    <2>. SUFFICES ASSUME SyncInit  PROVE RosterOK
      OBVIOUS
    <2>1. DOMAIN cursors = {} /\ DOMAIN retired = {} /\ DOMAIN snapshots = {}
      BY DEF SyncInit
    <2>2. IsFiniteSet({}) /\ Cardinality({}) = 0
      BY FS_EmptySet
    <2>. QED  BY <2>1, <2>2, SyncAssumption DEF RosterOK
  <1>2. SyncInv /\ SyncInv' /\ RosterOK /\ [SyncNext]_vars => RosterOK'
    BY RosterNext
  <1>. QED  BY <1>1, <1>2, SyncInvariance, PTL DEF SyncSpec
=============================================================================
