--------------------------- MODULE MigrationsProofs ----------------------------
(* What holds of Migrations for any number of processes, however they open the   *)
(* database, any seeds, and any number of interruptions and lost connections.    *)
(* The script is the one of the code, version by version.                        *)
EXTENDS Migrations, TLAPS

(* The parts of the inductive invariant. *)

Whole(v) == InEffect(v, Len(Script[v]))
Complete == \A v \in Versions : Whole(v)

(* Versions are recorded one after the other, each once its blocks are in effect. *)
LedgerOK ==
  ledger # None => \E k \in 0 .. Last : ledger = 1 .. k /\ \A v \in 1 .. k : Whole(v)

(* A process works on a version after the recorded ones, and every block before   *)
(* its own is in effect, whoever executed it.                                     *)
Applying(p) == proc[p].stage \in {"running", "creating"}
Placed(p) ==
  LET v == proc[p].version
      i == proc[p].block
  IN  /\ v \in 1 .. Last + 1 /\ i >= 1 /\ 1 .. v - 1 \subseteq ledger
      /\ v \in Versions => i <= Len(Script[v]) + 1 /\ InEffect(v, i - 1)
      /\ proc[p].stage = "creating" => v \in Versions /\ i <= Len(Script[v])

Serving == {"seeding", "inserting", "filling", "ready"}
ProcOK(p) ==
  /\ proc[p].stage \in {"locking", "reading"} \/ Applying(p) => ledger # None
  /\ Applying(p) => Placed(p)
  /\ proc[p].stage \in Serving => Complete

IInv == TypeOK /\ LedgerOK /\ \A p \in Procs : ProcOK(p)

--------------------------------------------------------------------------------
(* The script. *)

Part(script) ==
  /\ \E S : script \in Seq(S)
  /\ \A v \in 1 .. Len(script) : Len(script[v]) \in 1 .. 5

LEMMA Joined ==
  ASSUME NEW s, NEW t, Part(s), Part(t)
  PROVE  Part(s \o t) /\ Len(s \o t) = Len(s) + Len(t)
  <1>1. PICK A, B : s \in Seq(A) /\ t \in Seq(B)  BY DEF Part
  <1>2. s \in Seq(A \cup B) /\ t \in Seq(A \cup B)  BY <1>1
  <1>3. s \o t \in Seq(A \cup B) /\ Len(s \o t) = Len(s) + Len(t)  BY <1>2
  <1>4. ASSUME NEW v \in 1 .. Len(s \o t) PROVE Len((s \o t)[v]) \in 1 .. 5
    <2>1. (s \o t)[v] = IF v <= Len(s) THEN s[v] ELSE t[v - Len(s)]  BY <1>2, <1>4
    <2>2. v > Len(s) => v - Len(s) \in 1 .. Len(t)  BY <1>2, <1>3
    <2>3. v <= Len(s) => v \in 1 .. Len(s)  BY <1>2
    <2> QED  BY <2>1, <2>2, <2>3 DEF Part
  <1> QED  BY <1>3, <1>4 DEF Part

LEMMA Baseline ==
  /\ Part(<< <<BaselineTables>> \o BaselineColumns >>)
  /\ Len(<< <<BaselineTables>> \o BaselineColumns >>) = 1
  <1>1. PICK s : s = <<BaselineTables>> \o BaselineColumns  OBVIOUS
  <1>2. Len(s) = 4
    <2>1. PICK a : a = <<BaselineTables>>  OBVIOUS
    <2>2. a \in Seq({BaselineTables}) /\ Len(a) = 1  BY <2>1
    <2>3. PICK c : c = BaselineColumns  OBVIOUS
    <2>4. Len(c) = 3  BY <2>3 DEF BaselineColumns
    <2>5. c = <<c[1], c[2], c[3]>>  BY <2>3 DEF BaselineColumns
    <2>6. <<c[1], c[2], c[3]>> \in Seq({c[1], c[2], c[3]})  OBVIOUS
    <2>7. PICK A, C : a \in Seq(A) /\ c \in Seq(C)  BY <2>2, <2>5, <2>6
    <2>8. a \in Seq(A \cup C) /\ c \in Seq(A \cup C)  BY <2>7
    <2>9. Len(a \o c) = Len(a) + Len(c)  BY <2>8
    <2> QED  BY <1>1, <2>1, <2>2, <2>3, <2>4, <2>9
  <1>3. PICK p : p = << s >>  OBVIOUS
  <1>4. p \in Seq({s}) /\ Len(p) = 1 /\ p[1] = s  BY <1>3
  <1>5. Part(p)  BY <1>2, <1>4 DEF Part
  <1> QED  BY <1>1, <1>3, <1>4, <1>5

LEMMA Features == Part(FirstFeatures) /\ Len(FirstFeatures) = 5
  <1>1. PICK s : s = FirstFeatures  OBVIOUS
  <1>2. Len(s) = 5  BY <1>1 DEF FirstFeatures
  <1>3. s = <<s[1], s[2], s[3], s[4], s[5]>>  BY <1>1 DEF FirstFeatures
  <1>4. /\ Len(s[1]) \in 1 .. 5 /\ Len(s[2]) \in 1 .. 5 /\ Len(s[3]) \in 1 .. 5
        /\ Len(s[4]) \in 1 .. 5 /\ Len(s[5]) \in 1 .. 5
    BY <1>1 DEF FirstFeatures
  <1>5. <<s[1], s[2], s[3], s[4], s[5]>> \in Seq({s[1], s[2], s[3], s[4], s[5]})  OBVIOUS
  <1>6. \E S : s \in Seq(S)  BY <1>3, <1>5
  <1>7. \A v \in 1 .. Len(s) : Len(s[v]) \in 1 .. 5  BY <1>2, <1>4
  <1> QED  BY <1>1, <1>2, <1>6, <1>7 DEF Part

LEMMA Publications == Part(Publishing) /\ Len(Publishing) = 6
  <1>1. PICK s : s = Publishing  OBVIOUS
  <1>2. Len(s) = 6  BY <1>1 DEF Publishing
  <1>3. s = <<s[1], s[2], s[3], s[4], s[5], s[6]>>  BY <1>1 DEF Publishing
  <1>4. /\ Len(s[1]) \in 1 .. 5 /\ Len(s[2]) \in 1 .. 5 /\ Len(s[3]) \in 1 .. 5
        /\ Len(s[4]) \in 1 .. 5 /\ Len(s[5]) \in 1 .. 5 /\ Len(s[6]) \in 1 .. 5
    BY <1>1 DEF Publishing
  <1>5. <<s[1], s[2], s[3], s[4], s[5], s[6]>> \in Seq({s[1], s[2], s[3], s[4], s[5], s[6]})  OBVIOUS
  <1>6. \E S : s \in Seq(S)  BY <1>3, <1>5
  <1>7. \A v \in 1 .. Len(s) : Len(s[v]) \in 1 .. 5  BY <1>2, <1>4
  <1> QED  BY <1>1, <1>2, <1>6, <1>7 DEF Part

LEMMA Support == Part(SupportAndShop) /\ Len(SupportAndShop) = 5
  <1>1. PICK s : s = SupportAndShop  OBVIOUS
  <1>2. Len(s) = 5  BY <1>1 DEF SupportAndShop
  <1>3. s = <<s[1], s[2], s[3], s[4], s[5]>>  BY <1>1 DEF SupportAndShop
  <1>4. /\ Len(s[1]) \in 1 .. 5 /\ Len(s[2]) \in 1 .. 5 /\ Len(s[3]) \in 1 .. 5
        /\ Len(s[4]) \in 1 .. 5 /\ Len(s[5]) \in 1 .. 5
    BY <1>1 DEF SupportAndShop
  <1>5. <<s[1], s[2], s[3], s[4], s[5]>> \in Seq({s[1], s[2], s[3], s[4], s[5]})  OBVIOUS
  <1>6. \E S : s \in Seq(S)  BY <1>3, <1>5
  <1>7. \A v \in 1 .. Len(s) : Len(s[v]) \in 1 .. 5  BY <1>2, <1>4
  <1> QED  BY <1>1, <1>2, <1>6, <1>7 DEF Part

LEMMA Communities == Part(Community) /\ Len(Community) = 6
  <1>1. PICK s : s = Community  OBVIOUS
  <1>2. Len(s) = 6  BY <1>1 DEF Community
  <1>3. s = <<s[1], s[2], s[3], s[4], s[5], s[6]>>  BY <1>1 DEF Community
  <1>4. /\ Len(s[1]) \in 1 .. 5 /\ Len(s[2]) \in 1 .. 5 /\ Len(s[3]) \in 1 .. 5
        /\ Len(s[4]) \in 1 .. 5 /\ Len(s[5]) \in 1 .. 5 /\ Len(s[6]) \in 1 .. 5
    BY <1>1 DEF Community
  <1>5. <<s[1], s[2], s[3], s[4], s[5], s[6]>> \in Seq({s[1], s[2], s[3], s[4], s[5], s[6]})  OBVIOUS
  <1>6. \E S : s \in Seq(S)  BY <1>3, <1>5
  <1>7. \A v \in 1 .. Len(s) : Len(s[v]) \in 1 .. 5  BY <1>2, <1>4
  <1> QED  BY <1>1, <1>2, <1>6, <1>7 DEF Part

LEMMA Audits == Part(AuditAndIdentity) /\ Len(AuditAndIdentity) = 3
  <1>1. PICK s : s = AuditAndIdentity  OBVIOUS
  <1>2. Len(s) = 3  BY <1>1 DEF AuditAndIdentity
  <1>3. s = <<s[1], s[2], s[3]>>  BY <1>1 DEF AuditAndIdentity
  <1>4. /\ Len(s[1]) \in 1 .. 5 /\ Len(s[2]) \in 1 .. 5 /\ Len(s[3]) \in 1 .. 5
    BY <1>1 DEF AuditAndIdentity
  <1>5. <<s[1], s[2], s[3]>> \in Seq({s[1], s[2], s[3]})  OBVIOUS
  <1>6. \E S : s \in Seq(S)  BY <1>3, <1>5
  <1>7. \A v \in 1 .. Len(s) : Len(s[v]) \in 1 .. 5  BY <1>2, <1>4
  <1> QED  BY <1>1, <1>2, <1>6, <1>7 DEF Part

LEMMA SignIns == Part(SignIn) /\ Len(SignIn) = 2
  <1>1. PICK s : s = SignIn  OBVIOUS
  <1>2. Len(s) = 2  BY <1>1 DEF SignIn
  <1>3. s = <<s[1], s[2]>>  BY <1>1 DEF SignIn
  <1>4. /\ Len(s[1]) \in 1 .. 5 /\ Len(s[2]) \in 1 .. 5
    BY <1>1 DEF SignIn
  <1>5. <<s[1], s[2]>> \in Seq({s[1], s[2]})  OBVIOUS
  <1>6. \E S : s \in Seq(S)  BY <1>3, <1>5
  <1>7. \A v \in 1 .. Len(s) : Len(s[v]) \in 1 .. 5  BY <1>2, <1>4
  <1> QED  BY <1>1, <1>2, <1>6, <1>7 DEF Part

LEMMA Rankings == Part(RankingAndShop) /\ Len(RankingAndShop) = 2
  <1>1. PICK s : s = RankingAndShop  OBVIOUS
  <1>2. Len(s) = 2  BY <1>1 DEF RankingAndShop
  <1>3. s = <<s[1], s[2]>>  BY <1>1 DEF RankingAndShop
  <1>4. /\ Len(s[1]) \in 1 .. 5 /\ Len(s[2]) \in 1 .. 5
    BY <1>1 DEF RankingAndShop
  <1>5. <<s[1], s[2]>> \in Seq({s[1], s[2]})  OBVIOUS
  <1>6. \E S : s \in Seq(S)  BY <1>3, <1>5
  <1>7. \A v \in 1 .. Len(s) : Len(s[v]) \in 1 .. 5  BY <1>2, <1>4
  <1> QED  BY <1>1, <1>2, <1>6, <1>7 DEF Part

LEMMA Retentions == Part(Retention) /\ Len(Retention) = 4
  <1>1. PICK s : s = Retention  OBVIOUS
  <1>2. Len(s) = 4  BY <1>1 DEF Retention
  <1>3. s = <<s[1], s[2], s[3], s[4]>>  BY <1>1 DEF Retention
  <1>4. /\ Len(s[1]) \in 1 .. 5 /\ Len(s[2]) \in 1 .. 5 /\ Len(s[3]) \in 1 .. 5
        /\ Len(s[4]) \in 1 .. 5
    BY <1>1 DEF Retention
  <1>5. <<s[1], s[2], s[3], s[4]>> \in Seq({s[1], s[2], s[3], s[4]})  OBVIOUS
  <1>6. \E S : s \in Seq(S)  BY <1>3, <1>5
  <1>7. \A v \in 1 .. Len(s) : Len(s[v]) \in 1 .. 5  BY <1>2, <1>4
  <1> QED  BY <1>1, <1>2, <1>6, <1>7 DEF Part

LEMMA Operating == Part(Operations) /\ Len(Operations) = 8
  <1>1. PICK s : s = Operations  OBVIOUS
  <1>2. Len(s) = 8  BY <1>1 DEF Operations
  <1>3. s = <<s[1], s[2], s[3], s[4], s[5], s[6], s[7], s[8]>>  BY <1>1 DEF Operations
  <1>4. /\ Len(s[1]) \in 1 .. 5 /\ Len(s[2]) \in 1 .. 5 /\ Len(s[3]) \in 1 .. 5
        /\ Len(s[4]) \in 1 .. 5 /\ Len(s[5]) \in 1 .. 5 /\ Len(s[6]) \in 1 .. 5
        /\ Len(s[7]) \in 1 .. 5 /\ Len(s[8]) \in 1 .. 5
    BY <1>1 DEF Operations
  <1>5. <<s[1], s[2], s[3], s[4], s[5], s[6], s[7], s[8]>> \in Seq({s[1], s[2], s[3], s[4], s[5], s[6], s[7], s[8]})  OBVIOUS
  <1>6. \E S : s \in Seq(S)  BY <1>3, <1>5
  <1>7. \A v \in 1 .. Len(s) : Len(s[v]) \in 1 .. 5  BY <1>2, <1>4
  <1> QED  BY <1>1, <1>2, <1>6, <1>7 DEF Part

(* The script has 42 versions of one to five blocks. *)
LEMMA ScriptType ==
  Len(Script) = Last /\ \A v \in Versions : Len(Script[v]) \in 1 .. 5
  <1> DEFINE p0 == << <<BaselineTables>> \o BaselineColumns >>
             p1 == p0 \o FirstFeatures
             p2 == p1 \o Publishing
             p3 == p2 \o SupportAndShop
             p4 == p3 \o Community
             p5 == p4 \o AuditAndIdentity
             p6 == p5 \o SignIn
             p7 == p6 \o RankingAndShop
             p8 == p7 \o Retention
             p9 == p8 \o Operations
  <1>0. Part(p0) /\ Len(p0) = 1  BY Baseline
  <1> HIDE DEF p0
  <1>1. Part(p1) /\ Len(p1) = 6
    <2>1. Part(p1) /\ Len(p1) = Len(p0) + Len(FirstFeatures)  BY <1>0, Joined, Features
    <2> HIDE DEF p1
    <2> QED  BY <1>0, <2>1, Features
  <1> HIDE DEF p1
  <1>2. Part(p2) /\ Len(p2) = 12
    <2>1. Part(p2) /\ Len(p2) = Len(p1) + Len(Publishing)  BY <1>1, Joined, Publications
    <2> HIDE DEF p2
    <2> QED  BY <1>1, <2>1, Publications
  <1> HIDE DEF p2
  <1>3. Part(p3) /\ Len(p3) = 17
    <2>1. Part(p3) /\ Len(p3) = Len(p2) + Len(SupportAndShop)  BY <1>2, Joined, Support
    <2> HIDE DEF p3
    <2> QED  BY <1>2, <2>1, Support
  <1> HIDE DEF p3
  <1>4. Part(p4) /\ Len(p4) = 23
    <2>1. Part(p4) /\ Len(p4) = Len(p3) + Len(Community)  BY <1>3, Joined, Communities
    <2> HIDE DEF p4
    <2> QED  BY <1>3, <2>1, Communities
  <1> HIDE DEF p4
  <1>5. Part(p5) /\ Len(p5) = 26
    <2>1. Part(p5) /\ Len(p5) = Len(p4) + Len(AuditAndIdentity)  BY <1>4, Joined, Audits
    <2> HIDE DEF p5
    <2> QED  BY <1>4, <2>1, Audits
  <1> HIDE DEF p5
  <1>6. Part(p6) /\ Len(p6) = 28
    <2>1. Part(p6) /\ Len(p6) = Len(p5) + Len(SignIn)  BY <1>5, Joined, SignIns
    <2> HIDE DEF p6
    <2> QED  BY <1>5, <2>1, SignIns
  <1> HIDE DEF p6
  <1>7. Part(p7) /\ Len(p7) = 30
    <2>1. Part(p7) /\ Len(p7) = Len(p6) + Len(RankingAndShop)  BY <1>6, Joined, Rankings
    <2> HIDE DEF p7
    <2> QED  BY <1>6, <2>1, Rankings
  <1> HIDE DEF p7
  <1>8. Part(p8) /\ Len(p8) = 34
    <2>1. Part(p8) /\ Len(p8) = Len(p7) + Len(Retention)  BY <1>7, Joined, Retentions
    <2> HIDE DEF p8
    <2> QED  BY <1>7, <2>1, Retentions
  <1> HIDE DEF p8
  <1>9. Part(p9) /\ Len(p9) = 42
    <2>1. Part(p9) /\ Len(p9) = Len(p8) + Len(Operations)  BY <1>8, Joined, Operating
    <2> HIDE DEF p9
    <2> QED  BY <1>8, <2>1, Operating
  <1> HIDE DEF p9
  <1>10. Script = p9  BY DEF Script, p0, p1, p2, p3, p4, p5, p6, p7, p8, p9
  <1> QED  BY <1>9, <1>10 DEF Part, Last, Versions

LEMMA VersionsType ==
  \A v \in Versions : /\ v \in Nat /\ v \in 1 .. Last + 1
                      /\ v + 1 \in 1 .. Last + 1 /\ v + 1 \in 0 .. Last + 1 /\ (v + 1) - 1 = v
  BY DEF Versions, Last

LEMMA SeedsType ==
  /\ Len(Services) \in Nat /\ Len(Seeds) \in Nat /\ DOMAIN Seeds = 1 .. Len(Seeds)
  /\ 1 \in DOMAIN Seeds /\ Len(Services) < Len(Seeds)
  <1> DEFINE A == {Services[k] : k \in DOMAIN Services}
             B == {Sets[k] : k \in DOMAIN Sets}
  <1>1. Services \in Seq(A) /\ Sets \in Seq(B) /\ Len(Services) > 0 /\ Len(Sets) > 0
    BY MigrationsAssumption
  <1> HIDE DEF A, B
  <1>2. Services \in Seq(A \cup B) /\ Sets \in Seq(A \cup B)  BY <1>1
  <1> QED  BY <1>1, <1>2 DEF Seeds

(* MAX(version) of versions recorded one after the other is the last of them. *)
LEMMA MaxOfSegment ==
  ASSUME NEW k \in Nat
  PROVE  MaxVersion(1 .. k) = k
  <1>1. k \in 1 .. k \cup {0} /\ \A n \in 1 .. k \cup {0} : k >= n  OBVIOUS
  <1>2. \A m \in 1 .. k \cup {0} : (\A n \in 1 .. k \cup {0} : m >= n) => m = k  BY <1>1
  <1> QED  BY <1>1, <1>2 DEF MaxVersion, Max

--------------------------------------------------------------------------------
(* A step of one process. *)

Others(p) == \A q \in Procs \ {p} : proc'[q] = proc[q]

(* The ledger and the blocks in effect only grow. *)
Grows ==
  /\ ledger # None => ledger' # None /\ ledger \subseteq ledger'
  /\ \A v \in Versions : done[v] \in Nat /\ done'[v] \in Nat /\ done'[v] >= done[v]

LEMMA Growing ==
  ASSUME Grows
  PROVE  /\ \A v \in Versions : Whole(v) => Whole(v)'
         /\ Complete => Complete'
         /\ \A v \in Versions, i \in Nat : InEffect(v, i) => InEffect(v, i)'
  <1>1. \A v \in Versions : Len(Script[v]) \in Nat  BY ScriptType
  <1>2. \A v \in Versions, i \in Nat : InEffect(v, i) => InEffect(v, i)'
    BY DEF Grows, InEffect
  <1>3. \A v \in Versions : Whole(v) => Whole(v)'  BY <1>1 DEF Grows, InEffect, Whole
  <1> QED  BY <1>2, <1>3 DEF Complete

(* What holds of the processes that stand still goes on to hold. *)
LEMMA OthersOK ==
  ASSUME TypeOK, Grows, NEW q \in Procs, proc'[q] = proc[q], ProcOK(q)
  PROVE  ProcOK(q)'
  <1>1. ASSUME Applying(q) PROVE Placed(q)'
    <2> DEFINE v == proc[q].version
               i == proc[q].block
    <2>1. v \in Nat /\ i \in Nat
      <3>1. proc[q] \in Process  BY DEF TypeOK
      <3>2. v \in 0 .. Last + 1 /\ i \in 0 .. 9  BY <3>1 DEF Process
      <3> QED  BY <3>2
    <2>2. /\ v \in 1 .. Last + 1 /\ i >= 1 /\ 1 .. v - 1 \subseteq ledger /\ ledger # None
          /\ v \in Versions => i <= Len(Script[v]) + 1 /\ InEffect(v, i - 1)
          /\ proc[q].stage = "creating" => v \in Versions /\ i <= Len(Script[v])
      BY <1>1 DEF ProcOK, Placed
    <2>3. 1 .. v - 1 \subseteq ledger'  BY <2>2 DEF Grows
    <2>4. v \in Versions => InEffect(v, i - 1)'
      <3>1. i - 1 \in Nat  BY <2>1, <2>2
      <3> QED  BY <2>2, <3>1, Growing
    <2> QED  BY <2>2, <2>3, <2>4 DEF Placed
  <1>2. proc[q].stage \in Serving => Complete'  BY Growing DEF ProcOK
  <1> QED  BY <1>1, <1>2 DEF ProcOK, Applying, Grows

(* What is recorded stays a row of whole versions when nothing is recorded. *)
LEMMA LedgerStays ==
  ASSUME LedgerOK, Grows, ledger' = ledger
  PROVE  LedgerOK'
  <1> SUFFICES ASSUME ledger # None
               PROVE  \E k \in 0 .. Last : ledger = 1 .. k /\ \A v \in 1 .. k : Whole(v)'
    BY DEF LedgerOK
  <1>1. PICK k \in 0 .. Last : ledger = 1 .. k /\ \A v \in 1 .. k : Whole(v)  BY DEF LedgerOK
  <1>2. \A v \in 1 .. k : v \in Versions  BY DEF Versions, Last
  <1> QED  BY <1>1, <1>2, Growing

(* A version after the recorded ones, all of whose blocks are in effect. *)
LEMMA LedgerGrows ==
  ASSUME LedgerOK, NEW v \in Versions, ledger # None, 1 .. v - 1 \subseteq ledger, v \notin ledger,
         Whole(v), ledger' = ledger \cup {v}, done' = done
  PROVE  LedgerOK' /\ ledger' # None
  <1>1. PICK k \in 0 .. Last : ledger = 1 .. k /\ \A w \in 1 .. k : Whole(w)  BY DEF LedgerOK
  <1>2. v \in 1 .. Last /\ v > k  BY <1>1 DEF Versions, Last
  <1>3. k = v - 1
    <2>1. CASE k < v - 1
      <3>1. v - 1 \in 1 .. v - 1 /\ v - 1 \notin 1 .. k  BY <1>2, <2>1
      <3> QED  BY <1>1, <3>1
    <2> QED  BY <1>2, <2>1
  <1>4. ledger' = 1 .. v  BY <1>1, <1>2, <1>3
  <1>5. \A w \in 1 .. v : Whole(w)'  BY <1>1, <1>2, <1>3 DEF Whole, InEffect
  <1>6. v \in 0 .. Last  BY <1>2 DEF Last
  <1> QED  BY <1>4, <1>5, <1>6, MigrationsAssumption DEF LedgerOK

(* The schema is complete when its last version is recorded. *)
LEMMA LastRecorded ==
  ASSUME LedgerOK, ledger # None, 1 .. Last \subseteq ledger \/ MaxVersion(ledger) = Last
  PROVE  Complete
  <1>1. PICK k \in 0 .. Last : ledger = 1 .. k /\ \A v \in 1 .. k : Whole(v)  BY DEF LedgerOK
  <1>2. k = Last
    <2>1. CASE MaxVersion(ledger) = Last  BY <1>1, <2>1, MaxOfSegment
    <2>2. CASE 1 .. Last \subseteq ledger
      <3>1. Last \in 1 .. k  BY <1>1, <2>2 DEF Last
      <3> QED  BY <3>1 DEF Last
    <2> QED  BY <2>1, <2>2
  <1> QED  BY <1>1, <1>2 DEF Complete, Versions

--------------------------------------------------------------------------------
(* Where a process goes. *)

LEMMA FreshType ==
  /\ Fresh \in Process /\ Fresh.stage = "open"
  /\ \A st \in Stages : /\ [Fresh EXCEPT !.stage = st] \in Process
                        /\ [Fresh EXCEPT !.stage = st].stage = st
  BY SeedsType DEF Fresh, Process, Stages, Last

LEMMA GotoEffect ==
  ASSUME TypeOK, NEW p \in Procs, NEW st \in Stages, Goto(p, st)
  PROVE  /\ proc' \in [Procs -> Process] /\ Others(p)
         /\ proc'[p].stage = st /\ proc'[p].version = proc[p].version
         /\ proc'[p].block = proc[p].block /\ proc'[p].seed = proc[p].seed
  BY DEF TypeOK, Goto, Process, Others

LEMMA FailEffect ==
  ASSUME TypeOK, NEW p \in Procs, Fail(p)
  PROVE  /\ proc' \in [Procs -> Process] /\ Others(p) /\ proc'[p].stage = "failed"
         /\ lock' \in Procs \cup {None} /\ UNCHANGED <<ledger, done, catalog>>
  <1>1. [Fresh EXCEPT !.stage = "failed"] \in Process
        /\ [Fresh EXCEPT !.stage = "failed"].stage = "failed"
    BY FreshType DEF Stages
  <1> QED  BY <1>1 DEF TypeOK, Fail, Others

LEMMA AdvanceEffect ==
  ASSUME TypeOK, NEW p \in Procs, Advance(p), proc[p].block < 9
  PROVE  /\ proc' \in [Procs -> Process] /\ Others(p)
         /\ proc'[p].stage = "running" /\ proc'[p].version = proc[p].version
         /\ proc'[p].block = proc[p].block + 1 /\ proc'[p].seed = proc[p].seed
  <1>1. proc[p] \in Process /\ proc \in [Procs -> Process]  BY DEF TypeOK
  <1>2. proc[p].block \in 0 .. 9  BY <1>1 DEF Process
  <1>3. proc[p].block + 1 \in 0 .. 9  BY <1>2
  <1>4. "running" \in Stages  BY DEF Stages
  <1>5. proc' = [proc EXCEPT ![p] =
                   [[proc[p] EXCEPT !.stage = "running"] EXCEPT !.block = proc[p].block + 1]]
    BY <1>1 DEF Advance
  <1>6. PICK new :
          new = [[proc[p] EXCEPT !.stage = "running"] EXCEPT !.block = proc[p].block + 1]
    OBVIOUS
  <1>7. /\ new \in Process /\ new.stage = "running" /\ new.version = proc[p].version
        /\ new.block = proc[p].block + 1 /\ new.seed = proc[p].seed
    BY <1>1, <1>3, <1>4, <1>6 DEF Process
  <1> QED  BY <1>1, <1>5, <1>6, <1>7 DEF Others

(* What a process must show of its step. *)
LEMMA ProcStep ==
  ASSUME IInv, NEW p \in Procs, Others(p), Grows, ProcOK(p)', LedgerOK', TypeOK'
  PROVE  IInv'
  <1>1. \A q \in Procs \ {p} : ProcOK(q)'
    BY OthersOK DEF IInv, Others
  <1> QED  BY <1>1 DEF IInv

LEMMA Still ==
  ASSUME TypeOK, UNCHANGED <<ledger, done>>
  PROVE  Grows
  BY DEF TypeOK, Grows

(* A step that writes nothing to the ledger and the schema. *)
LEMMA QuietStep ==
  ASSUME IInv, NEW p \in Procs, Others(p), UNCHANGED <<ledger, done>>, TypeOK', ProcOK(p)'
  PROVE  IInv'
  BY ProcStep, Still, LedgerStays DEF IInv

LEMMA FailStep ==
  ASSUME IInv, NEW p \in Procs, Fail(p), crashes' \in 0 .. MaxCrashes, UNCHANGED losses
  PROVE  IInv'
  <1>1. /\ proc' \in [Procs -> Process] /\ Others(p) /\ proc'[p].stage = "failed"
        /\ lock' \in Procs \cup {None} /\ UNCHANGED <<ledger, done, catalog>>
    BY FailEffect DEF IInv
  <1>2. TypeOK'
    <2>1. \A q \in Procs : proc'[q].stage \in {"seeding", "inserting", "filling"} =>
            proc'[q].seed \in DOMAIN Seeds
      BY <1>1 DEF IInv, TypeOK, Others
    <2> QED  BY <1>1, <2>1 DEF IInv, TypeOK
  <1>3. ProcOK(p)'  BY <1>1 DEF ProcOK, Applying, Serving
  <1> QED  BY <1>1, <1>2, <1>3, QuietStep

(* Types of a step that leaves the catalog and moves a process that does not seed. *)
LEMMA MigrateType ==
  ASSUME TypeOK, NEW p \in Procs, Others(p), proc' \in [Procs -> Process],
         ledger' \in (SUBSET Versions) \cup {None}, lock' \in Procs \cup {None},
         done' \in [Versions -> 0 .. 9], \A v \in Versions : done'[v] <= Len(Script[v]),
         proc'[p].stage \in {"seeding", "inserting", "filling"} => proc'[p].seed \in DOMAIN Seeds,
         UNCHANGED <<catalog, crashes, losses>>
  PROVE  TypeOK'
  <1>1. \A q \in Procs : proc'[q].stage \in {"seeding", "inserting", "filling"} =>
          proc'[q].seed \in DOMAIN Seeds
    BY DEF TypeOK, Others
  <1> QED  BY <1>1 DEF TypeOK

--------------------------------------------------------------------------------
(* Migrate. *)

Uncounted == UNCHANGED <<crashes, losses>>

LEMMA CreateLedgerStep ==
  ASSUME IInv, NEW p \in Procs, CreateLedger(p), Uncounted
  PROVE  IInv'
  <1>1. /\ proc' \in [Procs -> Process] /\ Others(p) /\ proc'[p].stage = "locking"
    BY GotoEffect DEF IInv, CreateLedger, Stages
  <1>2. ledger' = (IF ledger = None THEN {} ELSE ledger) /\ UNCHANGED <<done, lock, catalog>>
    BY DEF CreateLedger
  <1>3. ledger' # None /\ ledger' \in (SUBSET Versions) \cup {None}
    <2>1. {} = 1 .. 0 /\ 0 \in 0 .. Last  BY DEF Last
    <2>2. None # {}  BY <2>1, MigrationsAssumption
    <2> QED  BY <1>2, <2>2 DEF IInv, TypeOK
  <1>4. Grows  BY <1>2, <1>3 DEF Grows, IInv, TypeOK
  <1>5. LedgerOK'
    <2>1. CASE ledger = None
      <3>1. ledger' = 1 .. 0 /\ 0 \in 0 .. Last  BY <1>2, <2>1 DEF Last
      <3>2. \A v \in 1 .. 0 : Whole(v)'  OBVIOUS
      <3> QED  BY <3>1, <3>2 DEF LedgerOK
    <2>2. CASE ledger # None  BY <1>2, <1>4, <2>2, LedgerStays DEF IInv
    <2> QED  BY <2>1, <2>2
  <1>6. TypeOK'  BY <1>1, <1>2, <1>3, MigrateType DEF IInv, TypeOK, Uncounted
  <1>7. ProcOK(p)'  BY <1>1, <1>3 DEF ProcOK, Applying, Serving
  <1> QED  BY <1>1, <1>4, <1>5, <1>6, <1>7, ProcStep

LEMMA GetLockStep ==
  ASSUME IInv, NEW p \in Procs, GetLock(p), Uncounted
  PROVE  IInv'
  <1>1. /\ proc' \in [Procs -> Process] /\ Others(p) /\ proc'[p].stage = "reading"
    BY GotoEffect DEF IInv, GetLock, Stages
  <1>2. TypeOK'  BY <1>1, MigrateType DEF IInv, TypeOK, Uncounted, GetLock
  <1>3. ProcOK(p)'  BY <1>1 DEF IInv, GetLock, ProcOK, Applying, Serving
  <1> QED  BY <1>1, <1>2, <1>3, QuietStep DEF GetLock

(* The next version after the recorded ones, from its first block on. *)
LEMMA ReadVersionStep ==
  ASSUME IInv, NEW p \in Procs, ReadVersion(p), Uncounted
  PROVE  IInv'
  <1>1. ledger # None  BY DEF IInv, ReadVersion, ProcOK
  <1>2. PICK k \in 0 .. Last : ledger = 1 .. k  BY <1>1 DEF IInv, LedgerOK
  <1>3. MaxVersion(ledger) = k  BY <1>2, MaxOfSegment
  <1>4. /\ proc' \in [Procs -> Process] /\ Others(p)
        /\ proc'[p].stage = "running" /\ proc'[p].version = k + 1 /\ proc'[p].block = 1
    <2>1. proc[p] \in Process /\ proc \in [Procs -> Process]  BY DEF IInv, TypeOK
    <2>2. k + 1 \in 0 .. Last + 1  BY DEF Last
    <2>3. PICK new : new = [[[proc[p] EXCEPT !.stage = "running"] EXCEPT !.version = k + 1]
                              EXCEPT !.block = 1]
      OBVIOUS
    <2>4. new \in Process /\ new.stage = "running" /\ new.version = k + 1 /\ new.block = 1
      <3>1. "running" \in Stages /\ 1 \in 0 .. 9  BY DEF Stages
      <3>2. PICK mid : mid = [[proc[p] EXCEPT !.stage = "running"] EXCEPT !.version = k + 1]
        OBVIOUS
      <3>3. mid \in Process /\ mid.stage = "running" /\ mid.version = k + 1
        BY <2>1, <2>2, <3>1, <3>2 DEF Process
      <3>4. new = [mid EXCEPT !.block = 1]  BY <2>3, <3>2
      <3> QED  BY <3>1, <3>3, <3>4 DEF Process
    <2>5. proc' = [proc EXCEPT ![p] = new]  BY <1>3, <2>1, <2>3 DEF ReadVersion
    <2> QED  BY <2>1, <2>4, <2>5 DEF Others
  <1>5. TypeOK'  BY <1>4, MigrateType DEF IInv, TypeOK, Uncounted, ReadVersion
  <1>6. Placed(p)'
    <2>1. k + 1 \in 1 .. Last + 1 /\ 1 .. (k + 1) - 1 \subseteq ledger  BY <1>2 DEF Last
    <2>2. k + 1 \in Versions => 1 <= Len(Script[k + 1]) + 1 /\ done[k + 1] \in Nat
      BY ScriptType, SMTT(30) DEF IInv, TypeOK
    <2>3. ledger' = ledger /\ done' = done  BY DEF ReadVersion
    <2> QED  BY <1>4, <2>1, <2>2, <2>3 DEF Placed, InEffect
  <1>7. ProcOK(p)'  BY <1>1, <1>4, <1>6 DEF ReadVersion, ProcOK, Applying, Serving
  <1> QED  BY <1>4, <1>5, <1>7, QuietStep DEF ReadVersion

(* A process at a block, with all blocks before it in effect. *)
LEMMA BlockFacts ==
  ASSUME IInv, NEW p \in Procs, AtBlock(p) \/ proc[p].stage = "creating",
         NEW v, v = proc[p].version, NEW i, i = proc[p].block
  PROVE  /\ v \in Versions /\ i \in Nat /\ i >= 1 /\ i <= Len(Script[v]) /\ i < 9
         /\ ledger # None /\ 1 .. v - 1 \subseteq ledger
         /\ done[v] \in Nat /\ done[v] >= i - 1 /\ Len(Script[v]) \in Nat
  <1>1. Applying(p) /\ ProcOK(p)  BY DEF IInv, AtBlock, Applying
  <1>2. /\ v \in Versions /\ i >= 1 /\ i <= Len(Script[v]) /\ 1 .. v - 1 \subseteq ledger
        /\ InEffect(v, i - 1)
    BY <1>1 DEF ProcOK, Placed, AtBlock
  <1>3. proc[p] \in Process  BY DEF IInv, TypeOK
  <1>4. i \in 0 .. 9  BY <1>3 DEF Process
  <1>5. Len(Script[v]) \in 1 .. 5  BY <1>2, ScriptType
  <1>6. done[v] \in Nat  BY <1>2 DEF IInv, TypeOK
  <1>7. i \in Nat /\ i < 9 /\ Len(Script[v]) \in Nat
    <2>1. \A x \in 1 .. 5, y \in 0 .. 9 : y <= x => y \in Nat /\ y < 9 /\ x \in Nat  OBVIOUS
    <2> QED  BY <1>2, <1>4, <1>5, <2>1
  <1>8. done[v] >= i - 1  BY <1>2 DEF InEffect
  <1>9. ledger # None  BY <1>1 DEF ProcOK
  <1> QED  BY <1>2, <1>6, <1>7, <1>8, <1>9

(* The block is in effect after the step, and the process behind it. *)
LEMMA BehindBlock ==
  ASSUME IInv, NEW p \in Procs, NEW v \in Versions, v = proc[p].version, NEW i, i = proc[p].block,
         AtBlock(p) \/ proc[p].stage = "creating", Advance(p), InEffect(v, i)', Grows,
         UNCHANGED <<ledger, lock, catalog, crashes, losses>>,
         done' \in [Versions -> 0 .. 9], \A w \in Versions : done'[w] <= Len(Script[w])
  PROVE  IInv'
  <1>1. /\ i \in Nat /\ i >= 1 /\ i <= Len(Script[v]) /\ i < 9
        /\ ledger # None /\ 1 .. v - 1 \subseteq ledger /\ Len(Script[v]) \in Nat
    BY BlockFacts
  <1>2. /\ proc' \in [Procs -> Process] /\ Others(p) /\ proc'[p].stage = "running"
        /\ proc'[p].version = v /\ proc'[p].block = i + 1
    BY <1>1, AdvanceEffect DEF IInv
  <1>3. TypeOK'  BY <1>2, MigrateType DEF IInv, TypeOK
  <1>4. Placed(p)'
    <2>0. v \in 1 .. Last + 1  BY VersionsType
    <2>1. i + 1 >= 1 /\ i + 1 <= Len(Script[v]) + 1  BY <1>1
    <2>2. (i + 1) - 1 = i  BY <1>1
    <2>3. done'[v] >= i  BY DEF InEffect
    <2> QED  BY <1>1, <1>2, <2>0, <2>1, <2>2, <2>3 DEF Placed, InEffect
  <1>5. ProcOK(p)'  BY <1>1, <1>2, <1>4 DEF ProcOK, Applying, Serving
  <1>6. LedgerOK'  BY LedgerStays DEF IInv
  <1> QED  BY <1>2, <1>3, <1>5, <1>6, ProcStep

LEMMA ExecuteStep ==
  ASSUME IInv, NEW p \in Procs, AtBlock(p) \/ proc[p].stage = "creating", Execute(p), Uncounted
  PROVE  IInv'
  <1>1. PICK v, i : v = proc[p].version /\ i = proc[p].block  OBVIOUS
  <1>2. CASE Fail(p)
    BY <1>2, FailStep DEF IInv, TypeOK, Uncounted
  <1>3. CASE /\ done' = [done EXCEPT ![v] = IF InEffect(v, i) THEN done[v] ELSE i]
             /\ Advance(p) /\ UNCHANGED <<ledger, lock, catalog>>
    <2>1. /\ v \in Versions /\ i \in Nat /\ i <= Len(Script[v]) /\ i < 9 /\ done[v] \in Nat
          /\ Len(Script[v]) \in Nat
      BY <1>1, BlockFacts
    <2>2. done \in [Versions -> 0 .. 9] /\ \A w \in Versions : done[w] <= Len(Script[w])
      BY DEF IInv, TypeOK
    <2>3. done'[v] = (IF done[v] >= i THEN done[v] ELSE i)
          /\ \A w \in Versions \ {v} : done'[w] = done[w]
      BY <1>3, <2>1, <2>2 DEF InEffect
    <2>4. done' \in [Versions -> 0 .. 9]
      <3>1. i \in 0 .. 9 /\ done[v] \in 0 .. 9  BY <2>1, <2>2
      <3> QED  BY <1>3, <2>2, <3>1
    <2>5. \A w \in Versions : done'[w] <= Len(Script[w])  BY <2>1, <2>2, <2>3
    <2>6. Grows
      <3>1. \A w \in Versions : done[w] \in Nat /\ done'[w] \in Nat  BY <2>2, <2>4
      <3>2. \A w \in Versions : done'[w] >= done[w]  BY <2>1, <2>3, <3>1
      <3> QED  BY <1>3, <3>1, <3>2 DEF Grows
    <2>7. InEffect(v, i)'  BY <2>1, <2>3 DEF InEffect
    <2> QED  BY <1>1, <1>3, <2>1, <2>4, <2>5, <2>6, <2>7, BehindBlock DEF Uncounted
  <1> QED  BY <1>1, <1>2, <1>3 DEF Execute

LEMMA LookForIndexStep ==
  ASSUME IInv, NEW p \in Procs, LookForIndex(p), Uncounted
  PROVE  IInv'
  <1>1. PICK v, i : v = proc[p].version /\ i = proc[p].block  OBVIOUS
  <1>2. AtBlock(p) /\ UNCHANGED <<ledger, done, lock, catalog>>  BY DEF LookForIndex
  <1>3. CASE InEffect(v, i) /\ Advance(p)
    <2>1. v \in Versions  BY <1>1, <1>2, BlockFacts
    <2>2. Grows  BY <1>2, Still DEF IInv
    <2>3. /\ done' \in [Versions -> 0 .. 9] /\ \A w \in Versions : done'[w] <= Len(Script[w])
      BY <1>2 DEF IInv, TypeOK
    <2>4. InEffect(v, i)'  BY <1>2, <1>3 DEF InEffect
    <2> QED  BY <1>1, <1>2, <1>3, <2>1, <2>2, <2>3, <2>4, BehindBlock DEF Uncounted
  <1>4. CASE Goto(p, "creating")
    <2>1. /\ proc' \in [Procs -> Process] /\ Others(p) /\ proc'[p].stage = "creating"
          /\ proc'[p].version = v /\ proc'[p].block = i
      BY <1>1, <1>4, GotoEffect DEF IInv, Stages
    <2>2. /\ v \in Versions /\ i \in Nat /\ i >= 1 /\ i <= Len(Script[v]) /\ ledger # None
          /\ 1 .. v - 1 \subseteq ledger /\ done[v] >= i - 1 /\ Len(Script[v]) \in Nat
      BY <1>1, <1>2, BlockFacts
    <2>3. TypeOK'  BY <1>2, <2>1, MigrateType DEF IInv, TypeOK, Uncounted
    <2>4. Placed(p)'
      <3>1. v \in 1 .. Last + 1 /\ i <= Len(Script[v]) + 1  BY <2>2 DEF Versions, Last
      <3> QED  BY <1>2, <2>1, <2>2, <3>1 DEF Placed, InEffect
    <2>5. ProcOK(p)'  BY <1>2, <2>1, <2>2, <2>4 DEF ProcOK, Applying, Serving
    <2> QED  BY <1>2, <2>1, <2>3, <2>5, QuietStep
  <1> QED  BY <1>1, <1>3, <1>4 DEF LookForIndex

(* A version is recorded behind its last block, and after the version before it. *)
LEMMA RecordStep ==
  ASSUME IInv, NEW p \in Procs, Record(p), Uncounted
  PROVE  IInv'
  <1>1. PICK v : v = proc[p].version  OBVIOUS
  <1>2. CASE Fail(p)
    BY <1>2, FailStep DEF IInv, TypeOK, Uncounted
  <1>3. CASE /\ v \notin ledger /\ ledger' = ledger \cup {v}
             /\ proc' = [proc EXCEPT ![p].version = v + 1, ![p].block = 1]
             /\ UNCHANGED <<done, lock, catalog>>
    <2>1. /\ v \in Versions /\ proc[p].block > Len(Script[v]) /\ proc[p].stage = "running"
      BY <1>1 DEF Record
    <2>2. /\ ledger # None /\ 1 .. v - 1 \subseteq ledger /\ proc[p].block <= Len(Script[v]) + 1
          /\ InEffect(v, proc[p].block - 1)
      BY <1>1, <2>1 DEF IInv, ProcOK, Applying, Placed
    <2>3. Whole(v)
      <3>1. proc[p] \in Process  BY DEF IInv, TypeOK
      <3>2. proc[p].block \in 0 .. 9  BY <3>1 DEF Process
      <3>3. Len(Script[v]) \in 1 .. 5  BY <2>1, ScriptType
      <3>4. proc[p].block - 1 = Len(Script[v])  BY <2>1, <2>2, <3>2, <3>3
      <3> QED  BY <2>2, <3>4 DEF Whole
    <2>4. LedgerOK' /\ ledger' # None  BY <1>3, <2>1, <2>2, <2>3, LedgerGrows DEF IInv
    <2>5. ledger \in SUBSET Versions /\ ledger' \in SUBSET Versions
      <3>1. ledger \in SUBSET Versions  BY <2>2 DEF IInv, TypeOK
      <3> QED  BY <1>3, <2>1, <3>1
    <2>6. Grows  BY <1>3, <2>4, <2>5 DEF Grows, IInv, TypeOK
    <2>7. /\ proc' \in [Procs -> Process] /\ Others(p)
          /\ proc'[p].stage = "running" /\ proc'[p].version = v + 1 /\ proc'[p].block = 1
      <3>1. proc[p] \in Process /\ proc \in [Procs -> Process]  BY DEF IInv, TypeOK
      <3>2. v + 1 \in 0 .. Last + 1
        <4>1. \A w \in 1 .. 42 : w + 1 \in 0 .. 43  OBVIOUS
        <4>2. v \in 1 .. 42  BY <2>1 DEF Versions, Last
        <4> QED  BY <4>1, <4>2 DEF Last
      <3>3. PICK new : new = [[proc[p] EXCEPT !.version = v + 1] EXCEPT !.block = 1]  OBVIOUS
      <3>4. PICK mid : mid = [proc[p] EXCEPT !.version = v + 1]  OBVIOUS
      <3>5. mid \in Process /\ mid.stage = "running" /\ mid.version = v + 1
        BY <2>1, <3>1, <3>2, <3>4 DEF Process
      <3>6. new = [mid EXCEPT !.block = 1] /\ 1 \in 0 .. 9  BY <3>3, <3>4
      <3>7. new \in Process /\ new.stage = "running" /\ new.version = v + 1 /\ new.block = 1
        BY <3>5, <3>6 DEF Process
      <3>8. proc' = [proc EXCEPT ![p] = new]  BY <1>3, <3>1, <3>3
      <3> QED  BY <3>1, <3>7, <3>8 DEF Others
    <2>8. TypeOK'  BY <1>3, <2>5, <2>7, MigrateType DEF IInv, TypeOK, Uncounted
    <2>9. Placed(p)'
      <3>1. v + 1 \in 1 .. Last + 1 /\ (v + 1) - 1 = v  BY <2>1 DEF Versions, Last
      <3>2. 1 .. v \subseteq ledger'
        <4>1. \A w \in 1 .. v : w \in 1 .. v - 1 \/ w = v  BY <2>1 DEF Versions, Last
        <4> QED  BY <1>3, <2>2, <4>1
      <3>3. v + 1 \in Versions => 1 <= Len(Script[v + 1]) + 1 /\ done[v + 1] \in Nat
        BY ScriptType DEF IInv, TypeOK
      <3> QED  BY <1>3, <2>7, <3>1, <3>2, <3>3 DEF Placed, InEffect
    <2>10. ProcOK(p)'  BY <2>4, <2>7, <2>9 DEF ProcOK, Applying, Serving
    <2> QED  BY <2>4, <2>6, <2>7, <2>8, <2>10, ProcStep
  <1> QED  BY <1>1, <1>2, <1>3 DEF Record

LEMMA ReleaseStep ==
  ASSUME IInv, NEW p \in Procs, Release(p), Uncounted
  PROVE  IInv'
  <1>1. /\ proc' \in [Procs -> Process] /\ Others(p)
        /\ \/ proc'[p].stage = "seeding" /\ proc'[p].seed = 1
           \/ proc'[p].stage = "ready"
    <2>1. PICK new : new = IF Mode[p] = "open"
                             THEN [[Fresh EXCEPT !.stage = "seeding"] EXCEPT !.seed = 1]
                             ELSE [Fresh EXCEPT !.stage = "ready"]
      OBVIOUS
    <2>2. 1 \in 0 .. Len(Seeds) + 1  BY SeedsType
    <2>3. new \in Process /\ ((new.stage = "seeding" /\ new.seed = 1) \/ new.stage = "ready")
      BY <2>1, <2>2, FreshType DEF Process, Stages, Fresh
    <2>4. proc' = [proc EXCEPT ![p] = new]  BY <2>1 DEF Release
    <2> QED  BY <2>3, <2>4 DEF IInv, TypeOK, Others
  <1>2. UNCHANGED <<ledger, done, catalog>> /\ lock' \in Procs \cup {None}
    BY DEF Release, IInv, TypeOK
  <1>3. TypeOK'  BY <1>1, <1>2, SeedsType, MigrateType DEF IInv, TypeOK, Uncounted
  <1>4. Complete
    <2>1. /\ ledger # None /\ 1 .. proc[p].version - 1 \subseteq ledger
          /\ proc[p].version = Last + 1
      BY DEF IInv, Release, ProcOK, Applying, Placed
    <2>2. 1 .. Last \subseteq ledger  BY <2>1 DEF Last
    <2> QED  BY <2>1, <2>2, LastRecorded DEF IInv
  <1>5. ProcOK(p)'
    <2>1. Complete'  BY <1>2, <1>4 DEF Complete, Whole, InEffect
    <2> QED  BY <1>1, <2>1 DEF ProcOK, Applying, Serving
  <1> QED  BY <1>1, <1>2, <1>3, <1>5, QuietStep

LEMMA RestartStep ==
  ASSUME IInv, NEW p \in Procs, Restart(p), Uncounted
  PROVE  IInv'
  <1>1. proc' \in [Procs -> Process] /\ Others(p) /\ proc'[p].stage = "open"
    BY FreshType DEF IInv, TypeOK, Restart, Others
  <1>2. TypeOK'  BY <1>1, MigrateType DEF IInv, TypeOK, Uncounted, Restart
  <1>3. ProcOK(p)'  BY <1>1 DEF ProcOK, Applying, Serving
  <1> QED  BY <1>1, <1>2, <1>3, QuietStep DEF Restart

LEMMA MigrateStep ==
  ASSUME IInv, NEW p \in Procs, Migrate(p)
  PROVE  IInv'
  <1>1. Uncounted  BY DEF Migrate, Uncounted
  <1>2. CASE LockTimeout(p)  BY <1>1, <1>2, FailStep DEF LockTimeout, Uncounted, IInv, TypeOK
  <1>3. CASE Statement(p)  BY <1>1, <1>3, ExecuteStep DEF Statement
  <1>4. CASE CreateIndex(p)  BY <1>1, <1>4, ExecuteStep DEF CreateIndex
  <1> QED
    BY <1>1, <1>2, <1>3, <1>4, CreateLedgerStep, GetLockStep, ReadVersionStep, LookForIndexStep,
       RecordStep, ReleaseStep, RestartStep DEF Migrate

(* A server that only connects has read that the last version is recorded. *)
LEMMA RequireStep ==
  ASSUME IInv, NEW p \in Procs, RequireCurrentSchema(p)
  PROVE  IInv'
  <1>1. Uncounted /\ UNCHANGED <<ledger, done, lock, catalog>>
    BY DEF RequireCurrentSchema, Require, Uncounted
  <1>2. /\ proc' \in [Procs -> Process] /\ Others(p)
        /\ \/ proc'[p].stage = "failed"
           \/ proc'[p].stage = "ready" /\ ledger # None /\ MaxVersion(ledger) = Last
    <2>1. CASE Goto(p, "ready") /\ ledger # None /\ MaxVersion(ledger) = Last
      BY <2>1, GotoEffect DEF IInv, Stages
    <2>2. CASE proc' = [proc EXCEPT ![p] = [Fresh EXCEPT !.stage = "failed"]]
      <3>1. "failed" \in Stages  BY DEF Stages
      <3>2. PICK new : new = [Fresh EXCEPT !.stage = "failed"]  OBVIOUS
      <3>3. new \in Process /\ new.stage = "failed"  BY <3>1, <3>2, FreshType
      <3> QED  BY <2>2, <3>2, <3>3 DEF IInv, TypeOK, Others
    <2> QED  BY <2>1, <2>2 DEF RequireCurrentSchema, Require
  <1>3. TypeOK'  BY <1>1, <1>2, MigrateType DEF IInv, TypeOK, Uncounted
  <1>4. ProcOK(p)'
    <2>1. proc'[p].stage = "ready" => Complete'
      <3> SUFFICES ASSUME proc'[p].stage = "ready" PROVE Complete'  OBVIOUS
      <3>1. Complete  BY <1>2, LastRecorded DEF IInv
      <3> QED  BY <1>1, <3>1 DEF Complete, Whole, InEffect
    <2> QED  BY <1>2, <2>1 DEF ProcOK, Applying, Serving
  <1> QED  BY <1>1, <1>2, <1>3, <1>4, QuietStep

--------------------------------------------------------------------------------
(* SeedDefaultServices and SeedDefaultCatalog, on a complete schema. *)

SeedStages == {"seeding", "inserting", "filling"}

LEMMA NextSeedEffect ==
  ASSUME TypeOK, NEW p \in Procs, proc[p].stage \in SeedStages, NextSeed(p) \/ GiveUp(p)
  PROVE  /\ proc' \in [Procs -> Process] /\ Others(p)
         /\ proc'[p].stage \in {"seeding", "ready"}
         /\ proc'[p].stage = "seeding" => proc'[p].seed \in DOMAIN Seeds
  <1>1. proc[p] \in Process /\ proc \in [Procs -> Process] /\ proc[p].seed \in 1 .. Len(Seeds)
    BY SeedsType DEF TypeOK, SeedStages
  <1>2. Len(Seeds) \in Nat /\ Len(Services) \in Nat /\ Len(Services) < Len(Seeds)
        /\ DOMAIN Seeds = 1 .. Len(Seeds)
    BY SeedsType
  <1>3. ASSUME NEW s \in 0 .. Len(Seeds) + 1, NEW st \in {"seeding", "ready"},
               st = "seeding" => s \in 1 .. Len(Seeds),
               proc' = [proc EXCEPT ![p].seed = s, ![p].stage = st]
        PROVE  /\ proc' \in [Procs -> Process] /\ Others(p)
               /\ proc'[p].stage \in {"seeding", "ready"}
               /\ proc'[p].stage = "seeding" => proc'[p].seed \in DOMAIN Seeds
    <2>1. PICK new : new = [[proc[p] EXCEPT !.seed = s] EXCEPT !.stage = st]  OBVIOUS
    <2>2. new \in Process /\ new.stage = st /\ new.seed = s
      BY <1>1, <1>3, <2>1 DEF Process, Stages
    <2>3. proc' = [proc EXCEPT ![p] = new]  BY <1>1, <1>3, <2>1
    <2> QED  BY <1>1, <1>2, <1>3, <2>2, <2>3, ZenonT(40) DEF Others
  <1>4. CASE NextSeed(p)
    <2>1. proc' = [proc EXCEPT ![p].seed = proc[p].seed + 1,
                    ![p].stage = IF proc[p].seed = Len(Seeds) THEN "ready" ELSE "seeding"]
      BY <1>1, <1>4 DEF NextSeed
    <2>2. proc[p].seed + 1 \in 0 .. Len(Seeds) + 1
          /\ (proc[p].seed # Len(Seeds) => proc[p].seed + 1 \in 1 .. Len(Seeds))
      BY <1>1, <1>2
    <2> QED  BY <1>3, <2>1, <2>2
  <1>5. CASE GiveUp(p)
    <2>1. Len(Services) + 1 \in 1 .. Len(Seeds) /\ Len(Services) + 1 \in 0 .. Len(Seeds) + 1
      BY <1>2
    <2> QED  BY <1>3, <1>5, <2>1 DEF GiveUp
  <1> QED  BY <1>4, <1>5

(* The catalog is written, the schema is not. *)
LEMMA SeedingStep ==
  ASSUME IInv, NEW p \in Procs, proc[p].stage \in SeedStages, Others(p), Uncounted,
         UNCHANGED <<ledger, done, lock>>, proc' \in [Procs -> Process],
         proc'[p].stage \in SeedStages \cup {"ready"},
         proc'[p].stage \in SeedStages => proc'[p].seed \in DOMAIN Seeds,
         catalog' \in [Products -> {"absent", "listed", "filled"}]
  PROVE  IInv'
  <1>1. TypeOK'
    <2>1. \A q \in Procs : proc'[q].stage \in {"seeding", "inserting", "filling"} =>
            proc'[q].seed \in DOMAIN Seeds
      BY DEF IInv, TypeOK, Others, SeedStages
    <2> QED  BY <2>1 DEF IInv, TypeOK, Uncounted
  <1>2. Complete  BY DEF IInv, ProcOK, Serving, SeedStages
  <1>3. Complete'  BY <1>2 DEF Complete, Whole, InEffect
  <1>4. ProcOK(p)'  BY <1>3 DEF ProcOK, Applying, SeedStages
  <1> QED  BY <1>1, <1>4, QuietStep

LEMMA GotoSeed ==
  ASSUME TypeOK, NEW p \in Procs, proc[p].stage \in SeedStages, NEW st \in SeedStages, Goto(p, st)
  PROVE  /\ proc' \in [Procs -> Process] /\ Others(p) /\ proc'[p].stage \in SeedStages
         /\ proc'[p].seed \in DOMAIN Seeds
  <1>1. st \in Stages  BY DEF SeedStages, Stages
  <1> QED  BY <1>1, GotoEffect DEF TypeOK, SeedStages

LEMMA SeedDefaultsStep ==
  ASSUME IInv, NEW p \in Procs, SeedDefaults(p)
  PROVE  IInv'
  <1>1. /\ Uncounted /\ UNCHANGED <<ledger, done, lock>> /\ proc[p].stage \in SeedStages
        /\ \/ NextSeed(p)
           \/ GiveUp(p)
           \/ \E st \in SeedStages : Goto(p, st)
    BY DEF SeedDefaults, Uncounted, SkipSet, Upsert, FindProduct, InsertProduct, Fill, SeedStages
  <1>2. catalog' \in [Products -> {"absent", "listed", "filled"}]
    <2>1. catalog \in [Products -> {"absent", "listed", "filled"}]  BY DEF IInv, TypeOK
    <2> QED  BY <2>1 DEF SeedDefaults, SkipSet, Upsert, FindProduct, InsertProduct, Fill
  <1>3. CASE NextSeed(p) \/ GiveUp(p)
    <2>1. /\ proc' \in [Procs -> Process] /\ Others(p)
          /\ proc'[p].stage \in {"seeding", "ready"}
          /\ proc'[p].stage = "seeding" => proc'[p].seed \in DOMAIN Seeds
      BY <1>1, <1>3, NextSeedEffect DEF IInv
    <2>2. /\ proc'[p].stage \in SeedStages \cup {"ready"}
          /\ proc'[p].stage \in SeedStages => proc'[p].seed \in DOMAIN Seeds
      BY <2>1 DEF SeedStages
    <2> QED  BY <1>1, <1>2, <2>1, <2>2, SeedingStep
  <1>4. CASE \E st \in SeedStages : Goto(p, st)
    <2>1. /\ proc' \in [Procs -> Process] /\ Others(p) /\ proc'[p].stage \in SeedStages
          /\ proc'[p].seed \in DOMAIN Seeds
      BY <1>1, <1>4, GotoSeed DEF IInv
    <2> QED  BY <1>1, <1>2, <2>1, SeedingStep
  <1> QED  BY <1>1, <1>3, <1>4

--------------------------------------------------------------------------------
(* The server frees the lock of a connection it lost. *)
LEMMA LoseConnectionStep ==
  ASSUME IInv, NEW p \in Procs, LoseConnection(p)
  PROVE  IInv'
  <1>1. UNCHANGED <<ledger, done, proc, catalog, crashes>> /\ lock' = None
    BY DEF LoseConnection
  <1>2. losses' \in 0 .. MaxLosses
    BY MigrationsAssumption DEF LoseConnection, IInv, TypeOK
  <1>3. TypeOK'  BY <1>1, <1>2 DEF IInv, TypeOK
  <1>4. Others(p) /\ proc'[p] = proc[p] /\ Grows  BY <1>1, Still DEF Others, IInv
  <1>5. ProcOK(p)'  BY <1>4, OthersOK DEF IInv
  <1> QED  BY <1>1, <1>3, <1>4, <1>5, QuietStep

LEMMA InterruptStep ==
  ASSUME IInv, NEW p \in Procs, Interrupt(p)
  PROVE  IInv'
  <1>1. crashes' \in 0 .. MaxCrashes
    BY MigrationsAssumption DEF Interrupt, IInv, TypeOK
  <1> QED  BY <1>1, FailStep DEF Interrupt

LEMMA InitInv == Init => IInv
  <1> SUFFICES ASSUME Init PROVE IInv  OBVIOUS
  <1>1. TypeOK
    <2>1. \A v \in Versions : Len(Script[v]) \in Nat  BY ScriptType
    <2>2. proc \in [Procs -> Process] /\ \A p \in Procs : proc[p].stage = "open"
      BY FreshType DEF Init
    <2>3. \A v \in Versions : 0 <= Len(Script[v])  BY <2>1
    <2>4. crashes \in 0 .. MaxCrashes /\ losses \in 0 .. MaxLosses
      BY MigrationsAssumption DEF Init
    <2>5. done \in [Versions -> 0 .. 9] /\ \A v \in Versions : done[v] <= Len(Script[v])
      BY <2>3 DEF Init
    <2>6. ledger \in (SUBSET Versions) \cup {None} /\ lock \in Procs \cup {None}  BY DEF Init
    <2>7. catalog \in [Products -> {"absent", "listed", "filled"}]  BY DEF Init
    <2> QED  BY <2>2, <2>4, <2>5, <2>6, <2>7 DEF TypeOK
  <1>2. \A p \in Procs : proc[p].stage = "open"  BY FreshType DEF Init
  <1> QED  BY <1>1, <1>2 DEF Init, IInv, LedgerOK, ProcOK, Applying, Serving

LEMMA Invariant == Spec => []IInv
  <1>1. IInv /\ [Next]_vars => IInv'
    <2> SUFFICES ASSUME IInv, [Next]_vars PROVE IInv'  OBVIOUS
    <2>1. CASE UNCHANGED vars
      BY <2>1 DEF vars, IInv, TypeOK, LedgerOK, ProcOK, Applying, Placed, Complete, Whole, InEffect
    <2>2. CASE Next
      BY <2>2, MigrateStep, SeedDefaultsStep, RequireStep, InterruptStep, LoseConnectionStep DEF Next
    <2> QED  BY <2>1, <2>2
  <1> QED  BY <1>1, InitInv, PTL DEF Spec

(* Every variable keeps its type: no process leaves the script of versions and   *)
(* blocks or the list of seeds.                                                  *)
THEOREM TypeCorrect == Spec => []TypeOK
  BY Invariant, PTL DEF IInv

(* A version in the ledger is wholly in effect, and so is every version before   *)
(* it, for any number of processes that migrate side by side without the lock,   *)
(* and any number of interruptions (Migrate of store.go).                        *)
THEOREM LedgerIsTrue == Spec => []LedgerTrue
  <1>1. IInv => LedgerTrue
    <2> SUFFICES ASSUME IInv, ledger # None, NEW v \in ledger
                 PROVE  Whole(v) /\ (v > 1 => v - 1 \in ledger)
      BY DEF LedgerTrue, Whole
    <2>1. PICK k \in 0 .. Last : ledger = 1 .. k /\ \A w \in 1 .. k : Whole(w)
      BY DEF IInv, LedgerOK
    <2> QED  BY <2>1 DEF Last
  <1> QED  BY <1>1, Invariant, PTL

(* A process that serves stands on the complete schema, also one that only       *)
(* looked at MAX(version) while others were migrating (RequireCurrentSchema).    *)
THEOREM OnlyCompleteServed == Spec => []ServesCurrent
  <1>1. IInv => ServesCurrent
    BY DEF IInv, ProcOK, Serving, ServesCurrent, Complete, Whole
  <1> QED  BY <1>1, Invariant, PTL
================================================================================
