--------------------------- MODULE TrainingProofs ---------------------------
(***************************************************************************)
(* Proofs about the training data (pycodeagent/rl).                        *)
(*                                                                         *)
(* First what a build computes, for trajectories of any length, any        *)
(* rendering, tokenizer and options: where the calls are in the text, what *)
(* the tokens cover, how the packs hold them and what the contract finds.  *)
(* Then which build the files are of, for any runs, options and number of  *)
(* commands, wherever earlier preps of the same directory were killed or   *)
(* rejected; and, from both, that a bundle trains on calls alone, that the *)
(* trainer consumes it and that the verify command agrees with it.         *)
(*                                                                         *)
(* A schema-following dataset is what the runs did, for any tool family,   *)
(* mutation configuration, digest, seeds and calls.                        *)
(***************************************************************************)
EXTENDS TrainingPrep, SchemaFollowing, FiniteSetTheorems, NaturalsInduction,
        WellFoundedInduction, TLAPS

-----------------------------------------------------------------------------
(* What a verified bundle is.                                              *)

(* Trajectories of finished runs that the filter admits, as they are now.  *)
Admitted(loaded, filter) ==
  /\ loaded = [d \in DOMAIN loaded |-> loaded[d]]
  /\ \A d \in DOMAIN loaded :
       /\ d \in Discovered /\ source[d].trajectory.state = "whole"
       /\ loaded[d] = Loaded(d) /\ PassesFilters(Loaded(d), filter)

(* The artifacts are those of one accepted build of these trajectories     *)
(* with these options.                                                     *)
IsBuild(artifacts, o, loaded) ==
  LET ordered == OrderSamples(Dataset(loaded))
      tokenized == Tensorize(ordered, Config(o))
  IN  /\ artifacts["samples"] = [by |-> "bundle", samples |-> ordered]
      /\ artifacts["tokenized"] = tokenized
      /\ artifacts["packed"] = PackExamples(tokenized, o.max_length).sequences
      /\ artifacts["tokenizer_config"] = Config(o)
      /\ artifacts["train_config"] = o.filter
      /\ artifacts["report"] = [issues |-> {}, sample_count |-> Len(ordered)]
      /\ ValidateExamples(tokenized, "tokenized") = {}

(* Some accepted build of admitted runs computed these artifacts.          *)
BuiltOnce(artifacts) ==
  \E o \in Options : \E loaded : Admitted(loaded, o.filter) /\ IsBuild(artifacts, o, loaded)

(* A bundle whose manifest verifies is, file by file, one accepted build   *)
(* of finished runs: what is on disk of it was computed from the same      *)
(* trajectories with the same options, the contract found no issue, and    *)
(* each of these runs still is as it was, passes the recorded filter and,  *)
(* in a campaign, has its terminal record.                                 *)
VerifiedIsBuild == ManifestVerifies => BuiltOnce([a \in Artifact |-> files[a].content])

-----------------------------------------------------------------------------
(* The inductive invariant.                                                *)

(* What the directories and the output directory can hold.                 *)
ShapeFacts ==
  /\ DOMAIN files = File
  /\ DOMAIN source = Dirs
  /\ \A d \in Dirs :
       /\ DOMAIN source[d] = {"trajectory", "record"}
       /\ source[d].trajectory \in {Absent, Torn} \cup {Whole(t) : t \in Trajectories}

(* Which of its steps a prep has behind it.                                *)
Building == {"samples", "tokenized", "packed", "tokenizer_config", "train_config", "report"}

(* The steps that read the dataset back.                                   *)
Reading == {"dataset", "validate"}

(* The steps of a prep.                                                    *)
StepOfPrep ==
  Building \cup Reading \cup {"rollouts", "dataset_samples", "unlink", "manifest", "prep"}

(* A prep under way read its samples once, from runs that all loaded.      *)
JobFacts ==
  job # Idle =>
    /\ DOMAIN job = {"step", "options", "samples", "issues"}
    /\ job.step \in StepOfPrep
    /\ job.options \in Options /\ job.samples = CollectDatasetRecords(job.options.filter)
    /\ ~Unloadable
    /\ outcome \notin {"ok", "rejected"}

(* The artifacts written so far are those of the build of this prep, and   *)
(* while they are written there is no manifest.                            *)
After(s) ==
  CASE s = "rollouts" -> StepOfPrep \ {"rollouts"}
    [] s = "samples" -> {"tokenized", "packed", "tokenizer_config", "train_config", "report",
                         "manifest", "prep"}
    [] s = "tokenized" -> {"packed", "tokenizer_config", "train_config", "report", "manifest",
                           "prep"}
    [] s = "packed" -> {"tokenizer_config", "train_config", "report", "manifest", "prep"}
    [] s = "tokenizer_config" -> {"train_config", "report", "manifest", "prep"}
    [] s = "train_config" -> {"report", "manifest", "prep"}
    [] s = "report" -> {"manifest", "prep"}

(* What each step left on disk is there until the prep ends.               *)
ProgressFacts ==
  /\ job.step \in After("rollouts") => files["rollouts"] = Whole(Rollouts(job.samples))
  /\ job.step \in Reading =>
       files["samples"] = Whole([by |-> "dataset", samples |-> job.samples])
  /\ job.step \in Building \cup {"manifest"} => files["manifest"] = Absent
  /\ job.step \in After("samples") =>
       files["samples"] = Whole([by |-> "bundle", samples |-> Ordered])
  /\ job.step \in After("tokenized") => files["tokenized"] = Whole(Tokenized)
  /\ job.step \in After("packed") => files["packed"] = Whole(Packed.sequences)
  /\ job.step \in After("tokenizer_config") =>
       files["tokenizer_config"] = Whole(Config(job.options))
  /\ job.step \in After("train_config") => files["train_config"] = Whole(job.options.filter)
  /\ job.step \in After("report") =>
       /\ files["report"] = Whole([issues |-> {}, sample_count |-> Len(Ordered)])
       /\ ValidateExamples(Tokenized, "tokenized") = {}

(* Whatever happened to the artifacts since, a manifest describes a build. *)
ManifestFacts ==
  files["manifest"].state = "whole" => BuiltOnce(files["manifest"].content.artifacts)

(* After a prep that reported success, the directory holds its build and   *)
(* the rollouts it was made from.                                          *)
Accepted ==
  \E o \in Options : \E loaded :
    /\ Admitted(loaded, o.filter) /\ IsBuild([a \in Artifact |-> files[a].content], o, loaded)
    /\ files["rollouts"].content = Rollouts(Dataset(loaded))

(* So it is whenever a prep reported success.                              *)
AcceptedFacts == outcome = "ok" => Accepted

(* What every reachable state satisfies.                                   *)
PrepInvariant ==
  /\ ShapeFacts
  /\ JobFacts
  /\ ProgressFacts
  /\ ManifestFacts
  /\ OutcomeMatchesManifest
  /\ AcceptedFacts

-----------------------------------------------------------------------------
(* Naturals are well ordered: induction is by the smallest counterexample. *)
LEMMA Least ==
  ASSUME NEW S, S \subseteq Nat, S # {}
  PROVE  \E n \in S : \A m \in S : n <= m
<1> DEFINE R == OpToRel(<, Nat)
<1>1. \A x, y \in Nat : <<x, y>> \in R <=> x < y
  BY DEF OpToRel
<1>2. IsWellFoundedOn(R, Nat)
  BY NatLessThanWellFounded
<1> HIDE DEF R
<1>3. \E n \in S : \A m \in S : ~(<<m, n>> \in R)
  BY <1>2, WFMin
<1>4. PICK n \in S : \A m \in S : ~(<<m, n>> \in R)
  BY <1>3
<1>5. \A m \in S : m \in Nat /\ ~(m < n)
  BY <1>1, <1>4
<1> QED BY <1>5

(* Induction up to n, for the set of numbers for which something holds.    *)
LEMMA UpTo ==
  ASSUME NEW n \in Nat, NEW T, 0 \in T, \A i \in 1..n : i - 1 \in T => i \in T
  PROVE  0..n \subseteq T
<1> DEFINE S == {i \in 0..n : i \notin T}
<1> SUFFICES ASSUME S # {} PROVE FALSE
  OBVIOUS
<1>0. S \subseteq 0..n /\ S \subseteq Nat /\ 0 \notin S
  OBVIOUS
<1> HIDE DEF S
<1>1. PICK i \in S : \A m \in S : i <= m
  BY <1>0, Least
<1>2. i \in 1..n /\ i - 1 \in 0..n /\ i - 1 < i
  BY <1>0
<1> QED BY <1>1, <1>2 DEF S

-----------------------------------------------------------------------------
(* Lists.                                                                  *)
IsList(s) == Len(s) \in Nat /\ s = [k \in 1..Len(s) |-> s[k]]

(* A list is a sequence over its own elements.                             *)
LEMMA ListIs ==
  ASSUME NEW s, IsList(s)
  PROVE  s \in Seq({s[k] : k \in 1..Len(s)}) /\ DOMAIN s = 1..Len(s)
<1>1. PICK n \in Nat : n = Len(s)
  BY DEF IsList
<1>2. s = [k \in 1..n |-> s[k]]
  BY <1>1 DEF IsList
<1> QED BY <1>1, <1>2

(* A sequence is a list.                                                   *)
LEMMA IsAList ==
  ASSUME NEW S, NEW s \in Seq(S)
  PROVE  IsList(s)
BY DEF IsList

(* A list that is given by its elements.                                   *)
LEMMA ListOf ==
  ASSUME NEW n \in Nat, NEW f, f = [k \in 1..n |-> f[k]]
  PROVE  IsList(f) /\ Len(f) = n /\ DOMAIN f = 1..n
<1>1. f \in Seq({f[k] : k \in 1..n}) /\ Len(f) = n
  OBVIOUS
<1> QED BY <1>1 DEF IsList

-----------------------------------------------------------------------------
(* Ends: the parts lie end to end.                                         *)
LEMMA EndsIs ==
  ASSUME NEW s \in Seq(Nat)
  PROVE  /\ Ends(s) \in [0..Len(s) -> Nat] /\ Ends(s)[0] = 0
         /\ \A i \in 1..Len(s) : Ends(s)[i] = Ends(s)[i - 1] + s[i]
<1> DEFINE n == Len(s)
           Is(f, m) == f \in [0..m -> Nat] /\ f[0] = 0 /\ \A i \in 1..m : f[i] = f[i - 1] + s[i]
           T == {m \in 0..n : \E f : Is(f, m)}
<1>0. n \in Nat
  OBVIOUS
<1>1. 0 \in T
  <2>1. \E f : Is(f, 0)
    <3>1. Is([i \in 0..0 |-> 0], 0)
      OBVIOUS
    <3> HIDE DEF Is
    <3> QED BY <3>1
  <2> QED BY <1>0, <2>1
<1>2. ASSUME NEW m \in 1..n, m - 1 \in T PROVE m \in T
  <2>1. PICK f : Is(f, m - 1)
    BY <1>2
  <2>2. f[m - 1] \in Nat /\ s[m] \in Nat
    BY <2>1
  <2>3. \E h : Is(h, m)
    <3> DEFINE h == [i \in 0..m |-> IF i = m THEN f[m - 1] + s[m] ELSE f[i]]
    <3>1. h \in [0..m -> Nat]
      BY <2>1, <2>2
    <3>2. h[0] = 0 /\ \A i \in 1..m - 1 : h[i] = f[i] /\ h[i - 1] = f[i - 1]
      BY <2>1
    <3>3. h[m] = f[m - 1] + s[m] /\ h[m - 1] = f[m - 1]
      OBVIOUS
    <3>4. \A i \in 1..m : i = m \/ i \in 1..m - 1
      OBVIOUS
    <3>5. Is(f, m - 1)
      BY <2>1
    <3> HIDE DEF h
    <3>6. Is(h, m)
      BY <3>1, <3>2, <3>3, <3>4, <3>5
    <3> QED BY <3>6
  <2> HIDE DEF Is
  <2> QED BY <2>3
<1> HIDE DEF T
<1>3. n \in T
  <2> HIDE DEF n
  <2>1. 0..n \subseteq T
    BY <1>0, <1>1, <1>2, UpTo
  <2> QED BY <1>0, <2>1
<1>4. PICK f : Is(f, n)
  BY <1>3 DEF T
<1>5. f = [i \in 0..n |-> IF i = 0 THEN 0 ELSE f[i - 1] + s[i]]
  BY <1>4
<1> DEFINE g == CHOOSE g : g = [i \in 0..n |-> IF i = 0 THEN 0 ELSE g[i - 1] + s[i]]
<1>6. g = Ends(s)
  BY DEF Ends
<1>7. g = [i \in 0..n |-> IF i = 0 THEN 0 ELSE g[i - 1] + s[i]]
  BY <1>5
<1> HIDE DEF g
<1>8. g[0] = 0 /\ \A i \in 1..n : g[i] = g[i - 1] + s[i]
  BY <1>7
<1>9. \A i \in 0..n : g[i] \in Nat
  <2> DEFINE U == {i \in 0..n : g[i] \in Nat}
  <2>1. \A i \in 1..n : s[i] \in Nat
    OBVIOUS
  <2>2. 0 \in U /\ \A i \in 1..n : i - 1 \in U => i \in U
    BY SMTT(30), <1>8, <2>1
  <2> HIDE DEF U
  <2> HIDE DEF n
  <2>3. 0..n \subseteq U
    BY <1>0, <2>2, UpTo
  <2> QED BY <2>3 DEF U
<1>10. g \in [0..n -> Nat]
  BY <1>7, <1>9
<1> QED BY <1>6, <1>8, <1>10

(* Any function that goes on in the same steps is this one.                *)
LEMMA EndsAre ==
  ASSUME NEW s \in Seq(Nat), NEW f, f[0] = 0, \A i \in 1..Len(s) : f[i] = f[i - 1] + s[i]
  PROVE  \A i \in 0..Len(s) : f[i] = Ends(s)[i]
<1> DEFINE U == {i \in 0..Len(s) : f[i] = Ends(s)[i]}
<1>1. 0 \in U /\ \A i \in 1..Len(s) : i - 1 \in U => i \in U
  BY EndsIs
<1> HIDE DEF U
<1>2. 0..Len(s) \subseteq U
  <2> DEFINE n == Len(s)
  <2>1. n \in Nat
    OBVIOUS
  <2>2. \A i \in 1..n : i - 1 \in U => i \in U
    BY <1>1
  <2> HIDE DEF n
  <2>3. 0..n \subseteq U
    BY <1>1, <2>1, <2>2, UpTo
  <2> QED BY <2>3 DEF n
<1> QED BY <1>2 DEF U

(* The ends never decrease and none passes the total.                      *)
LEMMA EndsGrow ==
  ASSUME NEW s \in Seq(Nat), NEW i \in 0..Len(s), NEW j \in i..Len(s)
  PROVE  Ends(s)[i] <= Ends(s)[j] /\ Ends(s)[j] <= Total(s) /\ Total(s) \in Nat
         /\ Ends(s)[i] \in Nat /\ Ends(s)[j] \in Nat
<1> DEFINE n == Len(s)
           e == Ends(s)
<1>0. n \in Nat /\ i \in 0..n /\ j \in i..n /\ j \in 0..n
  OBVIOUS
<1>1. /\ e \in [0..n -> Nat]
      /\ \A k \in 1..n : e[k] = e[k - 1] + s[k] /\ s[k] \in Nat
  BY EndsIs
<1>3. Total(s) = e[n]
  BY DEF Total
<1> HIDE DEF n, e
<1>2. ASSUME NEW m \in 0..n PROVE \A k \in m..n : e[m] <= e[k]
  <2> DEFINE U == {k \in 0..n : k >= m => e[m] <= e[k]}
  <2>1. 0 \in U
    <3>1. 0 \in 0..n /\ (0 >= m => m = 0) /\ e[0] \in Nat
      BY <1>0, <1>1
    <3> QED BY <3>1
  <2>2. ASSUME NEW k \in 1..n, k - 1 \in U PROVE k \in U
    <3>1. e[k] = e[k - 1] + s[k] /\ s[k] \in Nat
          /\ e[k] \in Nat /\ e[k - 1] \in Nat /\ e[m] \in Nat
      <4>1. k \in 0..n /\ k - 1 \in 0..n
        BY <1>0
      <4> QED BY <1>1, <4>1
    <3> QED BY <1>0, <2>2, <3>1
  <2> HIDE DEF U
  <2>3. 0..n \subseteq U
    BY <1>0, <2>1, <2>2, UpTo
  <2> QED BY <1>0, <2>3 DEF U
<1>4. e[i] \in Nat /\ e[j] \in Nat /\ e[n] \in Nat
  BY <1>0, <1>1
<1>5. e[i] <= e[j] /\ e[j] <= e[n]
  BY <1>0, <1>2
<1> QED BY <1>3, <1>4, <1>5 DEF e

(* Each place below the total lies in one part.                            *)
LEMMA EndsFind ==
  ASSUME NEW s \in Seq(Nat), NEW c \in Nat, c < Total(s)
  PROVE  \E i \in 1..Len(s) : Ends(s)[i - 1] <= c /\ c < Ends(s)[i]
<1> DEFINE S == {i \in 0..Len(s) : c < Ends(s)[i]}
<1>1. Len(s) \in S /\ S \subseteq Nat
  BY DEF Total
<1>3. Ends(s)[0] = 0 /\ Ends(s) \in [0..Len(s) -> Nat]
  BY EndsIs
<1>6. 0 \notin S
  BY <1>3
<1> HIDE DEF S
<1>2. PICK i \in S : \A m \in S : i <= m
  BY <1>1, Least
<1>4. i \in 1..Len(s) /\ i - 1 \in 0..Len(s)
  BY <1>1, <1>6 DEF S
<1>5. i - 1 \notin S
  BY <1>2, <1>4
<1> QED BY SMTT(30), <1>2, <1>3, <1>4, <1>5 DEF S

(* A position lies in one part only.                                       *)
LEMMA EndsApart ==
  ASSUME NEW s \in Seq(Nat), NEW i \in 1..Len(s), NEW j \in 1..Len(s), NEW c \in Nat,
         Ends(s)[i - 1] <= c, c < Ends(s)[i], Ends(s)[j - 1] <= c, c < Ends(s)[j]
  PROVE  i = j
<1>1. i < j => Ends(s)[i] <= Ends(s)[j - 1] /\ Ends(s)[i] \in Nat /\ Ends(s)[j - 1] \in Nat
  BY EndsGrow
<1>2. j < i => Ends(s)[j] <= Ends(s)[i - 1] /\ Ends(s)[j] \in Nat /\ Ends(s)[i - 1] \in Nat
  BY EndsGrow
<1> QED BY SMTT(30), <1>1, <1>2

(* A concatenation holds the one sequence and then the other.              *)
LEMMA ConcatIs ==
  ASSUME NEW S, NEW a \in Seq(S), NEW b \in Seq(S)
  PROVE  /\ a \o b \in Seq(S) /\ Len(a \o b) = Len(a) + Len(b) /\ Len(a) \in Nat /\ Len(b) \in Nat
         /\ \A k \in 1..Len(a) : (a \o b)[k] = a[k]
         /\ \A k \in 1..Len(b) : (a \o b)[Len(a) + k] = b[k]
OBVIOUS

(* Flattening: part i of the whole begins where the parts before it end.   *)
Sizes(seqs) == [i \in DOMAIN seqs |-> Len(seqs[i])]

(* A list of n lists.                                                      *)
IsLists(n, seqs) == seqs = [i \in 1..n |-> seqs[i]] /\ \A i \in 1..n : IsList(seqs[i])

(* The sizes of the parts, one for each.                                   *)
LEMMA SizesAre ==
  ASSUME NEW n \in Nat, NEW seqs, IsLists(n, seqs)
  PROVE  /\ Sizes(seqs) \in Seq(Nat) /\ Len(Sizes(seqs)) = n
         /\ \A i \in 1..n : Sizes(seqs)[i] = Len(seqs[i])
<1> USE DEF IsLists
<1>1. \A i \in 1..n : Len(seqs[i]) \in Nat
  BY DEF IsList
<1>2. DOMAIN seqs = 1..n
  OBVIOUS
<1>3. Sizes(seqs) = [i \in 1..n |-> Len(seqs[i])]
  BY <1>2 DEF Sizes
<1>4. PICK q : q = [i \in 1..n |-> Len(seqs[i])]
  OBVIOUS
<1>5. q = [i \in 1..n |-> q[i]] /\ \A i \in 1..n : q[i] = Len(seqs[i]) /\ q[i] \in Nat
  BY <1>1, <1>4
<1>6. q \in Seq(Nat) /\ Len(q) = n
  BY <1>5
<1> QED BY <1>3, <1>4, <1>5, <1>6

(* Every element of every part has its place in the whole.                 *)
LEMMA FlatIs ==
  ASSUME NEW n \in Nat, NEW seqs, IsLists(n, seqs)
  PROVE  /\ IsList(FlattenSeq(seqs)) /\ Len(FlattenSeq(seqs)) = Total(Sizes(seqs))
         /\ Total(Sizes(seqs)) = Ends(Sizes(seqs))[n]
         /\ \A i \in 1..n : \A k \in 1..Len(seqs[i]) :
              /\ Ends(Sizes(seqs))[i - 1] + k \in 1..Total(Sizes(seqs))
              /\ FlattenSeq(seqs)[Ends(Sizes(seqs))[i - 1] + k] = seqs[i][k]
<1> USE DEF IsLists
<1> DEFINE z == Sizes(seqs)
           e == Ends(z)
           S == UNION {{seqs[i][k] : k \in 1..Len(seqs[i])} : i \in 1..n}
<1>1. /\ z \in Seq(Nat) /\ Len(z) = n /\ \A i \in 1..n : z[i] = Len(seqs[i])
  BY SMTT(30), SizesAre
<1>2. ASSUME NEW i \in 1..n PROVE seqs[i] \in Seq(S) /\ Len(seqs[i]) \in Nat
  <2>1. seqs[i] \in Seq({seqs[i][k] : k \in 1..Len(seqs[i])}) /\ IsList(seqs[i])
    BY ListIs
  <2>2. {seqs[i][k] : k \in 1..Len(seqs[i])} \subseteq S
    OBVIOUS
  <2>3. PICK R : R = {seqs[i][k] : k \in 1..Len(seqs[i])}
    OBVIOUS
  <2>4. seqs[i] \in Seq(R) /\ R \subseteq S
    BY <2>1, <2>2, <2>3
  <2> HIDE DEF S
  <2> QED BY <2>1, <2>4 DEF IsList
<1>3. /\ e[0] = 0 /\ \A i \in 1..n : e[i] = e[i - 1] + z[i]
      /\ \A i \in 0..n : e[i] \in Nat /\ e[i] <= e[n]
      /\ Total(z) = e[n]
  <2>1. e \in [0..n -> Nat] /\ e[0] = 0 /\ \A i \in 1..n : e[i] = e[i - 1] + z[i]
    BY <1>1, EndsIs
  <2>2. \A i \in 0..n : e[i] <= e[n]
    <3> TAKE i \in 0..n
    <3>1. n \in i..Len(z) /\ i \in 0..Len(z)
      BY <1>1
    <3> HIDE DEF z
    <3> QED BY <1>1, <3>1, EndsGrow
  <2>3. Total(z) = e[n]
    BY <1>1 DEF Total
  <2> QED BY <2>1, <2>2, <2>3
<1> DEFINE Is(f, m) == f = [i \in 1..m |-> IF i = 1 THEN seqs[i] ELSE f[i - 1] \o seqs[i]]
<1>4. \E f : Is(f, n)
  <2> DEFINE T == {m \in 0..n : \E f : Is(f, m)}
  <2>1. 0 \in T
    <3>1. Is([i \in 1..0 |-> 0], 0)
      OBVIOUS
    <3> HIDE DEF Is
    <3>2. \E f : Is(f, 0)
      BY <3>1
    <3> QED BY <3>2
  <2>2. ASSUME NEW m \in 1..n, m - 1 \in T PROVE m \in T
    <3>1. PICK f : Is(f, m - 1)
      BY <2>2
    <3> DEFINE h == [i \in 1..m |-> IF i = m THEN (IF m = 1 THEN seqs[m] ELSE f[m - 1] \o seqs[m])
                                             ELSE f[i]]
    <3>2. \A i \in 1..m - 1 : h[i] = f[i]
      OBVIOUS
    <3>3. h[m] = IF m = 1 THEN seqs[m] ELSE f[m - 1] \o seqs[m]
      OBVIOUS
    <3>4. \A i \in 1..m : (i = m \/ i \in 1..m - 1) /\ (i # 1 => i - 1 \in 1..m - 1)
      OBVIOUS
    <3>5. \A i \in 1..m - 1 : f[i] = IF i = 1 THEN seqs[i] ELSE f[i - 1] \o seqs[i]
      BY <3>1
    <3>6. \A i \in 1..m : h[i] = IF i = 1 THEN seqs[i] ELSE h[i - 1] \o seqs[i]
      <4> HIDE DEF h
      <4> QED BY <3>2, <3>3, <3>4, <3>5
    <3>7. h = [i \in 1..m |-> h[i]]
      OBVIOUS
    <3> HIDE DEF h
    <3>8. h = [i \in 1..m |-> IF i = 1 THEN seqs[i] ELSE h[i - 1] \o seqs[i]]
      BY <3>6, <3>7
    <3>9. Is(h, m)
      BY <3>8
    <3> HIDE DEF Is
    <3>10. \E g : Is(g, m)
      BY <3>9
    <3> QED BY <3>10
  <2> HIDE DEF T
  <2>3. 0..n \subseteq T
    BY <2>1, <2>2, UpTo
  <2>4. n \in T
    BY <2>3
  <2> QED BY <2>4 DEF T
<1> DEFINE g == CHOOSE g : g = [i \in 1..n |-> IF i = 1 THEN seqs[i] ELSE g[i - 1] \o seqs[i]]
<1>5. g = [i \in 1..n |-> IF i = 1 THEN seqs[i] ELSE g[i - 1] \o seqs[i]]
  BY <1>4
<1>6. Len(seqs) = n
  OBVIOUS
<1>7. n # 0 => FlattenSeq(seqs) = g[n]
  BY <1>6 DEF FlattenSeq
<1>8. n = 0 => FlattenSeq(seqs) = <<>>
  BY <1>6 DEF FlattenSeq
<1> DEFINE Flat(m) == IF m = 0 THEN <<>> ELSE g[m]
           Good(m) == /\ Flat(m) \in Seq(S) /\ Len(Flat(m)) = e[m]
                      /\ \A i \in 1..m : \A k \in 1..Len(seqs[i]) :
                           e[i - 1] + k \in 1..e[m] /\ Flat(m)[e[i - 1] + k] = seqs[i][k]
<1> HIDE DEF g
<1>9. \A m \in 1..n : Flat(m) = Flat(m - 1) \o seqs[m]
  <2> TAKE m \in 1..n
  <2>0. g[m] = IF m = 1 THEN seqs[m] ELSE g[m - 1] \o seqs[m]
    BY <1>5
  <2>1. m # 1 => m - 1 # 0 /\ g[m] = g[m - 1] \o seqs[m]
    BY <2>0
  <2>2. m = 1 => g[m] = seqs[m] /\ m - 1 = 0
    BY <1>5
  <2>3. <<>> \o seqs[m] = seqs[m]
    BY <1>2
  <2>4. m # 0
    OBVIOUS
  <2> QED BY <2>1, <2>2, <2>3, <2>4
<1>10. FlattenSeq(seqs) = Flat(n)
  BY <1>7, <1>8
<1>11. Flat(0) = <<>>
  OBVIOUS
<1> HIDE DEF Flat, S
<1> HIDE DEF e
<1>12. Good(0)
  <2>0. <<>> \in Seq(S) /\ Len(<<>>) = 0
    OBVIOUS
  <2>1. Flat(0) \in Seq(S) /\ Len(Flat(0)) = 0
    BY <1>11, <2>0
  <2>2. e[0] = 0 /\ \A i \in 1..0 : FALSE
    BY <1>3
  <2> HIDE DEF Flat
  <2> QED BY <2>1, <2>2
<1>13. ASSUME NEW m \in 1..n, Good(m - 1) PROVE Good(m)
  <2>1. /\ Flat(m - 1) \in Seq(S) /\ Len(Flat(m - 1)) = e[m - 1]
        /\ \A i \in 1..m - 1 : \A k \in 1..Len(seqs[i]) :
             e[i - 1] + k \in 1..e[m - 1] /\ Flat(m - 1)[e[i - 1] + k] = seqs[i][k]
    BY <1>13
  <2>2. /\ Flat(m) \in Seq(S) /\ Len(Flat(m)) = Len(Flat(m - 1)) + Len(seqs[m])
        /\ \A k \in 1..Len(Flat(m - 1)) : Flat(m)[k] = Flat(m - 1)[k]
        /\ \A k \in 1..Len(seqs[m]) : Flat(m)[Len(Flat(m - 1)) + k] = seqs[m][k]
    <3>1. Flat(m) = Flat(m - 1) \o seqs[m] /\ seqs[m] \in Seq(S)
      BY <1>2, <1>9
    <3>2. PICK a, b : a = Flat(m - 1) /\ b = seqs[m]
      OBVIOUS
    <3>3. a \in Seq(S) /\ b \in Seq(S) /\ Flat(m) = a \o b
      BY <2>1, <3>1, <3>2
    <3> QED BY <3>2, <3>3, ConcatIs
  <2>3. e[m] = e[m - 1] + Len(seqs[m]) /\ e[m - 1] \in Nat /\ Len(seqs[m]) \in Nat /\ e[m] \in Nat
    <3>1. m \in 0..n /\ m - 1 \in 0..n /\ m \in 1..n
      OBVIOUS
    <3>2. e[m] = e[m - 1] + z[m] /\ z[m] = Len(seqs[m])
      BY <1>1, <1>3
    <3> QED BY <1>2, <1>3, <3>1, <3>2
  <2>4. ASSUME NEW i \in 1..m, NEW k \in 1..Len(seqs[i])
        PROVE  e[i - 1] + k \in 1..e[m] /\ Flat(m)[e[i - 1] + k] = seqs[i][k]
    <3>1. CASE i = m
      BY SMTT(30), <3>1, <2>1, <2>2, <2>3
    <3>2. CASE i # m
      <4>1. i \in 1..m - 1
        BY <3>2
      <4>2. e[i - 1] + k \in 1..e[m - 1] /\ Flat(m - 1)[e[i - 1] + k] = seqs[i][k]
        BY <4>1, <2>1
      <4>3. e[i - 1] + k \in 1..Len(Flat(m - 1))
        BY <4>2, <2>1
      <4>4. Flat(m)[e[i - 1] + k] = Flat(m - 1)[e[i - 1] + k]
        BY <4>3, <2>2
      <4> QED BY <4>2, <4>4, <2>3
    <3> QED BY <3>1, <3>2
  <2> QED BY <2>1, <2>2, <2>3, <2>4
<1>14. Good(n)
  <2> HIDE DEF Good
  <2> DEFINE U == {m \in 0..n : Good(m)}
  <2>1. 0 \in U
    BY <1>12
  <2>2. \A m \in 1..n : m - 1 \in U => m \in U
    BY <1>13
  <2> HIDE DEF U
  <2>3. 0..n \subseteq U
    BY <2>1, <2>2, UpTo
  <2>4. n \in U
    BY <2>3
  <2> QED BY <2>4 DEF U
<1>15. IsList(Flat(n))
  BY <1>14, IsAList
<1>16. /\ Len(FlattenSeq(seqs)) = e[n] /\ Total(z) = e[n]
       /\ \A i \in 1..n : \A k \in 1..Len(seqs[i]) :
            /\ e[i - 1] + k \in 1..e[n] /\ FlattenSeq(seqs)[e[i - 1] + k] = seqs[i][k]
  BY <1>3, <1>10, <1>14
<1> HIDE DEF z
<1> QED BY <1>10, <1>15, <1>16 DEF z, e

(* ... and every place of the whole lies in one of the parts.              *)
LEMMA FlatFind ==
  ASSUME NEW n \in Nat, NEW seqs, IsLists(n, seqs),
         NEW c \in 1..Len(FlattenSeq(seqs))
  PROVE  \E i \in 1..n : \E k \in 1..Len(seqs[i]) : c = Ends(Sizes(seqs))[i - 1] + k
<1> USE DEF IsLists
<1> DEFINE z == Sizes(seqs)
<1>1. /\ z \in Seq(Nat) /\ Len(z) = n /\ \A i \in 1..n : z[i] = Len(seqs[i])
  BY SMTT(30), SizesAre
<1>2. Len(FlattenSeq(seqs)) = Total(z)
  BY FlatIs
<1> HIDE DEF z
<1>3. Total(z) \in Nat
  BY <1>1, EndsGrow
<1>4. c - 1 \in Nat /\ c - 1 < Total(z)
  BY <1>2, <1>3
<1>5. PICK i \in 1..Len(z) : Ends(z)[i - 1] <= c - 1 /\ c - 1 < Ends(z)[i]
  BY <1>1, <1>4, EndsFind
<1>6. /\ Ends(z)[i] = Ends(z)[i - 1] + Len(seqs[i]) /\ Ends(z)[i - 1] \in Nat
      /\ Len(seqs[i]) \in Nat
  <2>1. i - 1 \in 0..Len(z)
    BY <1>1
  <2> QED BY <1>1, <2>1, EndsIs DEF IsList
<1>7. c - Ends(z)[i - 1] \in 1..Len(seqs[i])
  BY <1>5, <1>6
<1>8. c = Ends(z)[i - 1] + (c - Ends(z)[i - 1])
  BY <1>6
<1> QED BY <1>1, <1>7, <1>8 DEF z

(* Where a list goes through another, so do the ends.                      *)
LEMMA EndsShift ==
  ASSUME NEW s \in Seq(Nat), NEW p \in Seq(Nat), NEW b \in Nat, b + Len(p) <= Len(s),
         \A k \in 1..Len(p) : s[b + k] = p[k]
  PROVE  \A k \in 0..Len(p) : Ends(s)[b + k] = Ends(s)[b] + Ends(p)[k]
<1> DEFINE n == Len(p)
           U == {k \in 0..n : Ends(s)[b + k] = Ends(s)[b] + Ends(p)[k]}
<1>0. n \in Nat
  OBVIOUS
<1>1. /\ Ends(s) \in [0..Len(s) -> Nat] /\ Ends(p) \in [0..n -> Nat] /\ Ends(p)[0] = 0
      /\ \A i \in 1..Len(s) : Ends(s)[i] = Ends(s)[i - 1] + s[i]
      /\ \A i \in 1..n : Ends(p)[i] = Ends(p)[i - 1] + p[i]
  BY EndsIs
<1>2. Len(s) \in Nat /\ b \in 0..Len(s)
  OBVIOUS
<1>3. 0 \in U
  <2>1. Ends(s)[b] \in Nat /\ b + 0 = b
    BY SMTT(30), <1>1, <1>2
  <2>2. Ends(s)[b + 0] = Ends(s)[b] + Ends(p)[0]
    BY <1>1, <2>1
  <2> QED BY <1>0, <2>2
<1>4. ASSUME NEW k \in 1..n, k - 1 \in U PROVE k \in U
  <2>1. b + k \in 1..Len(s) /\ (b + k) - 1 = b + (k - 1) /\ b + (k - 1) \in 0..Len(s)
    BY <1>2
  <2>2. Ends(s)[b + k] = Ends(s)[b + (k - 1)] + s[b + k] /\ Ends(p)[k] = Ends(p)[k - 1] + p[k]
    BY <1>1, <2>1
  <2>3. Ends(s)[b + (k - 1)] = Ends(s)[b] + Ends(p)[k - 1]
    BY <1>4
  <2>4. s[b + k] = p[k] /\ p[k] \in Nat
    BY SMTT(30)
  <2>5. Ends(s)[b] \in Nat
    BY <1>1, <1>2
  <2>6. k - 1 \in 0..n /\ k \in 0..n
    BY <1>0
  <2>7. Ends(p)[k - 1] \in Nat
    BY <1>1, <2>6
  <2>8. Ends(s)[b + k] = Ends(s)[b] + Ends(p)[k]
    <3> HIDE DEF n
    <3> QED BY SMTT(30), <2>2, <2>3, <2>4, <2>5, <2>7
  <2> QED BY <2>6, <2>8
<1> HIDE DEF U
<1>5. 0..n \subseteq U
  <2> HIDE DEF n
  <2> QED BY <1>0, <1>3, <1>4, UpTo
<1> QED BY <1>5 DEF U

-----------------------------------------------------------------------------
(* InOrder lists a set.                                                    *)
Orders(S, before) ==
  /\ \A x \in S : before[x] \subseteq S /\ x \notin before[x]
  /\ \A x, y \in S : x # y => x \in before[y] \/ y \in before[x]
  /\ \A x, y \in S : x \in before[y] => before[x] \subseteq before[y]

(* InOrder lists every element of the set, one at each rank.               *)
LEMMA RankedIs ==
  ASSUME NEW S, IsFiniteSet(S), NEW before, Orders(S, before)
  PROVE  /\ Cardinality(S) \in Nat
         /\ IsList(InOrder(S, before)) /\ Len(InOrder(S, before)) = Cardinality(S)
         /\ \A k \in 1..Cardinality(S) : InOrder(S, before)[k] \in S
         /\ \A x \in S : \E k \in 1..Cardinality(S) : InOrder(S, before)[k] = x
<1> USE DEF Orders
<1> DEFINE n == Cardinality(S)
           rank == [x \in S |-> Cardinality(before[x]) + 1]
<1>1. n \in Nat
  BY FS_CardinalityType
<1>2. ASSUME NEW x \in S
      PROVE  IsFiniteSet(before[x]) /\ Cardinality(before[x]) \in 0..n - 1
  <2>1. before[x] \in SUBSET (S \ {x})
    OBVIOUS
  <2>2. IsFiniteSet(S \ {x}) /\ Cardinality(S \ {x}) = n - 1
    BY FS_RemoveElement
  <2>3. IsFiniteSet(before[x]) /\ Cardinality(before[x]) <= n - 1
    BY <2>1, <2>2, FS_Subset
  <2> QED BY <1>1, <2>3, FS_CardinalityType
<1>3. ASSUME NEW x \in S, NEW y \in S, x \in before[y]
      PROVE  Cardinality(before[x]) < Cardinality(before[y])
  <2>1. before[x] \cup {x} \in SUBSET before[y]
    BY <1>3
  <2>2. Cardinality(before[x] \cup {x}) = Cardinality(before[x]) + 1
    BY <1>2, FS_AddElement
  <2>3. Cardinality(before[x] \cup {x}) <= Cardinality(before[y])
    BY <1>2, <2>1, FS_Subset
  <2> QED BY <1>2, <2>2, <2>3
<1>4. \A x, y \in S : Cardinality(before[x]) = Cardinality(before[y]) => x = y
  BY <1>2, <1>3
<1>5. rank \in Injection(S, 1..n)
  <2>1. rank \in [S -> 1..n]
    BY <1>1, <1>2
  <2>2. \A x, y \in S : rank[x] = rank[y] => x = y
    BY <1>2, <1>4
  <2> HIDE DEF rank
  <2> QED BY <2>1, <2>2 DEF Injection, IsInjective
<1>6. IsFiniteSet(1..n) /\ Cardinality(1..n) = n
  BY <1>1, FS_Interval
<1> HIDE DEF n
<1>7. rank \in Surjection(S, 1..n)
  <2> HIDE DEF rank
  <2> QED BY <1>5, <1>6, FS_Injection DEF n
<1>8. \A k \in 1..n : \E x \in S : Cardinality(before[x]) = k - 1
  <2> TAKE k \in 1..n
  <2>1. PICK x \in S : rank[x] = k
    BY <1>7 DEF Surjection
  <2> QED BY <1>1, <1>2, <2>1
<1>9. PICK list : list = InOrder(S, before)
  OBVIOUS
<1>10. list = [k \in 1..n |-> CHOOSE x \in S : Cardinality(before[x]) = k - 1]
  BY <1>9 DEF InOrder, n
<1>11. \A k \in 1..n : list[k] \in S /\ Cardinality(before[list[k]]) = k - 1
  BY <1>8, <1>10
<1>12. \A x \in S : Cardinality(before[x]) + 1 \in 1..n
                    /\ list[Cardinality(before[x]) + 1] = x
  <2> TAKE x \in S
  <2>1. Cardinality(before[x]) + 1 \in 1..n /\ (Cardinality(before[x]) + 1) - 1 = Cardinality(before[x])
    BY <1>1, <1>2
  <2> QED BY <1>4, <1>11, <2>1
<1>13. IsList(list) /\ Len(list) = n
  <2>1. list = [k \in 1..n |-> list[k]]
    BY <1>10
  <2> QED BY <1>1, <2>1, ListOf
<1> QED BY <1>1, <1>9, <1>11, <1>12, <1>13 DEF n

-----------------------------------------------------------------------------
(* Segments.                                                               *)
SegmentKind == STRING \cup {"assistant", "assistant_tool_call"}

(* The segments that serialization makes.                                  *)
SegmentSet == [kind : SegmentKind, length : Nat, trainable : BOOLEAN]

(* The lengths of the segments, one for each.                              *)
LEMMA LengthsAre ==
  ASSUME NEW s \in Seq(SegmentSet)
  PROVE  /\ Lengths(s) \in Seq(Nat) /\ Len(Lengths(s)) = Len(s)
         /\ \A k \in 1..Len(s) : Lengths(s)[k] = s[k].length
<1>1. PICK n \in Nat : n = Len(s) /\ DOMAIN s = 1..n
  OBVIOUS
<1>2. PICK l : l = Lengths(s)
  OBVIOUS
<1>3. l = [k \in 1..n |-> s[k].length]
  BY <1>1, <1>2 DEF Lengths
<1>4. \A k \in 1..n : s[k] \in SegmentSet
  BY <1>1
<1>5. \A k \in 1..n : s[k].length \in Nat
  BY <1>4 DEF SegmentSet
<1>6. l \in Seq(Nat) /\ Len(l) = n
  BY <1>3, <1>5
<1> QED BY <1>1, <1>2, <1>3, <1>6

(* Segments of a message before those of its calls.                        *)
Heads(m) == IF m.role = "assistant" /\ m.content = 0 THEN 0 ELSE 1

(* A segment is its content in its wrapping.                               *)
LEMMA SegmentIs ==
  ASSUME NEW kind \in SegmentKind, NEW content \in Nat
  PROVE  /\ Segment(kind, content, TRUE) \in SegmentSet
         /\ Segment(kind, content, FALSE) \in SegmentSet
         /\ Segment(kind, content, TRUE).length = Wrap + content
         /\ Segment(kind, content, FALSE).length = Wrap + content
         /\ Segment(kind, content, TRUE).trainable = TRUE
         /\ Segment(kind, content, FALSE).trainable = FALSE
<1>1. \A t \in BOOLEAN : Segment(kind, content, t) \in SegmentSet
  BY TrainingDataConstants DEF Segment, SegmentSet
<1>2. TRUE \in BOOLEAN /\ FALSE \in BOOLEAN
  OBVIOUS
<1>3. Segment(kind, content, TRUE) \in SegmentSet /\ Segment(kind, content, FALSE) \in SegmentSet
  BY <1>1, <1>2, Zenon
<1>4. /\ Segment(kind, content, TRUE).length = Wrap + content
      /\ Segment(kind, content, FALSE).length = Wrap + content
      /\ Segment(kind, content, TRUE).trainable = TRUE
      /\ Segment(kind, content, FALSE).trainable = FALSE
  BY DEF Segment
<1> QED BY <1>3, <1>4

(* A message's rendered calls are one for each call it makes.              *)
LEMMA CallsAre ==
  ASSUME NEW m \in Message
  PROVE  /\ m.role \in STRING /\ m.content \in Nat /\ m.calls \in Seq(Nat)
         /\ RenderedCalls(m) \in Seq(Nat) /\ Len(RenderedCalls(m)) = Len(m.calls)
         /\ \A j \in 1..Len(m.calls) : RenderedCalls(m)[j] = Wrap + m.calls[j]
         /\ m.role # "assistant" => Len(m.calls) = 0
<1>1. /\ m.role \in STRING /\ m.content \in Nat /\ m.calls \in Seq(Nat)
      /\ m.role # "assistant" => m.calls = <<>>
  BY DEF Message
<1>2. PICK c : c = m.calls
  OBVIOUS
<1>3. PICK n \in Nat : n = Len(c) /\ DOMAIN c = 1..n /\ \A j \in 1..n : c[j] \in Nat
  BY <1>1, <1>2
<1>4. PICK r : r = [j \in 1..n |-> Wrap + c[j]]
  OBVIOUS
<1>5. r \in Seq(Nat) /\ Len(r) = n /\ \A j \in 1..n : r[j] = Wrap + c[j]
  BY <1>3, <1>4, TrainingDataConstants
<1>6. RenderedCalls(m) = r
  BY <1>2, <1>3, <1>4 DEF RenderedCalls
<1>7. m.role # "assistant" => Len(m.calls) = 0
  BY <1>1
<1> QED BY <1>1, <1>2, <1>3, <1>5, <1>6, <1>7

(* What a message becomes: at most one segment, then one for each call.    *)
LEMMA PartIs ==
  ASSUME NEW m \in Message
  PROVE  /\ SerializeMessage(m) \in Seq(SegmentSet) /\ Heads(m) \in {0, 1}
         /\ Len(SerializeMessage(m)) = Heads(m) + Len(m.calls)
         /\ \A k \in 1..Len(SerializeMessage(m)) :
              SerializeMessage(m)[k].trainable <=> k > Heads(m)
         /\ \A j \in 1..Len(m.calls) :
              SerializeMessage(m)[Heads(m) + j].length = RenderedCalls(m)[j]
         /\ Heads(m) = 1 => SerializeMessage(m)[1].length = Wrap + m.content
<1>1. /\ m.role \in STRING /\ m.content \in Nat /\ m.calls \in Seq(Nat)
      /\ \A j \in 1..Len(m.calls) : RenderedCalls(m)[j] = Wrap + m.calls[j]
      /\ m.role # "assistant" => Len(m.calls) = 0
  BY CallsAre
<1>2. PICK c : c = m.calls
  OBVIOUS
<1>20. c \in Seq(Nat)
  BY <1>1, <1>2
<1>3. PICK n \in Nat : n = Len(c) /\ DOMAIN c = 1..n /\ \A j \in 1..n : c[j] \in Nat
  BY <1>20
<1> DEFINE Call(j) == Segment("assistant_tool_call", c[j], TRUE)
<1>4. \A j \in 1..n : /\ Call(j) \in SegmentSet /\ Call(j).length = Wrap + c[j]
                      /\ Call(j).trainable = TRUE
  <2>1. "assistant_tool_call" \in SegmentKind
    BY DEF SegmentKind
  <2> QED BY <1>3, <2>1, SegmentIs
<1>5. PICK b : b = [j \in 1..n |-> Call(j)]
  OBVIOUS
<1>6. b \in Seq(SegmentSet) /\ Len(b) = n /\ \A j \in 1..n : b[j] = Call(j)
  <2> HIDE DEF Call
  <2> QED BY <1>4, <1>5
<1>7. CASE m.role = "assistant"
  <2> DEFINE first == Segment("assistant", m.content, FALSE)
  <2>1. first \in SegmentSet /\ first.length = Wrap + m.content /\ first.trainable = FALSE
    <3>1. "assistant" \in SegmentKind
      BY DEF SegmentKind
    <3> QED BY <1>1, <3>1, SegmentIs
  <2> HIDE DEF first, Call
  <2>2. PICK a : a = IF m.content > 0 THEN <<first>> ELSE <<>>
    OBVIOUS
  <2>3. /\ a \in Seq(SegmentSet) /\ Len(a) = Heads(m) /\ Heads(m) \in {0, 1}
        /\ Heads(m) = 1 => a[1] = first
    BY <1>1, <1>7, <2>1, <2>2 DEF Heads
  <2>4. SerializeMessage(m) = a \o b
    BY <1>2, <1>3, <1>5, <1>7, <2>2 DEF SerializeMessage, first, Call
  <2>5. /\ a \o b \in Seq(SegmentSet) /\ Len(a \o b) = Len(a) + Len(b)
        /\ \A k \in 1..Len(a) : (a \o b)[k] = a[k]
        /\ \A k \in 1..Len(b) : (a \o b)[Len(a) + k] = b[k]
    BY <1>6, <2>3
  <2>6. ASSUME NEW k \in 1..Len(a \o b) PROVE (a \o b)[k].trainable <=> k > Heads(m)
    <3>1. CASE k > Heads(m)
      <4>1. k - Heads(m) \in 1..n /\ Heads(m) + (k - Heads(m)) = k
        BY <1>6, <2>3, <2>5, <3>1
      <4>2. (a \o b)[k] = b[k - Heads(m)]
        BY <1>6, <2>3, <2>5, <4>1
      <4> QED BY <1>4, <1>6, <3>1, <4>1, <4>2
    <3>2. CASE ~(k > Heads(m))
      <4>1. k = 1 /\ Heads(m) = 1
        BY <2>3, <3>2
      <4> QED BY <2>1, <2>3, <2>5, <3>2, <4>1
    <3> QED BY <3>1, <3>2
  <2>7. \A j \in 1..n : (a \o b)[Heads(m) + j].length = RenderedCalls(m)[j]
    BY SMTT(30), <1>1, <1>2, <1>3, <1>4, <1>6, <2>3, <2>5
  <2>8. Heads(m) = 1 => (a \o b)[1].length = Wrap + m.content
    BY <2>1, <2>3, <2>5
  <2> QED BY <1>2, <1>3, <1>6, <2>3, <2>4, <2>5, <2>6, <2>7, <2>8
<1>8. CASE m.role # "assistant"
  <2> DEFINE first == Segment(m.role, m.content, FALSE)
  <2>1. first \in SegmentSet /\ first.length = Wrap + m.content /\ first.trainable = FALSE
    <3>1. m.role \in SegmentKind
      BY <1>1 DEF SegmentKind
    <3> QED BY <1>1, <3>1, SegmentIs
  <2>2. SerializeMessage(m) = <<first>>
    BY <1>8 DEF SerializeMessage
  <2> HIDE DEF first
  <2>3. /\ <<first>> \in Seq(SegmentSet) /\ Len(<<first>>) = 1 /\ <<first>>[1] = first
    BY <2>1
  <2>4. Heads(m) = 1
    BY <1>8 DEF Heads
  <2> QED BY <1>1, <1>8, <2>1, <2>2, <2>3, <2>4
<1> QED BY <1>7, <1>8

(* ... and where its segments end in what it renders.                      *)
LEMMA PartEnds ==
  ASSUME NEW m \in Message
  PROVE  /\ Joined(SerializeMessage(m)) = RenderedLength(m) /\ RenderedLength(m) \in Nat
         /\ m.role = "assistant" =>
              \A j \in 0..Len(m.calls) :
                Ends(Lengths(SerializeMessage(m)))[Heads(m) + j]
                  = RenderedAnswer(m) + Ends(RenderedCalls(m))[j]
<1>1. PICK part : part = SerializeMessage(m)
  OBVIOUS
<1>2. PICK h \in {0, 1}, n \in Nat :
        /\ h = Heads(m) /\ n = Len(m.calls) /\ part \in Seq(SegmentSet) /\ Len(part) = h + n
        /\ \A j \in 1..n : part[h + j].length = RenderedCalls(m)[j]
        /\ h = 1 => part[1].length = Wrap + m.content
  <2>1. m.calls \in Seq(Nat)
    BY CallsAre
  <2>2. Len(m.calls) \in Nat
    BY <2>1
  <2> QED BY <1>1, <2>2, PartIs
<1>3. /\ m.content \in Nat /\ RenderedCalls(m) \in Seq(Nat) /\ Len(RenderedCalls(m)) = n
      /\ m.role # "assistant" => n = 0
  BY <1>2, CallsAre
<1>4. PICK l \in Seq(Nat) :
        l = Lengths(part) /\ Len(l) = h + n /\ \A k \in 1..h + n : l[k] = part[k].length
  BY <1>2, LengthsAre
<1>5. PICK r \in Seq(Nat) : r = RenderedCalls(m) /\ Len(r) = n
  BY <1>3
<1>6. \A k \in 1..Len(r) : l[h + k] = r[k]
  <2>1. \A k \in 1..n : h + k \in 1..h + n
    OBVIOUS
  <2> QED BY <1>2, <1>4, <1>5, <2>1
<1>7. \A k \in 0..Len(r) : Ends(l)[h + k] = Ends(l)[h] + Ends(r)[k]
  <2>1. h \in Nat /\ h + Len(r) <= Len(l)
    BY <1>4, <1>5
  <2> QED BY <1>6, <2>1, EndsShift
<1>8. h = 1 => Ends(l)[h] = Wrap + m.content
  <2>1. Ends(l)[0] = 0 /\ \A i \in 1..Len(l) : Ends(l)[i] = Ends(l)[i - 1] + l[i]
    BY EndsIs
  <2>2. h = 1 => 1 \in 1..Len(l) /\ 1 \in 1..h + n /\ l[1] = Wrap + m.content
    BY <1>2, <1>4
  <2> QED BY <2>1, <2>2, <1>3, TrainingDataConstants
<1>9. h = 0 => Ends(l)[h] = 0
  BY EndsIs
<1>10. h = IF m.role = "assistant" /\ m.content = 0 THEN 0 ELSE 1
  BY <1>2 DEF Heads
<1>11. Ends(l)[h] = (IF m.role = "assistant" THEN RenderedAnswer(m) ELSE Wrap + m.content)
       /\ Ends(l)[h] \in Nat
  BY <1>3, <1>8, <1>9, <1>10, TrainingDataConstants DEF RenderedAnswer
<1>12. Joined(part) = Ends(l)[h + n]
  BY <1>4 DEF Joined, Total
<1>13. Total(r) = Ends(r)[n] /\ Ends(r)[n] \in Nat /\ Ends(r)[0] = 0
  <2>1. Ends(r) \in [0..n -> Nat] /\ Ends(r)[0] = 0
    BY <1>5, EndsIs
  <2> QED BY <1>5, <2>1 DEF Total
<1>14. Joined(part) = Ends(l)[h] + Ends(r)[n]
  BY <1>5, <1>7, <1>12
<1>15. Joined(part) = RenderedLength(m)
  <2>1. CASE m.role = "assistant"
    BY <2>1, <1>5, <1>11, <1>13, <1>14 DEF RenderedLength
  <2>2. CASE m.role # "assistant"
    BY <2>2, <1>3, <1>11, <1>13, <1>14 DEF RenderedLength
  <2> QED BY <2>1, <2>2
<1>16. RenderedLength(m) \in Nat
  BY <1>11, <1>13, <1>14, <1>15
<1>17. m.role = "assistant" => \A j \in 0..n : Ends(l)[h + j] = RenderedAnswer(m) + Ends(r)[j]
  BY <1>5, <1>7, <1>11
<1> QED BY <1>1, <1>2, <1>4, <1>5, <1>15, <1>16, <1>17

-----------------------------------------------------------------------------
(* The segments of a trajectory.                                           *)
Parts(t) == [i \in DOMAIN t.messages |-> SerializeMessage(t.messages[i])]

(* How long each message of the trajectory is as text.                     *)
Rendered(t) == [i \in DOMAIN t.messages |-> RenderedLength(t.messages[i])]

(* Where call j of message i starts.                                       *)
CallStart(t, i, j) ==
  Ends(Rendered(t))[i - 1] + RenderedAnswer(t.messages[i]) + Ends(RenderedCalls(t.messages[i]))[j - 1]

(* Each message is serialized to segments that are as long as its text.    *)
LEMMA PartsAre ==
  ASSUME NEW t, t.messages \in Seq(Message)
  PROVE  /\ Len(t.messages) \in Nat /\ Parts(t) = [i \in 1..Len(t.messages) |-> Parts(t)[i]]
         /\ IsLists(Len(t.messages), Parts(t))
         /\ \A i \in 1..Len(t.messages) :
              /\ t.messages[i] \in Message
              /\ Parts(t)[i] = SerializeMessage(t.messages[i])
              /\ Parts(t)[i] \in Seq(SegmentSet) /\ IsList(Parts(t)[i])
         /\ Rendered(t) \in Seq(Nat) /\ Len(Rendered(t)) = Len(t.messages)
         /\ \A i \in 1..Len(t.messages) : Rendered(t)[i] = Joined(Parts(t)[i])
<1>1. PICK msgs : msgs = t.messages
  OBVIOUS
<1>2. msgs \in Seq(Message)
  BY <1>1
<1>3. PICK n \in Nat : n = Len(msgs) /\ DOMAIN msgs = 1..n /\ \A i \in 1..n : msgs[i] \in Message
  BY <1>2
<1>4. \A i \in 1..n : /\ SerializeMessage(msgs[i]) \in Seq(SegmentSet)
                      /\ IsList(SerializeMessage(msgs[i]))
                      /\ Joined(SerializeMessage(msgs[i])) = RenderedLength(msgs[i])
                      /\ RenderedLength(msgs[i]) \in Nat
  BY <1>3, PartIs, PartEnds, IsAList
<1>5. Parts(t) = [i \in 1..n |-> SerializeMessage(msgs[i])]
  BY <1>1, <1>3 DEF Parts
<1>6. PICK r : r = [i \in 1..n |-> RenderedLength(msgs[i])]
  OBVIOUS
<1>7. r \in Seq(Nat) /\ Len(r) = n /\ \A i \in 1..n : r[i] = RenderedLength(msgs[i])
  BY <1>4, <1>6
<1>8. Rendered(t) = r
  BY <1>1, <1>3, <1>6 DEF Rendered
<1>9. \A i \in 1..n : Parts(t)[i] = SerializeMessage(msgs[i])
  BY <1>5
<1>10. Parts(t) = [i \in 1..n |-> Parts(t)[i]]
  BY <1>5
<1>11. IsLists(n, Parts(t))
  BY <1>4, <1>9, <1>10 DEF IsLists
<1> QED BY <1>1, <1>3, <1>4, <1>7, <1>8, <1>9, <1>10, <1>11

(* The segments are those of the messages, one message after the other.    *)
LEMMA SegmentsAre ==
  ASSUME NEW t, t.messages \in Seq(Message)
  PROVE  /\ SerializeTrajectory(t) \in Seq(SegmentSet)
         /\ \A i \in 1..Len(t.messages) : \A k \in 1..Len(Parts(t)[i]) :
              LET q == Ends(Sizes(Parts(t)))[i - 1] + k
              IN  /\ q \in 1..Len(SerializeTrajectory(t)) /\ SerializeTrajectory(t)[q] = Parts(t)[i][k]
         /\ \A q \in 1..Len(SerializeTrajectory(t)) :
              \E i \in 1..Len(t.messages) : \E k \in 1..Len(Parts(t)[i]) :
                q = Ends(Sizes(Parts(t)))[i - 1] + k
<1>1. PICK parts : parts = Parts(t)
  OBVIOUS
<1>2. PICK n \in Nat : n = Len(t.messages)
  BY PartsAre
<1>3. /\ parts = [i \in 1..n |-> parts[i]]
      /\ \A i \in 1..n : parts[i] \in Seq(SegmentSet) /\ IsList(parts[i])
  BY <1>1, <1>2, PartsAre
<1>4. PICK segs : segs = FlattenSeq(parts)
  OBVIOUS
<1>5. SerializeTrajectory(t) = segs
  BY <1>1, <1>4 DEF SerializeTrajectory, Parts
<1>6. PICK a : a = Ends(Sizes(parts))
  OBVIOUS
<1>14. IsLists(n, parts)
  BY <1>3 DEF IsLists
<1>7. /\ IsList(segs) /\ Len(segs) = Total(Sizes(parts))
      /\ \A i \in 1..n : \A k \in 1..Len(parts[i]) :
           a[i - 1] + k \in 1..Len(segs) /\ segs[a[i - 1] + k] = parts[i][k]
  <2>1. /\ IsList(FlattenSeq(parts)) /\ Len(FlattenSeq(parts)) = Total(Sizes(parts))
        /\ \A i \in 1..n : \A k \in 1..Len(parts[i]) :
             /\ Ends(Sizes(parts))[i - 1] + k \in 1..Total(Sizes(parts))
             /\ FlattenSeq(parts)[Ends(Sizes(parts))[i - 1] + k] = parts[i][k]
    BY <1>14, FlatIs
  <2> QED BY <1>4, <1>6, <2>1
<1>8. \A q \in 1..Len(segs) : \E i \in 1..n : \E k \in 1..Len(parts[i]) : q = a[i - 1] + k
  <2> TAKE q \in 1..Len(segs)
  <2>1. q \in 1..Len(FlattenSeq(parts))
    BY <1>4
  <2>2. \E i \in 1..n : \E k \in 1..Len(parts[i]) : q = Ends(Sizes(parts))[i - 1] + k
    BY <1>14, <2>1, FlatFind
  <2> QED BY <1>6, <2>2
<1>9. \A q \in 1..Len(segs) : segs[q] \in SegmentSet
  <2> TAKE q \in 1..Len(segs)
  <2>1. PICK i \in 1..n : \E k \in 1..Len(parts[i]) : q = a[i - 1] + k
    BY <1>8
  <2>2. PICK k \in 1..Len(parts[i]) : q = a[i - 1] + k
    BY <2>1
  <2>3. segs[q] = parts[i][k]
    BY <1>7, <2>2
  <2>4. parts[i] \in Seq(SegmentSet)
    BY <1>3
  <2>5. parts[i][k] \in SegmentSet
    BY <2>4
  <2> QED BY <2>3, <2>5
<1>10. segs \in Seq({segs[q] : q \in 1..Len(segs)})
  BY <1>7, ListIs
<1>11. PICK R : R = {segs[q] : q \in 1..Len(segs)}
  OBVIOUS
<1>12. R \subseteq SegmentSet /\ segs \in Seq(R)
  BY <1>9, <1>10, <1>11
<1>13. segs \in Seq(SegmentSet)
  BY <1>12
<1> QED BY <1>1, <1>2, <1>5, <1>6, <1>7, <1>8, <1>13

(* Where the segments of message i end in the text.                        *)
LEMMA SegmentEnds ==
  ASSUME NEW t, t.messages \in Seq(Message)
  PROVE  \A i \in 1..Len(t.messages) : \A k \in 0..Len(Parts(t)[i]) :
           Ends(Lengths(SerializeTrajectory(t)))[Ends(Sizes(Parts(t)))[i - 1] + k]
             = Ends(Rendered(t))[i - 1] + Ends(Lengths(Parts(t)[i]))[k]
<1>1. PICK parts, segs, a, n :
        /\ parts = Parts(t) /\ segs = SerializeTrajectory(t) /\ a = Ends(Sizes(parts))
        /\ n = Len(t.messages)
  OBVIOUS
<1>2. PICK l : l = Lengths(segs)
  OBVIOUS
<1>3. PICK r : r = Rendered(t)
  OBVIOUS
<1>4. /\ n \in Nat /\ parts = [i \in 1..n |-> parts[i]]
      /\ \A i \in 1..n : parts[i] \in Seq(SegmentSet) /\ IsList(parts[i])
      /\ r \in Seq(Nat) /\ Len(r) = n
      /\ \A i \in 1..n : r[i] = Joined(parts[i])
  BY <1>1, <1>3, PartsAre
<1>5. /\ segs \in Seq(SegmentSet)
      /\ \A i \in 1..n : \A k \in 1..Len(parts[i]) :
           a[i - 1] + k \in 1..Len(segs) /\ segs[a[i - 1] + k] = parts[i][k]
  <2>1. /\ SerializeTrajectory(t) \in Seq(SegmentSet)
        /\ \A i \in 1..Len(t.messages) : \A k \in 1..Len(Parts(t)[i]) :
             /\ Ends(Sizes(Parts(t)))[i - 1] + k \in 1..Len(SerializeTrajectory(t))
             /\ SerializeTrajectory(t)[Ends(Sizes(Parts(t)))[i - 1] + k] = Parts(t)[i][k]
    BY SegmentsAre
  <2> QED BY <1>1, <2>1
<1>6. /\ l \in Seq(Nat) /\ Len(l) = Len(segs) /\ \A q \in 1..Len(segs) : l[q] = segs[q].length
  BY <1>2, <1>5, LengthsAre
<1>7. /\ Sizes(parts) \in Seq(Nat) /\ Len(Sizes(parts)) = n
      /\ \A i \in 1..n : Sizes(parts)[i] = Len(parts[i])
  <2>1. IsLists(n, parts)
    BY <1>4 DEF IsLists
  <2>2. n \in Nat
    BY <1>4
  <2> QED BY <2>1, <2>2, SizesAre
<1>8. /\ a \in [0..n -> Nat] /\ a[0] = 0 /\ \A i \in 1..n : a[i] = a[i - 1] + Len(parts[i])
  BY <1>1, <1>7, EndsIs
<1>9. Len(segs) = a[n]
  <2>1. segs = FlattenSeq(parts)
    BY <1>1 DEF SerializeTrajectory, Parts
  <2>2. Len(FlattenSeq(parts)) = Total(Sizes(parts))
    <3>1. IsLists(n, parts)
      BY <1>4 DEF IsLists
    <3> QED BY <1>4, <3>1, FlatIs
  <2> QED BY <1>1, <1>7, <2>1, <2>2 DEF Total
<1>10. \A i \in 0..n : a[i] <= a[n]
  <2> TAKE i \in 0..n
  <2>1. PICK z : z = Sizes(parts)
    OBVIOUS
  <2>2. z \in Seq(Nat) /\ i \in 0..Len(z) /\ n \in i..Len(z)
    BY <1>4, <1>7, <2>1
  <2> QED BY <1>1, <2>1, <2>2, EndsGrow
<1>11. ASSUME NEW i \in 1..n
       PROVE  /\ \A k \in 0..Len(parts[i]) :
                   Ends(l)[a[i - 1] + k] = Ends(l)[a[i - 1]] + Ends(Lengths(parts[i]))[k]
              /\ Ends(l)[a[i]] = Ends(l)[a[i - 1]] + r[i]
  <2>1. PICK p : p = Lengths(parts[i])
    OBVIOUS
  <2>2. /\ p \in Seq(Nat) /\ Len(p) = Len(parts[i])
        /\ \A k \in 1..Len(parts[i]) : p[k] = parts[i][k].length
    BY <1>4, <2>1, LengthsAre
  <2>3. PICK m \in Nat : m = Len(p)
    BY <2>2
  <2>4. a[i - 1] \in Nat /\ a[i] \in Nat /\ a[i] = a[i - 1] + m /\ a[i] <= a[n]
    <3>1. i - 1 \in 0..n /\ i \in 0..n
      BY <1>4
    <3> QED BY <1>8, <1>10, <2>2, <2>3, <3>1
  <2>5. a[i - 1] + Len(p) <= Len(l)
    BY <1>6, <1>9, <2>3, <2>4
  <2>6. \A k \in 1..Len(p) : l[a[i - 1] + k] = p[k]
    BY <1>5, <1>6, <2>2
  <2>7. \A k \in 0..Len(p) : Ends(l)[a[i - 1] + k] = Ends(l)[a[i - 1]] + Ends(p)[k]
    BY <1>6, <2>2, <2>4, <2>5, <2>6, EndsShift
  <2>8. r[i] = Ends(p)[m]
    BY <1>4, <2>1, <2>3 DEF Joined, Total
  <2>9. m \in 0..Len(p)
    BY <2>3
  <2> QED BY <2>1, <2>2, <2>3, <2>4, <2>7, <2>8, <2>9
<1>12. \A i \in 0..n : Ends(l)[a[i]] = Ends(r)[i]
  <2>1. PICK f : f = [i \in 0..n |-> Ends(l)[a[i]]]
    OBVIOUS
  <2>2. \A i \in 0..n : f[i] = Ends(l)[a[i]]
    BY <2>1
  <2>3. f[0] = 0
    BY SMTT(30), <1>4, <1>6, <1>8, <2>2, EndsIs
  <2>4. \A i \in 1..Len(r) : f[i] = f[i - 1] + r[i]
    <3>1. Len(r) = n /\ n \in Nat
      BY <1>4
    <3>2. \A i \in 1..n : i \in 0..n /\ i - 1 \in 0..n
      BY <3>1
    <3>3. \A i \in 1..n : Ends(l)[a[i]] = Ends(l)[a[i - 1]] + r[i]
      BY <1>11
    <3> QED BY <2>2, <3>1, <3>2, <3>3
  <2>5. \A i \in 0..Len(r) : f[i] = Ends(r)[i]
    BY <1>4, <2>3, <2>4, EndsAre
  <2> QED BY <1>4, <2>2, <2>5
<1>13. \A i \in 1..n : \A k \in 0..Len(parts[i]) :
         Ends(l)[a[i - 1] + k] = Ends(r)[i - 1] + Ends(Lengths(parts[i]))[k]
  <2>1. \A i \in 1..n : i - 1 \in 0..n
    BY <1>4
  <2> QED BY <1>11, <1>12, <2>1
<1> QED BY <1>1, <1>2, <1>3, <1>13

(* The trainable segments are the calls.                                   *)
RendersCall(t, q, i, j) ==
  /\ SerializeTrajectory(t)[q].trainable
  /\ Ends(Lengths(SerializeTrajectory(t)))[q - 1] = CallStart(t, i, j)
  /\ Ends(Lengths(SerializeTrajectory(t)))[q] = CallStart(t, i, j) + Wrap + t.messages[i].calls[j]

(* A segment is trainable exactly when it renders a call.                  *)
LEMMA CallSegments ==
  ASSUME NEW t, t.messages \in Seq(Message)
  PROVE  /\ \A i \in 1..Len(t.messages) : \A j \in 1..Len(t.messages[i].calls) :
              \E q \in 1..Len(SerializeTrajectory(t)) : RendersCall(t, q, i, j)
         /\ \A q \in 1..Len(SerializeTrajectory(t)) : SerializeTrajectory(t)[q].trainable =>
              \E i \in 1..Len(t.messages) : \E j \in 1..Len(t.messages[i].calls) : RendersCall(t, q, i, j)
<1> DEFINE segs == SerializeTrajectory(t)
           end == Ends(Lengths(segs))
           a == Ends(Sizes(Parts(t)))
           n == Len(t.messages)
           Is(q, i, j) == /\ segs[q].trainable /\ end[q - 1] = CallStart(t, i, j)
                          /\ end[q] = CallStart(t, i, j) + Wrap + t.messages[i].calls[j]
<1>1. ASSUME NEW i \in 1..n, NEW j \in 1..Len(t.messages[i].calls)
      PROVE  LET k == Heads(t.messages[i]) + j
             IN  k \in 1..Len(Parts(t)[i]) /\ Is(a[i - 1] + k, i, j)
  <2>1. PICK m : m = t.messages[i]
    OBVIOUS
  <2>2. m \in Message /\ Parts(t)[i] = SerializeMessage(m) /\ Parts(t)[i] \in Seq(SegmentSet)
    BY <2>1, PartsAre
  <2>3. PICK part : part = Parts(t)[i]
    OBVIOUS
  <2>4. PICK h \in {0, 1}, c \in Nat :
          /\ h = Heads(m) /\ c = Len(m.calls) /\ Len(part) = h + c
          /\ \A k \in 1..Len(part) : part[k].trainable <=> k > h
    <3>1. m.calls \in Seq(Nat)
      BY <2>2, CallsAre
    <3>2. Len(m.calls) \in Nat
      BY <3>1
    <3> QED BY <2>2, <2>3, <3>2, PartIs
  <2>5. /\ m.role # "assistant" => c = 0
        /\ RenderedCalls(m) \in Seq(Nat) /\ Len(RenderedCalls(m)) = c
        /\ RenderedCalls(m)[j] = Wrap + m.calls[j] /\ m.calls[j] \in Nat
    <3>1. m.calls \in Seq(Nat) /\ j \in 1..Len(m.calls)
      BY <2>1, <2>2, CallsAre
    <3>2. m.calls[j] \in Nat
      BY <3>1
    <3> QED BY <2>2, <2>4, <3>1, <3>2, CallsAre
  <2>6. j \in 1..c /\ h + j \in 1..Len(part) /\ h + j > h /\ (h + j) - 1 = h + (j - 1)
        /\ j - 1 \in 0..c /\ j \in 0..c /\ h + (j - 1) \in 0..Len(part) /\ h + j \in 0..Len(part)
    BY SMTT(30), <2>1, <2>4
  <2>7. m.role = "assistant"
    BY <2>5, <2>6
  <2>8. \A k \in 0..c : Ends(Lengths(part))[h + k] = RenderedAnswer(m) + Ends(RenderedCalls(m))[k]
    BY <2>2, <2>3, <2>4, <2>7, PartEnds
  <2>9. \A k \in 0..Len(part) : end[a[i - 1] + k] = Ends(Rendered(t))[i - 1] + Ends(Lengths(part))[k]
    BY <2>3, SegmentEnds
  <2>10. PICK b, s, w : /\ b = Ends(Rendered(t))[i - 1] /\ s = RenderedAnswer(m)
                        /\ w = Ends(RenderedCalls(m))
    OBVIOUS
  <2>11. b \in Nat /\ s \in Nat /\ w[j] = w[j - 1] + (Wrap + m.calls[j]) /\ w[j - 1] \in Nat
    <3>1. b \in Nat
      <4>1. Rendered(t) \in Seq(Nat) /\ Len(Rendered(t)) = n /\ n \in Nat
        BY PartsAre
      <4>2. i - 1 \in 0..n
        BY <4>1
      <4> QED BY <2>10, <4>1, <4>2, EndsIs
    <3>2. s \in Nat
      BY SMTT(30), <2>2, <2>10, CallsAre, TrainingDataConstants DEF RenderedAnswer
    <3>3. w \in [0..c -> Nat] /\ w[j] = w[j - 1] + RenderedCalls(m)[j]
      BY <2>5, <2>6, <2>10, EndsIs
    <3> QED BY <2>5, <2>6, <3>1, <3>2, <3>3
  <2>12. CallStart(t, i, j) = b + s + w[j - 1]
    BY <2>1, <2>10 DEF CallStart
  <2>13. end[a[i - 1] + (h + (j - 1))] = b + (s + w[j - 1]) /\ end[a[i - 1] + (h + j)] = b + (s + w[j])
    BY <2>6, <2>8, <2>9, <2>10
  <2>14. a[i - 1] \in Nat
    <3>1. n \in Nat /\ Sizes(Parts(t)) \in Seq(Nat) /\ Len(Sizes(Parts(t))) = n
      BY PartsAre, SizesAre
    <3>2. i - 1 \in 0..n
      BY <3>1
    <3> QED BY <3>1, <3>2, EndsIs
  <2>15. (a[i - 1] + (h + j)) - 1 = a[i - 1] + (h + (j - 1))
    BY <2>6, <2>14
  <2>16. segs[a[i - 1] + (h + j)].trainable
    <3>1. segs[a[i - 1] + (h + j)] = part[h + j]
      BY <2>3, <2>6, SegmentsAre
    <3> QED BY <2>4, <2>6, <3>1
  <2>17. end[(a[i - 1] + (h + j)) - 1] = CallStart(t, i, j)
    BY <2>11, <2>12, <2>13, <2>15
  <2>18. end[a[i - 1] + (h + j)] = CallStart(t, i, j) + Wrap + m.calls[j]
    <3>1. Wrap \in Nat
      BY TrainingDataConstants
    <3>2. m.calls[j] \in Nat
      BY <2>5
    <3>3. PICK x \in Nat, y \in Nat : x = w[j - 1] /\ y = m.calls[j]
      BY <2>11, <3>2
    <3>4. b + (s + (x + (Wrap + y))) = b + s + x + Wrap + y
      BY <2>11, <3>1
    <3>5. end[a[i - 1] + (h + j)] = b + (s + (x + (Wrap + y)))
      BY <2>11, <2>13, <3>3
    <3> QED BY <2>12, <3>3, <3>4, <3>5
  <2> HIDE DEF segs, end, a
  <2> QED BY <2>1, <2>3, <2>4, <2>6, <2>16, <2>17, <2>18
<1>2. ASSUME NEW i \in 1..n, NEW j \in 1..Len(t.messages[i].calls)
      PROVE  \E q \in 1..Len(segs) : Is(q, i, j)
  <2>1. PICK k : k = Heads(t.messages[i]) + j
    OBVIOUS
  <2>2. k \in 1..Len(Parts(t)[i]) /\ Is(a[i - 1] + k, i, j)
    BY <1>1, <2>1
  <2>3. a[i - 1] + k \in 1..Len(segs)
    BY <2>2, SegmentsAre
  <2> HIDE DEF Is, segs, a
  <2> QED BY <2>2, <2>3
<1>3. ASSUME NEW q \in 1..Len(segs), segs[q].trainable
      PROVE  \E i \in 1..n : \E j \in 1..Len(t.messages[i].calls) : Is(q, i, j)
  <2>1. PICK i \in 1..n : \E k \in 1..Len(Parts(t)[i]) : q = a[i - 1] + k
    BY SegmentsAre
  <2>11. PICK k \in 1..Len(Parts(t)[i]) : q = a[i - 1] + k
    BY <2>1
  <2>2. segs[q] = Parts(t)[i][k]
    BY <2>11, SegmentsAre
  <2>3. PICK m : m = t.messages[i]
    OBVIOUS
  <2>4. m \in Message /\ Parts(t)[i] = SerializeMessage(m)
    BY <2>3, PartsAre
  <2>5. PICK h \in {0, 1}, c \in Nat :
          /\ h = Heads(m) /\ c = Len(m.calls) /\ Len(Parts(t)[i]) = h + c
          /\ \A x \in 1..Len(Parts(t)[i]) : Parts(t)[i][x].trainable <=> x > h
    <3>1. m.calls \in Seq(Nat)
      BY <2>4, CallsAre
    <3>2. Len(m.calls) \in Nat
      BY <3>1
    <3> QED BY <2>4, <3>2, PartIs
  <2>6. k > h
    BY <1>3, <2>2, <2>5
  <2>7. k - h \in 1..c /\ h + (k - h) = k
    BY <2>5, <2>6
  <2>8. PICK j : j = k - h
    OBVIOUS
  <2>9. j \in 1..Len(t.messages[i].calls) /\ Heads(t.messages[i]) + j = k
    BY <2>3, <2>5, <2>7, <2>8
  <2>10. Is(a[i - 1] + k, i, j)
    BY <1>1, <2>9
  <2> HIDE DEF Is, segs, a
  <2> QED BY <2>11, <2>9, <2>10
<1> HIDE DEF Is
<1>4. /\ \A i \in 1..n : \A j \in 1..Len(t.messages[i].calls) : \E q \in 1..Len(segs) : Is(q, i, j)
      /\ \A q \in 1..Len(segs) : segs[q].trainable =>
           \E i \in 1..n : \E j \in 1..Len(t.messages[i].calls) : Is(q, i, j)
  BY <1>2, <1>3
<1>5. \A q, i, j : Is(q, i, j) <=> RendersCall(t, q, i, j)
  BY DEF Is, RendersCall
<1> QED BY <1>4, <1>5

-----------------------------------------------------------------------------
(* The mask.                                                               *)
Blocks(segs) ==
  [i \in DOMAIN segs |-> [c \in 1..segs[i].length |-> IF segs[i].trainable THEN 1 ELSE 0]]

(* The mask has a block for each segment, of its length and its value.     *)
LEMMA BlocksAre ==
  ASSUME NEW segs \in Seq(SegmentSet)
  PROVE  /\ Len(segs) \in Nat /\ IsLists(Len(segs), Blocks(segs))
         /\ Sizes(Blocks(segs)) = Lengths(segs)
         /\ \A i \in 1..Len(segs) :
              /\ Len(Blocks(segs)[i]) = segs[i].length /\ segs[i].length \in Nat
              /\ \A k \in 1..segs[i].length :
                   Blocks(segs)[i][k] = IF segs[i].trainable THEN 1 ELSE 0
<1>1. PICK n \in Nat : n = Len(segs) /\ DOMAIN segs = 1..n
  OBVIOUS
<1>2. \A i \in 1..n : segs[i] \in SegmentSet
  BY <1>1
<1>3. \A i \in 1..n : segs[i].length \in Nat
  BY <1>2 DEF SegmentSet
<1>4. PICK b : b = Blocks(segs)
  OBVIOUS
<1>5. b = [i \in 1..n |-> [c \in 1..segs[i].length |-> IF segs[i].trainable THEN 1 ELSE 0]]
  BY <1>1, <1>4 DEF Blocks
<1>6. ASSUME NEW i \in 1..n
      PROVE  /\ IsList(b[i]) /\ Len(b[i]) = segs[i].length
             /\ \A k \in 1..segs[i].length : b[i][k] = IF segs[i].trainable THEN 1 ELSE 0
  <2>1. PICK m \in Nat : m = segs[i].length
    BY <1>3
  <2>2. PICK x : x = IF segs[i].trainable THEN 1 ELSE 0
    OBVIOUS
  <2>3. PICK f : f = [c \in 1..m |-> x]
    OBVIOUS
  <2>4. b[i] = f
    BY <1>5, <2>1, <2>2, <2>3
  <2>5. f = [c \in 1..m |-> f[c]] /\ \A k \in 1..m : f[k] = x
    BY <2>3
  <2>6. IsList(f) /\ Len(f) = m
    BY <2>5, ListOf
  <2> QED BY <2>1, <2>2, <2>4, <2>5, <2>6
<1>7. b = [i \in 1..n |-> b[i]] /\ DOMAIN b = 1..n
  BY <1>5
<1>8. IsLists(n, b)
  BY <1>6, <1>7 DEF IsLists
<1>9. Sizes(b) = [i \in 1..n |-> segs[i].length]
  BY <1>6, <1>7 DEF Sizes
<1>10. Lengths(segs) = [i \in 1..n |-> segs[i].length]
  BY <1>1 DEF Lengths
<1> QED BY <1>1, <1>3, <1>4, <1>6, <1>8, <1>9, <1>10

(* A character is marked exactly when it lies in a trainable segment.      *)
LEMMA MaskIs ==
  ASSUME NEW segs \in Seq(SegmentSet)
  PROVE  /\ IsList(CharacterMask(segs)) /\ Len(CharacterMask(segs)) = Joined(segs)
         /\ Joined(segs) \in Nat
         /\ \A c \in 0..Joined(segs) - 1 :
              /\ CharacterMask(segs)[c + 1] \in {0, 1}
              /\ CharacterMask(segs)[c + 1] = 1 <=>
                   \E q \in 1..Len(segs) : /\ segs[q].trainable
                                           /\ Ends(Lengths(segs))[q - 1] <= c
                                           /\ c < Ends(Lengths(segs))[q]
<1>1. PICK b, n, l :
        /\ b = Blocks(segs) /\ n = Len(segs) /\ l = Lengths(segs)
  OBVIOUS
<1>2. /\ n \in Nat /\ IsLists(n, b) /\ Sizes(b) = l
      /\ \A i \in 1..n : /\ Len(b[i]) = segs[i].length /\ segs[i].length \in Nat
                         /\ \A k \in 1..segs[i].length :
                              b[i][k] = IF segs[i].trainable THEN 1 ELSE 0
  BY <1>1, BlocksAre
<1>3. l \in Seq(Nat) /\ Len(l) = n /\ \A i \in 1..n : l[i] = segs[i].length
  BY <1>1, LengthsAre
<1>4. PICK mask : mask = FlattenSeq(b)
  OBVIOUS
<1>5. CharacterMask(segs) = mask
  BY <1>1, <1>4 DEF CharacterMask, Blocks
<1>6. /\ IsList(mask) /\ Len(mask) = Total(l)
      /\ \A i \in 1..n : \A k \in 1..Len(b[i]) : mask[Ends(l)[i - 1] + k] = b[i][k]
  BY <1>2, <1>4, FlatIs
<1>7. Joined(segs) = Total(l) /\ Total(l) \in Nat
  <2>1. Joined(segs) = Total(l)
    BY <1>1 DEF Joined
  <2> QED BY <1>6, <2>1 DEF IsList
<1>8. /\ Ends(l) \in [0..n -> Nat]
      /\ \A i \in 1..n : Ends(l)[i] = Ends(l)[i - 1] + segs[i].length
  BY <1>3, EndsIs
<1>9. ASSUME NEW c \in 0..Total(l) - 1, NEW q \in 1..n, Ends(l)[q - 1] <= c, c < Ends(l)[q]
      PROVE  mask[c + 1] = IF segs[q].trainable THEN 1 ELSE 0
  <2>1. Ends(l)[q - 1] \in Nat
    <3>1. q - 1 \in 0..n
      BY <1>2
    <3> QED BY <1>8, <3>1
  <2>2. PICK k : k = c + 1 - Ends(l)[q - 1]
    OBVIOUS
  <2>3. k \in 1..segs[q].length /\ Ends(l)[q - 1] + k = c + 1
    <3>1. c \in Nat /\ segs[q].length \in Nat /\ Ends(l)[q] = Ends(l)[q - 1] + segs[q].length
      BY <1>2, <1>7, <1>8
    <3> QED BY SMTT(30), <1>9, <2>1, <2>2, <3>1
  <2>4. mask[Ends(l)[q - 1] + k] = b[q][k]
    BY <1>2, <1>6, <2>3
  <2> QED BY <1>2, <2>3, <2>4
<1>10. ASSUME NEW c \in 0..Total(l) - 1
       PROVE  /\ mask[c + 1] \in {0, 1}
              /\ mask[c + 1] = 1 <=> \E q \in 1..n : /\ segs[q].trainable
                                                     /\ Ends(l)[q - 1] <= c /\ c < Ends(l)[q]
  <2>1. c \in Nat /\ c < Total(l)
    BY <1>7
  <2>2. PICK q \in 1..n : Ends(l)[q - 1] <= c /\ c < Ends(l)[q]
    BY <1>3, <2>1, EndsFind
  <2>3. \A p \in 1..n : Ends(l)[p - 1] <= c /\ c < Ends(l)[p] => p = q
    BY <1>3, <2>1, <2>2, EndsApart
  <2>4. mask[c + 1] = IF segs[q].trainable THEN 1 ELSE 0
    BY <1>9, <2>2
  <2> QED BY <2>2, <2>3, <2>4
<1> QED BY <1>1, <1>5, <1>6, <1>7, <1>10

(* The mask marks the characters that render calls, and no other.          *)
LEMMA MaskIsCalls ==
  ASSUME NEW t, t.messages \in Seq(Message)
  PROVE  LET segs == SerializeTrajectory(t)
             mask == CharacterMask(segs)
         IN  /\ segs \in Seq(SegmentSet) /\ Joined(segs) \in Nat
             /\ IsList(mask) /\ Len(mask) = Joined(segs)
             /\ CallCharacters(t) \subseteq 0..Joined(segs) - 1
             /\ \A c \in 0..Joined(segs) - 1 :
                  /\ mask[c + 1] \in {0, 1}
                  /\ mask[c + 1] = 1 <=> c \in CallCharacters(t)
<1>1. PICK segs : segs = SerializeTrajectory(t)
  OBVIOUS
<1>2. segs \in Seq(SegmentSet)
  BY <1>1, SegmentsAre
<1>3. PICK l \in Seq(Nat) : l = Lengths(segs) /\ Len(l) = Len(segs)
  BY <1>2, LengthsAre
<1>4. PICK msgs \in Seq(Message) : msgs = t.messages
  OBVIOUS
<1>5. PICK n \in Nat : n = Len(msgs) /\ DOMAIN msgs = 1..n /\ \A i \in 1..n : msgs[i] \in Message
  OBVIOUS
<1>6. \A i \in 1..n : DOMAIN msgs[i].calls = 1..Len(msgs[i].calls)
                      /\ \A j \in 1..Len(msgs[i].calls) : msgs[i].calls[j] \in Nat
  <2> TAKE i \in 1..n
  <2>1. msgs[i].calls \in Seq(Nat)
    BY <1>5, CallsAre
  <2> QED BY <2>1
<1> DEFINE Place(i, j) == CallStart(t, i, j) .. CallStart(t, i, j) + Wrap + msgs[i].calls[j] - 1
           Covers(i, j, c) == c \in Place(i, j)
<1>7. \A c : c \in CallCharacters(t) <=>
               \E i \in 1..n : \E j \in 1..Len(msgs[i].calls) : Covers(i, j, c)
  <2>1. CallCharacters(t) =
          UNION {UNION {Place(i, j) : j \in DOMAIN msgs[i].calls} : i \in DOMAIN msgs}
    BY <1>4 DEF CallCharacters, CallStart, Rendered
  <2> HIDE DEF Place
  <2>2. \A c : c \in CallCharacters(t) <=>
          \E i \in DOMAIN msgs : \E j \in DOMAIN msgs[i].calls : c \in Place(i, j)
    BY <2>1
  <2> QED BY <1>5, <1>6, <2>2
<1>8. ASSUME NEW q \in 1..Len(segs)
      PROVE  Ends(l)[q - 1] \in Nat /\ Ends(l)[q] \in Nat /\ Ends(l)[q] <= Total(l) /\ Total(l) \in Nat
  <2>1. q - 1 \in 0..Len(l) /\ q \in (q - 1)..Len(l) /\ q \in 0..Len(l)
    BY <1>3
  <2> QED BY <2>1, EndsGrow
<1>9. Joined(segs) = Total(l)
  BY <1>3 DEF Joined
<1>17. \A q, i, j : RendersCall(t, q, i, j) <=>
         /\ segs[q].trainable /\ Ends(l)[q - 1] = CallStart(t, i, j)
         /\ Ends(l)[q] = CallStart(t, i, j) + Wrap + msgs[i].calls[j]
  BY <1>1, <1>3, <1>4 DEF RendersCall
<1>18. /\ \A i \in 1..n : \A j \in 1..Len(msgs[i].calls) :
            \E q \in 1..Len(segs) : RendersCall(t, q, i, j)
       /\ \A q \in 1..Len(segs) : segs[q].trainable =>
            \E i \in 1..n : \E j \in 1..Len(msgs[i].calls) : RendersCall(t, q, i, j)
  BY <1>1, <1>4, <1>5, CallSegments
<1>10. \A i \in 1..n : \A j \in 1..Len(msgs[i].calls) : \E q \in 1..Len(segs) :
         /\ segs[q].trainable /\ Ends(l)[q - 1] = CallStart(t, i, j)
         /\ Ends(l)[q] = CallStart(t, i, j) + Wrap + msgs[i].calls[j]
  BY <1>17, <1>18
<1>12. ASSUME NEW c, c \in CallCharacters(t)
       PROVE  /\ c \in 0..Joined(segs) - 1
              /\ \E q \in 1..Len(segs) : segs[q].trainable /\ Ends(l)[q - 1] <= c /\ c < Ends(l)[q]
  <2>1. PICK i \in 1..n : \E j \in 1..Len(msgs[i].calls) : Covers(i, j, c)
    BY <1>7, <1>12
  <2>2. PICK j \in 1..Len(msgs[i].calls) : Covers(i, j, c)
    BY <2>1
  <2>3. PICK q \in 1..Len(segs) :
          /\ segs[q].trainable /\ Ends(l)[q - 1] = CallStart(t, i, j)
          /\ Ends(l)[q] = CallStart(t, i, j) + Wrap + msgs[i].calls[j]
    BY <1>10
  <2>4. Place(i, j) = Ends(l)[q - 1] .. Ends(l)[q] - 1
    <3>1. PICK s \in Nat, x \in Nat : s = CallStart(t, i, j) /\ x = msgs[i].calls[j]
      BY <1>6, <1>8, <2>3
    <3>2. Place(i, j) = s .. s + Wrap + x - 1
      BY <3>1
    <3>3. Ends(l)[q] = s + Wrap + x /\ Ends(l)[q - 1] = s
      BY <2>3, <3>1
    <3>4. s + Wrap + x - 1 = (s + Wrap + x) - 1
      BY TrainingDataConstants
    <3> HIDE DEF Place
    <3> QED BY <3>2, <3>3, <3>4
  <2>5. c \in Ends(l)[q - 1] .. Ends(l)[q] - 1
    BY <2>2, <2>4
  <2> QED BY SMTT(30), <1>8, <1>9, <2>3, <2>5
<1>13. ASSUME NEW c \in 0..Joined(segs) - 1, NEW q \in 1..Len(segs),
              segs[q].trainable, Ends(l)[q - 1] <= c, c < Ends(l)[q]
       PROVE  c \in CallCharacters(t)
  <2>1. PICK i \in 1..n : \E j \in 1..Len(msgs[i].calls) : RendersCall(t, q, i, j)
    BY <1>18, <1>13
  <2>6. PICK j \in 1..Len(msgs[i].calls) : RendersCall(t, q, i, j)
    BY <2>1
  <2>2. /\ Ends(l)[q - 1] = CallStart(t, i, j)
        /\ Ends(l)[q] = CallStart(t, i, j) + Wrap + msgs[i].calls[j]
    BY <1>17, <2>6
  <2>3. c \in Ends(l)[q - 1] .. Ends(l)[q] - 1
    BY <1>8, <1>9, <1>13
  <2>5. Place(i, j) = Ends(l)[q - 1] .. Ends(l)[q] - 1
    <3>1. PICK s \in Nat, x \in Nat : s = CallStart(t, i, j) /\ x = msgs[i].calls[j]
      BY <1>6, <1>8, <2>2
    <3>2. Place(i, j) = s .. s + Wrap + x - 1
      BY <3>1
    <3>3. Ends(l)[q] = s + Wrap + x /\ Ends(l)[q - 1] = s
      BY <2>2, <3>1
    <3>4. s + Wrap + x - 1 = (s + Wrap + x) - 1
      BY TrainingDataConstants
    <3> HIDE DEF Place
    <3> QED BY <3>2, <3>3, <3>4
  <2>4. Covers(i, j, c)
    BY <2>5, <2>3
  <2> QED BY <1>7, <2>4
<1>14. PICK mask : mask = CharacterMask(segs)
  OBVIOUS
<1>15. /\ IsList(mask) /\ Len(mask) = Joined(segs) /\ Joined(segs) \in Nat
       /\ \A c \in 0..Joined(segs) - 1 :
            /\ mask[c + 1] \in {0, 1}
            /\ mask[c + 1] = 1 <=> \E q \in 1..Len(segs) : /\ segs[q].trainable
                                           /\ Ends(l)[q - 1] <= c /\ c < Ends(l)[q]
  BY <1>2, <1>3, <1>14, MaskIs
<1>16. \A c \in 0..Joined(segs) - 1 : mask[c + 1] = 1 <=> c \in CallCharacters(t)
  BY <1>12, <1>13, <1>15
<1> QED BY <1>1, <1>2, <1>12, <1>14, <1>15, <1>16

-----------------------------------------------------------------------------
(* Tokens.                                                                 *)
LEMMA UptoIs ==
  ASSUME NEW s, IsList(s), NEW n \in Nat
  PROVE  /\ IsList(Upto(s, n)) /\ Len(Upto(s, n)) \in Nat
         /\ Len(Upto(s, n)) = IF n < Len(s) THEN n ELSE Len(s)
         /\ \A k \in 1..Len(Upto(s, n)) : k \in 1..Len(s) /\ Upto(s, n)[k] = s[k]
<1>1. PICK S : S = {s[k] : k \in 1..Len(s)}
  OBVIOUS
<1>2. s \in Seq(S) /\ Len(s) \in Nat
  BY <1>1, ListIs DEF IsList
<1>3. PICK m \in Nat : m = (IF n < Len(s) THEN n ELSE Len(s)) /\ m <= Len(s)
  BY <1>2
<1>4. PICK u : u = SubSeq(s, 1, m)
  OBVIOUS
<1>5. u \in Seq(S) /\ Len(u) = m /\ \A k \in 1..m : u[k] = s[k]
  BY <1>2, <1>3, <1>4
<1>6. Upto(s, n) = u
  BY <1>3, <1>4 DEF Upto
<1>7. IsList(u)
  BY <1>5, IsAList
<1>8. \A k \in 1..m : k \in 1..Len(s)
  BY <1>2, <1>3
<1> QED BY <1>3, <1>5, <1>6, <1>7, <1>8

(* The cut keeps lists of one length at one length.                        *)
LEMMA UptoAlike ==
  ASSUME NEW s, NEW r, IsList(s), IsList(r), Len(s) = Len(r), NEW n \in Nat
  PROVE  Len(Upto(s, n)) = Len(Upto(r, n))
BY UptoIs

(* How many tokens an example has.                                         *)
LengthOf(e) == Len(e.input_ids)

(* Its four lists are of one length.                                       *)
Lists(e) ==
  /\ IsList(e.input_ids) /\ IsList(e.attention_mask) /\ IsList(e.labels) /\ IsList(e.token_train_mask)
  /\ Len(e.attention_mask) = LengthOf(e) /\ Len(e.labels) = LengthOf(e)
  /\ Len(e.token_train_mask) = LengthOf(e)

(* A label is the token where the mask trains it and ignored elsewhere.    *)
Labelled(e) ==
  \A k \in 1..LengthOf(e) :
    /\ e.token_train_mask[k] \in {0, 1}
    /\ e.labels[k] = IF e.token_train_mask[k] = 1 THEN e.input_ids[k] ELSE IGNORE_INDEX

(* Its tokens are those of the run, in order, and the trained ones cover   *)
(* the characters.                                                         *)
Spells(e, run, characters, chars_per_token) ==
  \A k \in 1..LengthOf(e) :
    LET token == e.input_ids[k]
    IN  /\ token[1] = run /\ token[2] = (k - 1) * chars_per_token
        /\ e.token_train_mask[k] = 1 <=> \E c \in token[2] .. token[3] - 1 : c \in characters

(* The tokens cover the text in steps of the tokenizer's width.            *)
LEMMA OffsetsAre ==
  ASSUME NEW text \in Nat, NEW w \in Nat \ {0}
  PROVE  \E n \in Nat : GetOffsets(text, w) =
           [k \in 1..n |-> [start |-> (k - 1) * w, end |-> IF k * w < text THEN k * w ELSE text]]
<1>1. (text + w - 1) \div w \in Int
  OBVIOUS
<1>2. text + w - 1 \in Nat
  OBVIOUS
<1>3. (text + w - 1) \div w \in Nat
  BY <1>1, <1>2
<1> QED BY <1>3 DEF GetOffsets

(* The mask marks these characters of the text.                            *)
Marks(mask, text, characters) ==
  Len(mask) = text /\ \A c \in 0..text - 1 : mask[c + 1] = 1 <=> c \in characters

(* What the tensorizer makes of a text and its mask.                       *)
LEMMA ExampleIs ==
  ASSUME NEW run, NEW text \in Nat, NEW mask, NEW characters, Marks(mask, text, characters),
         NEW tokenizer, tokenizer.max_length \in Nat, tokenizer.chars_per_token \in Nat \ {0}, NEW metadata,
         NEW e, e = TensorizeText(run, text, mask, tokenizer, metadata)
  PROVE  /\ Lists(e) /\ Labelled(e) /\ Spells(e, run, characters, tokenizer.chars_per_token)
         /\ LengthOf(e) \in Nat /\ LengthOf(e) <= tokenizer.max_length /\ e.metadata = metadata
<1>1. PICK w \in Nat \ {0}, L \in Nat : w = tokenizer.chars_per_token /\ L = tokenizer.max_length
  OBVIOUS
<1>2. PICK offsets : offsets = GetOffsets(text, w)
  OBVIOUS
<1>3. PICK n \in Nat : offsets =
        [k \in 1..n |-> [start |-> (k - 1) * w, end |-> IF k * w < text THEN k * w ELSE text]]
  BY ZenonT(30), <1>1, <1>2, OffsetsAre
<1>4. DOMAIN offsets = 1..n /\ \A k \in 1..n :
        /\ offsets[k].start = (k - 1) * w
        /\ offsets[k].end = IF k * w < text THEN k * w ELSE text
  BY <1>3
<1>5. \A k \in 1..n : (k - 1) * w \in Nat /\ k * w \in Nat
  OBVIOUS
<1>6. PICK tokens : tokens = Encode(run, text, w)
  OBVIOUS
<1>7. tokens = [k \in 1..n |-> <<run, offsets[k].start, offsets[k].end>>]
  BY <1>2, <1>4, <1>6 DEF Encode
<1>8. /\ IsList(tokens) /\ Len(tokens) = n
      /\ \A k \in 1..n : tokens[k] = <<run, offsets[k].start, offsets[k].end>>
  BY <1>7, ListOf
<1>9. PICK aligned : aligned = AlignCharacterMaskToTokens(mask, offsets)
  OBVIOUS
<1> DEFINE Marked(k) == \E i \in offsets[k].start .. offsets[k].end - 1 : i < Len(mask) /\ mask[i + 1] = 1
<1>10. aligned = [k \in 1..n |-> IF Marked(k) THEN 1 ELSE 0]
  BY <1>4, <1>9 DEF AlignCharacterMaskToTokens
<1> HIDE DEF Marked
<1>11. IsList(aligned) /\ Len(aligned) = n /\ \A k \in 1..n : aligned[k] = IF Marked(k) THEN 1 ELSE 0
  BY <1>10, ListOf
<1>12. ASSUME NEW k \in 1..n
       PROVE  Marked(k) <=> \E c \in offsets[k].start .. offsets[k].end - 1 : c \in characters
  <2>1. offsets[k].start \in Nat /\ offsets[k].end \in Nat /\ offsets[k].end <= text
    <3>1. PICK x \in Nat, y \in Nat : x = (k - 1) * w /\ y = k * w
      BY <1>5
    <3>2. offsets[k].start = x /\ offsets[k].end = IF y < text THEN y ELSE text
      BY <1>4, <3>1
    <3> QED BY <3>2
  <2>2. \A c \in offsets[k].start .. offsets[k].end - 1 : c \in 0..text - 1 /\ c < Len(mask)
    BY <2>1 DEF Marks
  <2> QED BY <2>2 DEF Marked, Marks
<1>13. PICK marks, ids : marks = Upto(aligned, L) /\ ids = Upto(tokens, L)
  OBVIOUS
<1>28. /\ IsList(ids) /\ Len(ids) \in Nat /\ Len(ids) = (IF L < Len(tokens) THEN L ELSE Len(tokens))
       /\ \A k \in 1..Len(ids) : k \in 1..Len(tokens) /\ ids[k] = tokens[k]
  BY <1>8, <1>13, UptoIs
<1>29. /\ IsList(marks) /\ Len(marks) = (IF L < Len(aligned) THEN L ELSE Len(aligned))
       /\ \A k \in 1..Len(marks) : k \in 1..Len(aligned) /\ marks[k] = aligned[k]
  BY <1>11, <1>13, UptoIs
<1>14. PICK m \in Nat : m = Len(ids) /\ m = Len(marks) /\ m <= L
  BY <1>8, <1>11, <1>28, <1>29
<1>15. /\ IsList(ids) /\ IsList(marks)
       /\ \A k \in 1..m : k \in 1..n /\ ids[k] = tokens[k] /\ marks[k] = aligned[k]
  BY <1>8, <1>14, <1>28, <1>29
<1>16. DOMAIN ids = 1..m
  BY <1>14, <1>15 DEF IsList
<1>17. PICK attention : attention = [k \in 1..m |-> 1]
  OBVIOUS
<1>18. PICK labels : labels = [k \in 1..m |-> IF marks[k] = 1 THEN ids[k] ELSE IGNORE_INDEX]
  OBVIOUS
<1>19. IsList(attention) /\ Len(attention) = m
  BY <1>17, ListOf
<1>20. /\ IsList(labels) /\ Len(labels) = m
       /\ \A k \in 1..m : labels[k] = IF marks[k] = 1 THEN ids[k] ELSE IGNORE_INDEX
  BY <1>18, ListOf
<1>22. e = [input_ids |-> ids, attention_mask |-> attention, labels |-> labels,
            token_train_mask |-> marks, metadata |-> metadata]
  BY <1>1, <1>2, <1>6, <1>9, <1>13, <1>16, <1>17, <1>18 DEF TensorizeText
<1>23. /\ e.input_ids = ids /\ e.attention_mask = attention /\ e.labels = labels
       /\ e.token_train_mask = marks /\ e.metadata = metadata
  BY <1>22
<1>24. Lists(e) /\ LengthOf(e) = m
  BY <1>14, <1>15, <1>19, <1>20, <1>23 DEF Lists, LengthOf
<1>25. Labelled(e)
  <2>1. \A k \in 1..m : marks[k] \in {0, 1}
    BY <1>11, <1>15
  <2> QED BY <1>20, <1>23, <1>24, <2>1 DEF Labelled
<1>26. ASSUME NEW k \in 1..m
       PROVE  /\ ids[k][1] = run /\ ids[k][2] = (k - 1) * w
              /\ marks[k] = 1 <=> \E c \in ids[k][2] .. ids[k][3] - 1 : c \in characters
  <2>1. ids[k] = <<run, offsets[k].start, offsets[k].end>> /\ k \in 1..n
    BY <1>8, <1>15
  <2>2. ids[k][1] = run /\ ids[k][2] = offsets[k].start /\ ids[k][3] = offsets[k].end
    BY <2>1
  <2>3. marks[k] = 1 <=> Marked(k)
    BY <1>11, <1>15
  <2> QED BY <1>4, <1>12, <2>1, <2>2, <2>3
<1>27. Spells(e, run, characters, w)
  BY <1>23, <1>24, <1>26 DEF Spells
<1> QED BY <1>1, <1>14, <1>23, <1>24, <1>25, <1>27

(* A sample, and the example made of it.                                   *)
LEMMA SampleIs ==
  ASSUME NEW t, t.messages \in Seq(Message)
  PROVE  LET s == BuildTrainingSample(t)
         IN  /\ s.run = t.run /\ s.task = t.task /\ s.status = t.status
             /\ s.passed = (t.passed = "passed")
             /\ s.segments \in Seq(SegmentSet)
             /\ s.text = Joined(s.segments) /\ s.text \in Nat
             /\ s.character_mask = CharacterMask(s.segments) /\ s.spans = LossSpans(s.segments)
             /\ IsList(s.character_mask) /\ Len(s.character_mask) = s.text
             /\ s.trainable_char_count = Ones(s.character_mask)
             /\ CallCharacters(t) \subseteq 0..s.text - 1
             /\ \A c \in 0..s.text - 1 :
                  /\ s.character_mask[c + 1] \in {0, 1}
                  /\ s.character_mask[c + 1] = 1 <=> c \in CallCharacters(t)
<1>1. PICK segs, mask : segs = SerializeTrajectory(t) /\ mask = CharacterMask(segs)
  OBVIOUS
<1>2. /\ segs \in Seq(SegmentSet) /\ Joined(segs) \in Nat
      /\ IsList(mask) /\ Len(mask) = Joined(segs)
      /\ CallCharacters(t) \subseteq 0..Joined(segs) - 1
      /\ \A c \in 0..Joined(segs) - 1 :
           mask[c + 1] \in {0, 1} /\ (mask[c + 1] = 1 <=> c \in CallCharacters(t))
  BY <1>1, MaskIsCalls
<1>3. PICK s : s = BuildTrainingSample(t)
  OBVIOUS
<1>4. s = [run |-> t.run, task |-> t.task, status |-> t.status, passed |-> t.passed = "passed",
           text |-> Joined(segs), segments |-> segs, character_mask |-> mask,
           spans |-> LossSpans(segs), trainable_char_count |-> Ones(mask)]
  BY <1>1, <1>3 DEF BuildTrainingSample
<1>5. /\ s.run = t.run /\ s.task = t.task /\ s.status = t.status
      /\ s.text = Joined(segs) /\ s.segments = segs /\ s.character_mask = mask
      /\ s.spans = LossSpans(segs) /\ s.trainable_char_count = Ones(mask)
  BY <1>4
<1>6. s.passed = (t.passed = "passed")
  BY <1>4
<1> QED BY <1>1, <1>2, <1>3, <1>5, <1>6

(* What it makes of the sample of a trajectory.                            *)
LEMMA SampleExample ==
  ASSUME NEW t, t.messages \in Seq(Message),
         NEW tokenizer, tokenizer.max_length \in Nat, tokenizer.chars_per_token \in Nat \ {0}
  PROVE  LET e == TensorizeSample(BuildTrainingSample(t), tokenizer)
         IN  /\ Lists(e) /\ Labelled(e)
             /\ Spells(e, t.run, CallCharacters(t), tokenizer.chars_per_token)
             /\ LengthOf(e) \in Nat /\ LengthOf(e) <= tokenizer.max_length
             /\ e.metadata.run = t.run /\ e.metadata.task = t.task
<1>1. PICK s : s = BuildTrainingSample(t)
  OBVIOUS
<1>2. /\ s.run = t.run /\ s.task = t.task /\ s.text \in Nat /\ Len(s.character_mask) = s.text
      /\ \A c \in 0..s.text - 1 : s.character_mask[c + 1] = 1 <=> c \in CallCharacters(t)
  BY <1>1, SampleIs
<1>3. PICK metadata :
        metadata = [task |-> s.task, run |-> s.run, trainable_char_count |-> s.trainable_char_count]
  OBVIOUS
<1>4. TensorizeSample(s, tokenizer) = TensorizeText(s.run, s.text, s.character_mask, tokenizer, metadata)
  BY <1>3 DEF TensorizeSample
<1>0. PICK mask, characters : mask = s.character_mask /\ characters = CallCharacters(t)
  OBVIOUS
<1>7. PICK text \in Nat :
        text = s.text /\ mask = s.character_mask /\ characters = CallCharacters(t)
  BY <1>0, <1>2
<1>8. Marks(mask, text, characters)
  BY <1>2, <1>7 DEF Marks
<1>9. PICK e : e = TensorizeText(s.run, text, mask, tokenizer, metadata)
  OBVIOUS
<1>10. /\ Lists(e) /\ Labelled(e) /\ Spells(e, s.run, characters, tokenizer.chars_per_token)
       /\ LengthOf(e) \in Nat /\ LengthOf(e) <= tokenizer.max_length /\ e.metadata = metadata
  BY <1>8, <1>9, ExampleIs
<1>5. e = TensorizeSample(s, tokenizer)
  BY <1>4, <1>7, <1>9
<1>6. metadata.run = t.run /\ metadata.task = t.task
  BY <1>2, <1>3
<1> QED BY <1>1, <1>2, <1>5, <1>6, <1>7, <1>10

-----------------------------------------------------------------------------
(* Packing.                                                                *)
HaveLengths(m, parts, lens) == Len(lens) = m /\ \A i \in 1..m : Len(parts[i]) = lens[i]

(* A field of the examples, flattened.                                     *)
LEMMA FieldIs ==
  ASSUME NEW m \in Nat, NEW parts, IsLists(m, parts), NEW lens \in Seq(Nat),
         HaveLengths(m, parts, lens)
  PROVE  /\ IsList(FlattenSeq(parts)) /\ Len(FlattenSeq(parts)) = Total(lens)
         /\ \A i \in 1..m : \A k \in 1..lens[i] :
              FlattenSeq(parts)[Ends(lens)[i - 1] + k] = parts[i][k]
<1>1. PICK z : z = Sizes(parts)
  OBVIOUS
<1>2. z \in Seq(Nat) /\ Len(z) = m /\ \A i \in 1..m : z[i] = Len(parts[i])
  BY <1>1, SizesAre
<1>3. z = lens
  BY <1>2 DEF HaveLengths
<1>4. /\ IsList(FlattenSeq(parts)) /\ Len(FlattenSeq(parts)) = Total(z)
      /\ \A i \in 1..m : \A k \in 1..Len(parts[i]) :
           FlattenSeq(parts)[Ends(z)[i - 1] + k] = parts[i][k]
  BY <1>1, FlatIs
<1>5. \A i \in 1..m : lens[i] = Len(parts[i])
  BY DEF HaveLengths
<1> QED BY <1>3, <1>4, <1>5

(* The examples, all with lists of one length.                             *)
AllLists(examples) == IsList(examples) /\ \A i \in 1..Len(examples) : Lists(examples[i])

(* Their lengths.                                                          *)
LengthsOf(examples) == [i \in DOMAIN examples |-> Len(examples[i].input_ids)]

(* The lengths, one for each example.                                      *)
LEMMA LengthsOfAre ==
  ASSUME NEW examples, AllLists(examples)
  PROVE  /\ Len(examples) \in Nat /\ DOMAIN examples = 1..Len(examples)
         /\ LengthsOf(examples) \in Seq(Nat) /\ Len(LengthsOf(examples)) = Len(examples)
         /\ \A i \in 1..Len(examples) : LengthsOf(examples)[i] = LengthOf(examples[i])
<1>1. PICK n \in Nat : n = Len(examples) /\ DOMAIN examples = 1..n
  BY ListIs DEF AllLists, IsList
<1>2. PICK l : l = [i \in 1..n |-> Len(examples[i].input_ids)]
  OBVIOUS
<1>3. \A i \in 1..n : Len(examples[i].input_ids) \in Nat
  BY <1>1 DEF AllLists, Lists, IsList
<1>4. l \in Seq(Nat) /\ Len(l) = n /\ \A i \in 1..n : l[i] = Len(examples[i].input_ids)
  BY <1>2, <1>3
<1>5. LengthsOf(examples) = l
  BY <1>1, <1>2 DEF LengthsOf
<1> QED BY <1>1, <1>4, <1>5 DEF LengthOf

(* A field of the pack, of which each example has as many as it has tokens.*)
IsField(examples, parts) ==
  /\ parts = [i \in DOMAIN examples |-> parts[i]]
  /\ \A i \in 1..Len(examples) : IsList(parts[i]) /\ Len(parts[i]) = LengthOf(examples[i])

(* A field of a pack holds that of each example where the ones before it   *)
(* end.                                                                    *)
LEMMA PackedField ==
  ASSUME NEW examples, AllLists(examples), NEW parts, IsField(examples, parts)
  PROVE  /\ IsList(FlattenSeq(parts)) /\ Len(FlattenSeq(parts)) = Total(LengthsOf(examples))
         /\ \A i \in 1..Len(examples) : \A k \in 1..LengthOf(examples[i]) :
              FlattenSeq(parts)[Ends(LengthsOf(examples))[i - 1] + k] = parts[i][k]
<1>1. PICK n \in Nat : n = Len(examples) /\ DOMAIN examples = 1..n
  BY LengthsOfAre
<1>2. PICK l \in Seq(Nat) :
        l = LengthsOf(examples) /\ Len(l) = n /\ \A i \in 1..n : l[i] = LengthOf(examples[i])
  BY <1>1, LengthsOfAre
<1>3. parts = [i \in 1..n |-> parts[i]]
  BY <1>1 DEF IsField
<1>4. IsLists(n, parts) /\ HaveLengths(n, parts, l)
  BY <1>1, <1>2, <1>3 DEF IsLists, HaveLengths, IsField
<1>5. /\ IsList(FlattenSeq(parts)) /\ Len(FlattenSeq(parts)) = Total(l)
      /\ \A i \in 1..n : \A k \in 1..l[i] : FlattenSeq(parts)[Ends(l)[i - 1] + k] = parts[i][k]
  BY <1>2, <1>4, FieldIs
<1> QED BY <1>1, <1>2, <1>5

(* A pack is the concatenation of the examples, whose tokens end at e.      *)
Concatenates(p, examples, e) ==
  /\ IsList(p.source_spans) /\ Len(p.source_spans) = Len(examples)
  /\ IsList(p.input_ids) /\ Len(p.input_ids) = Total(LengthsOf(examples))
  /\ IsList(p.attention_mask) /\ Len(p.attention_mask) = Total(LengthsOf(examples))
  /\ IsList(p.labels) /\ Len(p.labels) = Total(LengthsOf(examples))
  /\ IsList(p.token_train_mask) /\ Len(p.token_train_mask) = Total(LengthsOf(examples))
  /\ \A i \in 1..Len(examples) :
       /\ p.source_spans[i].start = e[i - 1]
       /\ p.source_spans[i].length = LengthOf(examples[i])
       /\ p.source_spans[i].metadata = examples[i].metadata
       /\ \A k \in 1..LengthOf(examples[i]) :
            /\ p.input_ids[e[i - 1] + k] = examples[i].input_ids[k]
            /\ p.attention_mask[e[i - 1] + k] = examples[i].attention_mask[k]
            /\ p.labels[e[i - 1] + k] = examples[i].labels[k]
            /\ p.token_train_mask[e[i - 1] + k] = examples[i].token_train_mask[k]

(* What the packer makes of a group of examples.                           *)
LEMMA PackIs ==
  ASSUME NEW examples, AllLists(examples), NEW p, p = PackMultiple(examples),
         NEW e, e = Ends(LengthsOf(examples))
  PROVE  Concatenates(p, examples, e)
<1>1. PICK n \in Nat : n = Len(examples) /\ DOMAIN examples = 1..n
  BY LengthsOfAre
<1>2. e = Ends(LengthsOf(examples))
  OBVIOUS
<1>3. PICK ids, attention, labels, marks :
        /\ ids = [i \in DOMAIN examples |-> examples[i].input_ids]
        /\ attention = [i \in DOMAIN examples |-> examples[i].attention_mask]
        /\ labels = [i \in DOMAIN examples |-> examples[i].labels]
        /\ marks = [i \in DOMAIN examples |-> examples[i].token_train_mask]
  OBVIOUS
<1>4. \A i \in 1..n : Lists(examples[i])
  BY <1>1 DEF AllLists
<1>5. /\ IsList(FlattenSeq(ids)) /\ Len(FlattenSeq(ids)) = Total(LengthsOf(examples))
      /\ \A i \in 1..n : \A k \in 1..LengthOf(examples[i]) :
           FlattenSeq(ids)[e[i - 1] + k] = examples[i].input_ids[k]
  <2>1. ids = [i \in DOMAIN examples |-> ids[i]] /\ \A i \in 1..n : ids[i] = examples[i].input_ids
    BY <1>1, <1>3
  <2>2. IsField(examples, ids)
    BY <1>1, <1>4, <2>1 DEF Lists, LengthOf, IsField
  <2>3. /\ IsList(FlattenSeq(ids)) /\ Len(FlattenSeq(ids)) = Total(LengthsOf(examples))
        /\ \A i \in 1..Len(examples) : \A k \in 1..LengthOf(examples[i]) :
             FlattenSeq(ids)[Ends(LengthsOf(examples))[i - 1] + k] = ids[i][k]
    BY <2>2, PackedField
  <2>4. \A i \in 1..n : \A k \in 1..LengthOf(examples[i]) :
          FlattenSeq(ids)[e[i - 1] + k] = ids[i][k]
    BY <1>1, <1>2, <2>3, Zenon
  <2> QED BY <2>1, <2>3, <2>4, Zenon
<1>6. /\ IsList(FlattenSeq(attention)) /\ Len(FlattenSeq(attention)) = Total(LengthsOf(examples))
      /\ \A i \in 1..n : \A k \in 1..LengthOf(examples[i]) :
           FlattenSeq(attention)[e[i - 1] + k] = examples[i].attention_mask[k]
  <2>1. /\ attention = [i \in DOMAIN examples |-> attention[i]]
        /\ \A i \in 1..n : attention[i] = examples[i].attention_mask
    BY <1>1, <1>3
  <2>2. IsField(examples, attention)
    BY <1>1, <1>4, <2>1 DEF Lists, LengthOf, IsField
  <2>3. /\ IsList(FlattenSeq(attention)) /\ Len(FlattenSeq(attention)) = Total(LengthsOf(examples))
        /\ \A i \in 1..Len(examples) : \A k \in 1..LengthOf(examples[i]) :
             FlattenSeq(attention)[Ends(LengthsOf(examples))[i - 1] + k] = attention[i][k]
    BY <2>2, PackedField
  <2>4. \A i \in 1..n : \A k \in 1..LengthOf(examples[i]) :
          FlattenSeq(attention)[e[i - 1] + k] = attention[i][k]
    BY <1>1, <1>2, <2>3, Zenon
  <2> QED BY <2>1, <2>3, <2>4, Zenon
<1>7. /\ IsList(FlattenSeq(labels)) /\ Len(FlattenSeq(labels)) = Total(LengthsOf(examples))
      /\ \A i \in 1..n : \A k \in 1..LengthOf(examples[i]) :
           FlattenSeq(labels)[e[i - 1] + k] = examples[i].labels[k]
  <2>1. labels = [i \in DOMAIN examples |-> labels[i]] /\ \A i \in 1..n : labels[i] = examples[i].labels
    BY <1>1, <1>3
  <2>2. IsField(examples, labels)
    BY <1>1, <1>4, <2>1 DEF Lists, LengthOf, IsField
  <2>3. /\ IsList(FlattenSeq(labels)) /\ Len(FlattenSeq(labels)) = Total(LengthsOf(examples))
        /\ \A i \in 1..Len(examples) : \A k \in 1..LengthOf(examples[i]) :
             FlattenSeq(labels)[Ends(LengthsOf(examples))[i - 1] + k] = labels[i][k]
    BY <2>2, PackedField
  <2>4. \A i \in 1..n : \A k \in 1..LengthOf(examples[i]) :
          FlattenSeq(labels)[e[i - 1] + k] = labels[i][k]
    BY <1>1, <1>2, <2>3, Zenon
  <2> QED BY <2>1, <2>3, <2>4, Zenon
<1>8. /\ IsList(FlattenSeq(marks)) /\ Len(FlattenSeq(marks)) = Total(LengthsOf(examples))
      /\ \A i \in 1..n : \A k \in 1..LengthOf(examples[i]) :
           FlattenSeq(marks)[e[i - 1] + k] = examples[i].token_train_mask[k]
  <2>1. /\ marks = [i \in DOMAIN examples |-> marks[i]]
        /\ \A i \in 1..n : marks[i] = examples[i].token_train_mask
    BY <1>1, <1>3
  <2>2. IsField(examples, marks)
    BY <1>1, <1>4, <2>1 DEF Lists, LengthOf, IsField
  <2>3. /\ IsList(FlattenSeq(marks)) /\ Len(FlattenSeq(marks)) = Total(LengthsOf(examples))
        /\ \A i \in 1..Len(examples) : \A k \in 1..LengthOf(examples[i]) :
             FlattenSeq(marks)[Ends(LengthsOf(examples))[i - 1] + k] = marks[i][k]
    BY <2>2, PackedField
  <2>4. \A i \in 1..n : \A k \in 1..LengthOf(examples[i]) :
          FlattenSeq(marks)[e[i - 1] + k] = marks[i][k]
    BY <1>1, <1>2, <2>3, Zenon
  <2> QED BY <2>1, <2>3, <2>4, Zenon
<1>9. PICK spans : spans = [i \in 1..n |-> Span(e[i - 1], examples[i], LengthOf(examples[i]))]
  OBVIOUS
<1>10. IsList(spans) /\ Len(spans) = n
  BY <1>9, ListOf
<1>11. \A i \in 1..n : /\ spans[i].start = e[i - 1] /\ spans[i].length = LengthOf(examples[i])
                       /\ spans[i].metadata = examples[i].metadata
  BY <1>9 DEF Span
<1>13. p = [input_ids |-> FlattenSeq(ids), attention_mask |-> FlattenSeq(attention),
            labels |-> FlattenSeq(labels), token_train_mask |-> FlattenSeq(marks),
            source_spans |-> spans]
  BY <1>1, <1>2, <1>3, <1>9 DEF PackMultiple, LengthsOf, LengthOf
<1>14. /\ p.input_ids = FlattenSeq(ids) /\ p.attention_mask = FlattenSeq(attention)
       /\ p.labels = FlattenSeq(labels) /\ p.token_train_mask = FlattenSeq(marks)
       /\ p.source_spans = spans
  BY <1>13
<1>15. /\ IsList(p.source_spans) /\ Len(p.source_spans) = n
       /\ IsList(p.input_ids) /\ Len(p.input_ids) = Total(LengthsOf(examples))
       /\ IsList(p.attention_mask) /\ Len(p.attention_mask) = Total(LengthsOf(examples))
       /\ IsList(p.labels) /\ Len(p.labels) = Total(LengthsOf(examples))
       /\ IsList(p.token_train_mask) /\ Len(p.token_train_mask) = Total(LengthsOf(examples))
  BY <1>5, <1>6, <1>7, <1>8, <1>10, <1>14
<1>16. ASSUME NEW i \in 1..n
       PROVE  /\ p.source_spans[i].start = e[i - 1]
              /\ p.source_spans[i].length = LengthOf(examples[i])
              /\ p.source_spans[i].metadata = examples[i].metadata
              /\ \A k \in 1..LengthOf(examples[i]) :
                   /\ p.input_ids[e[i - 1] + k] = examples[i].input_ids[k]
                   /\ p.attention_mask[e[i - 1] + k] = examples[i].attention_mask[k]
                   /\ p.labels[e[i - 1] + k] = examples[i].labels[k]
                   /\ p.token_train_mask[e[i - 1] + k] = examples[i].token_train_mask[k]
  <2>1. /\ p.source_spans[i].start = e[i - 1]
        /\ p.source_spans[i].length = LengthOf(examples[i])
        /\ p.source_spans[i].metadata = examples[i].metadata
    BY <1>11, <1>14
  <2>2. ASSUME NEW k \in 1..LengthOf(examples[i])
        PROVE  /\ p.input_ids[e[i - 1] + k] = examples[i].input_ids[k]
               /\ p.attention_mask[e[i - 1] + k] = examples[i].attention_mask[k]
               /\ p.labels[e[i - 1] + k] = examples[i].labels[k]
               /\ p.token_train_mask[e[i - 1] + k] = examples[i].token_train_mask[k]
    BY <1>5, <1>6, <1>7, <1>8, <1>14
  <2> QED BY <2>1, <2>2
<1> QED BY <1>1, <1>15, <1>16 DEF Concatenates

(* The packing goes on example by example.                                 *)
LEMMA PackingIs ==
  ASSUME NEW examples, Len(examples) \in Nat, NEW L
  PROVE  /\ Packing(examples, L)[0] = [sequences |-> <<>>, current |-> <<>>, length |-> 0]
         /\ \A i \in 1..Len(examples) :
              Packing(examples, L)[i] = PlaceExample(Packing(examples, L)[i - 1], examples[i], L)
<1> DEFINE first == [sequences |-> <<>>, current |-> <<>>, length |-> 0]
           n == Len(examples)
           Is(f, m) == f = [i \in 0..m |-> IF i = 0 THEN first
                                           ELSE PlaceExample(f[i - 1], examples[i], L)]
           T == {m \in 0..n : \E f : Is(f, m)}
<1> HIDE DEF first
<1>0. n \in Nat
  OBVIOUS
<1>1. 0 \in T
  <2>1. PICK f : f = [i \in 0..0 |-> first]
    OBVIOUS
  <2>2. Is(f, 0)
    BY <2>1
  <2> HIDE DEF Is
  <2> QED BY <2>2
<1>2. ASSUME NEW m \in 1..n, m - 1 \in T PROVE m \in T
  <2>1. PICK f : Is(f, m - 1)
    BY <1>2
  <2>2. PICK h : h = [i \in 0..m |-> IF i = m THEN PlaceExample(f[m - 1], examples[m], L) ELSE f[i]]
    OBVIOUS
  <2>3. \A i \in 0..m - 1 : h[i] = f[i]
    BY <2>2
  <2>4. h[m] = PlaceExample(f[m - 1], examples[m], L)
    BY <2>2
  <2>5. \A i \in 0..m - 1 : f[i] = IF i = 0 THEN first ELSE PlaceExample(f[i - 1], examples[i], L)
    BY <2>1
  <2>6. \A i \in 0..m : /\ i = m \/ i \in 0..m - 1
                        /\ i # 0 => i - 1 \in 0..m - 1
    OBVIOUS
  <2>7. \A i \in 0..m : h[i] = IF i = 0 THEN first ELSE PlaceExample(h[i - 1], examples[i], L)
    BY <2>3, <2>4, <2>5, <2>6
  <2>8. h = [i \in 0..m |-> h[i]]
    BY <2>2
  <2>9. h = [i \in 0..m |-> IF i = 0 THEN first ELSE PlaceExample(h[i - 1], examples[i], L)]
    BY <2>7, <2>8
  <2>10. Is(h, m)
    BY <2>9
  <2> HIDE DEF Is
  <2> QED BY <2>10
<1> HIDE DEF T
<1>3. n \in T
  <2> HIDE DEF n
  <2>1. 0..n \subseteq T
    BY <1>0, <1>1, <1>2, UpTo
  <2> QED BY <1>0, <2>1
<1> DEFINE g == CHOOSE g : g = [i \in 0..n |-> IF i = 0 THEN first
                                               ELSE PlaceExample(g[i - 1], examples[i], L)]
<1>4. g = Packing(examples, L)
  BY DEF Packing, first
<1>5. \E f : Is(f, n)
  BY <1>3 DEF T
<1>6. g = [i \in 0..n |-> IF i = 0 THEN first ELSE PlaceExample(g[i - 1], examples[i], L)]
  BY <1>5
<1> HIDE DEF g
<1>7. g[0] = first /\ \A i \in 1..n : g[i] = PlaceExample(g[i - 1], examples[i], L)
  BY <1>0, <1>6
<1> QED BY <1>4, <1>7 DEF first

(* Examples one after the other, from after place b.                       *)
Slice(examples, b, n) == [j \in 1..n |-> examples[b + j]]

(* A slice holds n examples from b on.                                     *)
LEMMA SliceIs ==
  ASSUME NEW examples, NEW b \in Nat, NEW n \in Nat
  PROVE  /\ IsList(Slice(examples, b, n)) /\ Len(Slice(examples, b, n)) = n
         /\ \A j \in 1..n : Slice(examples, b, n)[j] = examples[b + j]
<1>1. PICK f : f = Slice(examples, b, n)
  OBVIOUS
<1>2. f = [j \in 1..n |-> f[j]] /\ \A j \in 1..n : f[j] = examples[b + j]
  BY <1>1 DEF Slice
<1> QED BY <1>1, <1>2, ListOf

(* What a list holds after an append.                                      *)
LEMMA AppendedIs ==
  ASSUME NEW s, IsList(s), NEW x
  PROVE  /\ IsList(Append(s, x)) /\ Len(Append(s, x)) = Len(s) + 1 /\ Len(s) \in Nat
         /\ \A k \in 1..Len(s) : Append(s, x)[k] = s[k]
         /\ Append(s, x)[Len(s) + 1] = x
<1>1. PICK S : S = {s[k] : k \in 1..Len(s)} \cup {x}
  OBVIOUS
<1>2. PICK R : R = {s[k] : k \in 1..Len(s)}
  OBVIOUS
<1>3. s \in Seq(R) /\ R \subseteq S /\ x \in S
  BY <1>1, <1>2, ListIs
<1>4. s \in Seq(S)
  BY <1>3
<1>5. /\ Append(s, x) \in Seq(S) /\ Len(Append(s, x)) = Len(s) + 1 /\ Len(s) \in Nat
      /\ \A k \in 1..Len(s) : Append(s, x)[k] = s[k]
      /\ Append(s, x)[Len(s) + 1] = x
  BY <1>3, <1>4
<1> QED BY <1>5, IsAList

(* The next example extends the slice.                                     *)
LEMMA SliceMore ==
  ASSUME NEW examples, NEW b \in Nat, NEW n \in Nat
  PROVE  Append(Slice(examples, b, n), examples[b + (n + 1)]) = Slice(examples, b, n + 1)
<1>1. PICK f, g, x : /\ f = Slice(examples, b, n) /\ g = Slice(examples, b, n + 1)
                     /\ x = examples[b + (n + 1)]
  OBVIOUS
<1>2. /\ IsList(f) /\ Len(f) = n /\ \A j \in 1..n : f[j] = examples[b + j]
  BY <1>1, SliceIs
<1>3. /\ IsList(g) /\ Len(g) = n + 1 /\ \A j \in 1..n + 1 : g[j] = examples[b + j]
  <2>1. PICK m \in Nat : m = n + 1
    OBVIOUS
  <2>2. g = Slice(examples, b, m)
    BY <1>1, <2>1
  <2>3. IsList(g) /\ Len(g) = m /\ \A j \in 1..m : g[j] = examples[b + j]
    BY <2>2, SliceIs
  <2> QED BY <2>1, <2>3
<1>4. /\ IsList(Append(f, x)) /\ Len(Append(f, x)) = n + 1
      /\ \A k \in 1..n : Append(f, x)[k] = f[k]
      /\ Append(f, x)[n + 1] = x
  BY <1>2, AppendedIs
<1>5. \A k \in 1..n + 1 : Append(f, x)[k] = g[k]
  <2> TAKE k \in 1..n + 1
  <2>1. k \in 1..n \/ k = n + 1
    OBVIOUS
  <2>2. n + 1 \in 1..n + 1
    OBVIOUS
  <2> QED BY <1>1, <1>2, <1>3, <1>4, <2>1, <2>2
<1>6. Append(f, x) = [k \in 1..n + 1 |-> Append(f, x)[k]] /\ g = [k \in 1..n + 1 |-> g[k]]
  BY <1>3, <1>4 DEF IsList
<1> QED BY <1>1, <1>5, <1>6

(* The packs hold the first examples, each in its turn.                    *)
Grouped(examples, sequences, sizes) ==
  /\ IsList(sequences) /\ sizes \in Seq(Nat) /\ Len(sizes) = Len(sequences)
  /\ \A q \in 1..Len(sequences) :
       sequences[q] = PackMultiple(Slice(examples, Ends(sizes)[q - 1], sizes[q]))

(* One more pack.                                                          *)
LEMMA GroupMore ==
  ASSUME NEW examples, NEW sequences, NEW sizes, Grouped(examples, sequences, sizes),
         NEW c \in Nat
  PROVE  LET packs == Append(sequences, PackMultiple(Slice(examples, Total(sizes), c)))
         IN  Grouped(examples, packs, Append(sizes, c)) /\ Total(Append(sizes, c)) = Total(sizes) + c
<1>1. PICK n \in Nat : n = Len(sizes) /\ n = Len(sequences)
  BY DEF Grouped
<1>2. PICK more : more = Append(sizes, c)
  OBVIOUS
<1>3. sizes \in Seq(Nat)
  BY DEF Grouped
<1>4. /\ more \in Seq(Nat) /\ Len(more) = n + 1 /\ more[n + 1] = c
      /\ \A k \in 1..n : more[k] = sizes[k]
  <2>1. /\ Append(sizes, c) \in Seq(Nat) /\ Len(Append(sizes, c)) = Len(sizes) + 1
        /\ Append(sizes, c)[Len(sizes) + 1] = c
        /\ \A k \in 1..Len(sizes) : Append(sizes, c)[k] = sizes[k]
    BY <1>3
  <2> QED BY <1>1, <1>2, <2>1
<1>5. /\ Ends(sizes) \in [0..n -> Nat] /\ Ends(sizes)[0] = 0
      /\ Ends(more) \in [0..n + 1 -> Nat] /\ Ends(more)[0] = 0
      /\ \A i \in 1..n + 1 : Ends(more)[i] = Ends(more)[i - 1] + more[i]
  BY <1>1, <1>3, <1>4, EndsIs
<1>6. \A k \in 0..n : Ends(more)[k] = Ends(sizes)[k]
  <2>1. \A k \in 0..Len(sizes) : Ends(more)[0 + k] = Ends(more)[0] + Ends(sizes)[k]
    <3>1. 0 \in Nat /\ 0 + Len(sizes) <= Len(more) /\ \A k \in 1..Len(sizes) : more[0 + k] = sizes[k]
      BY <1>1, <1>4
    <3> QED BY <1>3, <1>4, <3>1, EndsShift
  <2> TAKE k \in 0..n
  <2>2. 0 + k = k /\ Ends(sizes)[k] \in Nat
    BY <1>5
  <2>3. Ends(more)[0 + k] = Ends(more)[0] + Ends(sizes)[k]
    BY <1>1, <2>1
  <2> QED BY <1>5, <2>2, <2>3
<1>7. Total(sizes) = Ends(sizes)[n] /\ Total(more) = Ends(more)[n + 1]
  BY <1>1, <1>4 DEF Total
<1>8. Total(more) = Total(sizes) + c
  <2>1. n + 1 \in 1..n + 1 /\ (n + 1) - 1 = n /\ n \in 0..n
    OBVIOUS
  <2>2. Ends(more)[n + 1] = Ends(more)[n] + c
    BY <1>4, <1>5, <2>1
  <2> QED BY <1>6, <1>7, <2>1, <2>2
<1>9. PICK last : last = PackMultiple(Slice(examples, Total(sizes), c))
  OBVIOUS
<1>10. PICK packs : packs = Append(sequences, last)
  OBVIOUS
<1>11. /\ IsList(packs) /\ Len(packs) = n + 1 /\ packs[n + 1] = last
       /\ \A k \in 1..n : packs[k] = sequences[k]
  BY <1>1, <1>10, AppendedIs DEF Grouped
<1>12. ASSUME NEW q \in 1..n + 1
       PROVE  packs[q] = PackMultiple(Slice(examples, Ends(more)[q - 1], more[q]))
  <2>1. CASE q = n + 1
    <3>1. q - 1 = n /\ n \in 0..n
      BY <2>1
    <3>2. Ends(more)[q - 1] = Total(sizes) /\ more[q] = c
      BY <1>4, <1>6, <1>7, <2>1, <3>1
    <3> QED BY <1>9, <1>11, <2>1, <3>2
  <2>2. CASE q # n + 1
    <3>1. q \in 1..n /\ q - 1 \in 0..n
      BY <2>2
    <3>2. sequences[q] = PackMultiple(Slice(examples, Ends(sizes)[q - 1], sizes[q]))
      BY <1>1, <3>1 DEF Grouped
    <3>3. Ends(more)[q - 1] = Ends(sizes)[q - 1] /\ more[q] = sizes[q]
      BY <1>4, <1>6, <3>1
    <3> QED BY <1>11, <3>1, <3>2, <3>3
  <2> QED BY <2>1, <2>2
<1>13. Grouped(examples, packs, more)
  BY <1>4, <1>11, <1>12 DEF Grouped
<1> QED BY <1>2, <1>8, <1>9, <1>10, <1>13

(* The packing, after i examples: so many in packs, the others open.       *)
PackingOK(examples, acc, i) ==
  /\ acc = [sequences |-> acc.sequences, current |-> acc.current, length |-> acc.length]
  /\ \E sizes, c : /\ Grouped(examples, acc.sequences, sizes)
                   /\ c \in Nat /\ Total(sizes) \in Nat /\ Total(sizes) + c = i
                   /\ acc.current = Slice(examples, Total(sizes), c)

(* Closing the open pack turns it into one more group.                     *)
LEMMA ClosePackIs ==
  ASSUME NEW examples, NEW acc, NEW i, PackingOK(examples, acc, i)
  PROVE  \E sizes : Grouped(examples, ClosePack(acc), sizes) /\ Total(sizes) = i
<1>1. PICK sizes, c : /\ Grouped(examples, acc.sequences, sizes)
                      /\ c \in Nat /\ Total(sizes) \in Nat /\ Total(sizes) + c = i
                      /\ acc.current = Slice(examples, Total(sizes), c)
  BY DEF PackingOK
<1>2. IsList(acc.current) /\ Len(acc.current) = c
  <2>1. PICK b \in Nat : b = Total(sizes)
    BY <1>1
  <2>2. IsList(Slice(examples, b, c)) /\ Len(Slice(examples, b, c)) = c
    BY <1>1, SliceIs
  <2> QED BY <1>1, <2>1, <2>2
<1>3. CASE acc.current = <<>>
  <2>1. c = 0
    BY <1>2, <1>3
  <2>2. Total(sizes) = i
    BY <1>1, <2>1
  <2> QED BY <1>1, <1>3, <2>2 DEF ClosePack
<1>4. CASE acc.current # <<>>
  <2>1. ClosePack(acc) = Append(acc.sequences, PackMultiple(Slice(examples, Total(sizes), c)))
    BY <1>1, <1>4 DEF ClosePack
  <2>2. /\ Grouped(examples, Append(acc.sequences, PackMultiple(Slice(examples, Total(sizes), c))),
                   Append(sizes, c))
        /\ Total(Append(sizes, c)) = Total(sizes) + c
    BY <1>1, GroupMore
  <2> QED BY <1>1, <2>1, <2>2
<1> QED BY <1>3, <1>4

(* An example that fits a pack is placed, in this one or in a new one.     *)
LEMMA PlaceKeeps ==
  ASSUME NEW examples, NEW i \in Nat \ {0}, NEW L, NEW acc, PackingOK(examples, acc, i - 1),
         ~(Len(examples[i].input_ids) > L)
  PROVE  PackingOK(examples, PlaceExample(acc, examples[i], L), i)
<1>1. PICK sizes, c : /\ Grouped(examples, acc.sequences, sizes)
                      /\ c \in Nat /\ Total(sizes) \in Nat /\ Total(sizes) + c = i - 1
                      /\ acc.current = Slice(examples, Total(sizes), c)
  BY DEF PackingOK
<1>2. PICK n : n = Len(examples[i].input_ids)
  OBVIOUS
<1>3. PICK a : a = PlaceExample(acc, examples[i], L)
  OBVIOUS
<1>4. CASE acc.length + n <= L
  <2>1. a = [acc EXCEPT !.current = Append(@, examples[i]), !.length = @ + n]
    BY <1>2, <1>3, <1>4 DEF PlaceExample
  <2>2. a = [sequences |-> acc.sequences, current |-> Append(acc.current, examples[i]),
             length |-> acc.length + n]
    BY <2>1 DEF PackingOK
  <2>3. Total(sizes) + (c + 1) = i
    BY <1>1
  <2>4. Append(acc.current, examples[i]) = Slice(examples, Total(sizes), c + 1)
    <3>1. PICK b \in Nat : b = Total(sizes)
      BY <1>1
    <3>2. Append(Slice(examples, b, c), examples[b + (c + 1)]) = Slice(examples, b, c + 1)
      BY <1>1, <3>1, SliceMore
    <3> QED BY <1>1, <2>3, <3>1, <3>2
  <2>5. /\ a.sequences = acc.sequences /\ a.current = Slice(examples, Total(sizes), c + 1)
        /\ a = [sequences |-> a.sequences, current |-> a.current, length |-> a.length]
    BY <2>2, <2>4
  <2>6. c + 1 \in Nat
    BY <1>1
  <2> QED BY <1>1, <1>3, <2>3, <2>5, <2>6 DEF PackingOK
<1>5. CASE ~(acc.length + n <= L)
  <2>1. a = [sequences |-> ClosePack(acc), current |-> <<examples[i]>>, length |-> n]
    BY <1>2, <1>3, <1>5 DEF PlaceExample
  <2>2. PICK more : Grouped(examples, ClosePack(acc), more) /\ Total(more) = i - 1
    BY ClosePackIs
  <2>3. <<examples[i]>> = Slice(examples, i - 1, 1)
    <3>1. Slice(examples, i - 1, 1) = [j \in 1..1 |-> examples[(i - 1) + j]]
      BY DEF Slice
    <3>2. (i - 1) + 1 = i
      OBVIOUS
    <3>3. \A j \in 1..1 : examples[(i - 1) + j] = examples[i]
      BY <3>2
    <3>4. Slice(examples, i - 1, 1) = [j \in 1..1 |-> examples[i]]
      BY <3>1, <3>3
    <3> QED BY <3>4
  <2>4. /\ a.sequences = ClosePack(acc) /\ a.current = Slice(examples, i - 1, 1)
        /\ a = [sequences |-> a.sequences, current |-> a.current, length |-> a.length]
    BY <2>1, <2>3
  <2>5. 1 \in Nat /\ i - 1 \in Nat /\ (i - 1) + 1 = i
    OBVIOUS
  <2> QED BY <1>3, <2>2, <2>4, <2>5 DEF PackingOK
<1> QED BY <1>4, <1>5

(* Nothing is packed that was cut on its way: no example is longer.        *)
Fit(examples, L) == \A i \in 1..Len(examples) : ~(Len(examples[i].input_ids) > L)

(* The packs are groups of consecutive examples and leave none out.        *)
LEMMA PackedIs ==
  ASSUME NEW examples, Len(examples) \in Nat, NEW L, Fit(examples, L)
  PROVE  /\ \E sizes : /\ Grouped(examples, PackExamples(examples, L).sequences, sizes)
                       /\ Total(sizes) = Len(examples)
         /\ PackExamples(examples, L).total_examples = Len(examples)
<1> DEFINE n == Len(examples)
           P == Packing(examples, L)
           U == {i \in 0..n : PackingOK(examples, P[i], i)}
<1>1. /\ P[0] = [sequences |-> <<>>, current |-> <<>>, length |-> 0]
      /\ \A i \in 1..n : P[i] = PlaceExample(P[i - 1], examples[i], L)
  BY PackingIs
<1>2. 0 \in U
  <2>1. /\ P[0].sequences = <<>> /\ P[0].current = <<>>
        /\ P[0] = [sequences |-> P[0].sequences, current |-> P[0].current, length |-> P[0].length]
    BY <1>1
  <2>2. PICK none : none = <<>>
    OBVIOUS
  <2>3. IsList(none) /\ none \in Seq(Nat) /\ Len(none) = 0
    BY <2>2 DEF IsList
  <2>4. Grouped(examples, none, none)
    BY <2>3 DEF Grouped
  <2>5. Total(none) = 0
    BY <2>3, EndsIs DEF Total
  <2>6. none = Slice(examples, Total(none), 0)
    BY <2>2 DEF Slice
  <2>7. 0 \in Nat /\ 0 + 0 = 0
    OBVIOUS
  <2> HIDE DEF P
  <2>8. PackingOK(examples, P[0], 0)
    BY <2>1, <2>2, <2>4, <2>5, <2>6, <2>7 DEF PackingOK
  <2> QED BY <2>8
<1>3. ASSUME NEW i \in 1..n, i - 1 \in U PROVE i \in U
  <2>1. i \in Nat \ {0} /\ PackingOK(examples, P[i - 1], i - 1)
    BY <1>3
  <2>2. ~(Len(examples[i].input_ids) > L)
    BY DEF Fit
  <2>3. PackingOK(examples, PlaceExample(P[i - 1], examples[i], L), i)
    BY <2>1, <2>2, PlaceKeeps
  <2> HIDE DEF P
  <2> QED BY <1>1, <2>3
<1> HIDE DEF U
<1>4. n \in U
  <2>0. n \in Nat
    OBVIOUS
  <2> HIDE DEF n
  <2>1. 0..n \subseteq U
    BY <1>2, <1>3, <2>0, UpTo
  <2> QED BY <2>0, <2>1
<1>5. PackingOK(examples, P[n], n)
  BY <1>4 DEF U
<1>6. /\ PackExamples(examples, L).sequences = ClosePack(P[n])
      /\ PackExamples(examples, L).total_examples = n
  BY DEF PackExamples
<1> HIDE DEF P
<1> QED BY <1>5, <1>6, ClosePackIs

(* Each pack is made of its group.                                         *)
LEMMA GroupIs ==
  ASSUME NEW examples, AllLists(examples), NEW sequences, NEW sizes,
         Grouped(examples, sequences, sizes), Total(sizes) = Len(examples),
         NEW q \in 1..Len(sequences)
  PROVE  /\ Ends(sizes)[q - 1] \in Nat /\ sizes[q] \in Nat
         /\ \A j \in 1..sizes[q] : Ends(sizes)[q - 1] + j \in 1..Len(examples)
         /\ AllLists(Slice(examples, Ends(sizes)[q - 1], sizes[q]))
         /\ Len(Slice(examples, Ends(sizes)[q - 1], sizes[q])) = sizes[q]
         /\ sequences[q] = PackMultiple(Slice(examples, Ends(sizes)[q - 1], sizes[q]))
<1>1. sizes \in Seq(Nat) /\ Len(sizes) = Len(sequences) /\ Len(sizes) \in Nat
  BY DEF Grouped
<1>2. q \in 1..Len(sizes) /\ q - 1 \in 0..Len(sizes) /\ q \in q - 1..Len(sizes) /\ q \in 0..Len(sizes)
  BY <1>1
<1>3. sizes[q] \in Nat /\ Ends(sizes)[q] = Ends(sizes)[q - 1] + sizes[q]
  BY <1>1, <1>2, EndsIs
<1>4. Ends(sizes)[q - 1] \in Nat
  BY <1>1, <1>2, EndsIs
<1>5. Ends(sizes)[q] <= Total(sizes) /\ Total(sizes) \in Nat
  BY <1>1, <1>2, EndsGrow
<1>6. PICK b \in Nat, n \in Nat : b = Ends(sizes)[q - 1] /\ n = sizes[q]
  BY <1>3, <1>4
<1>7. b + n <= Len(examples) /\ Len(examples) \in Nat
  BY <1>3, <1>5, <1>6
<1>8. \A j \in 1..n : b + j \in 1..Len(examples)
  BY <1>7
<1>9. /\ IsList(Slice(examples, b, n)) /\ Len(Slice(examples, b, n)) = n
      /\ \A j \in 1..n : Slice(examples, b, n)[j] = examples[b + j]
  BY SliceIs
<1>10. AllLists(Slice(examples, b, n))
  BY <1>8, <1>9 DEF AllLists
<1>11. sequences[q] = PackMultiple(Slice(examples, b, n))
  BY <1>6 DEF Grouped
<1> QED BY <1>6, <1>8, <1>9, <1>10, <1>11

(* The packs' spans are of the examples, one each.                         *)
SpansOf(sequences) == [q \in DOMAIN sequences |-> sequences[q].source_spans]

(* The spans of the packs are the examples, one for each and in their      *)
(* order.                                                                  *)
LEMMA SpansAre ==
  ASSUME NEW examples, AllLists(examples), NEW sequences, NEW sizes,
         Grouped(examples, sequences, sizes), Total(sizes) = Len(examples)
  PROVE  /\ Sizes(SpansOf(sequences)) = sizes
         /\ IsList(FlattenSeq(SpansOf(sequences)))
         /\ Len(FlattenSeq(SpansOf(sequences))) = Len(examples)
         /\ \A j \in 1..Len(examples) :
              FlattenSeq(SpansOf(sequences))[j].metadata = examples[j].metadata
<1>1. PICK n \in Nat : n = Len(sequences) /\ DOMAIN sequences = 1..n
  BY ListIs DEF Grouped, IsList
<1>2. sizes \in Seq(Nat) /\ Len(sizes) = n
  BY <1>1 DEF Grouped
<1>3. PICK parts : parts = SpansOf(sequences)
  OBVIOUS
<1>4. parts = [q \in 1..n |-> parts[q]] /\ \A q \in 1..n : parts[q] = sequences[q].source_spans
  BY <1>1, <1>3 DEF SpansOf
<1>5. ASSUME NEW q \in 1..n
      PROVE  /\ IsList(parts[q]) /\ Len(parts[q]) = sizes[q]
             /\ \A k \in 1..sizes[q] : parts[q][k].metadata = examples[Ends(sizes)[q - 1] + k].metadata
  <2>1. /\ Ends(sizes)[q - 1] \in Nat /\ sizes[q] \in Nat
        /\ AllLists(Slice(examples, Ends(sizes)[q - 1], sizes[q]))
        /\ Len(Slice(examples, Ends(sizes)[q - 1], sizes[q])) = sizes[q]
        /\ sequences[q] = PackMultiple(Slice(examples, Ends(sizes)[q - 1], sizes[q]))
    BY <1>1, GroupIs
  <2>6. PICK b \in Nat, m \in Nat : b = Ends(sizes)[q - 1] /\ m = sizes[q]
    BY <2>1
  <2>2. PICK s : b = Ends(sizes)[q - 1] /\ m = sizes[q] /\ s = Slice(examples, b, m)
    BY <2>6
  <2>3. AllLists(s) /\ Len(s) = m /\ sequences[q] = PackMultiple(s)
    BY <2>1, <2>2
  <2>7. PICK p, e : p = PackMultiple(s) /\ e = Ends(LengthsOf(s))
    OBVIOUS
  <2>4. /\ IsList(p.source_spans) /\ Len(p.source_spans) = m
        /\ \A k \in 1..m : p.source_spans[k].metadata = s[k].metadata
    <3>1. AllLists(s)
      BY <2>3
    <3>2. /\ IsList(p.source_spans) /\ Len(p.source_spans) = Len(s)
      BY <2>7, <3>1, PackIs DEF Concatenates
    <3>3. \A k \in 1..Len(s) : p.source_spans[k].metadata = s[k].metadata
      BY <2>7, <3>1, PackIs DEF Concatenates
    <3> QED BY <2>3, <3>2, <3>3
  <2>5. \A k \in 1..m : s[k] = examples[b + k]
    <3>1. \A k \in 1..m : Slice(examples, b, m)[k] = examples[b + k]
      BY SliceIs
    <3> QED BY <2>2, <3>1
  <2> QED BY SMTT(30), <1>4, <2>2, <2>3, <2>4, <2>5, <2>7
<1>6. IsLists(n, parts) /\ HaveLengths(n, parts, sizes)
  BY <1>2, <1>4, <1>5 DEF IsLists, HaveLengths
<1>7. /\ IsList(FlattenSeq(parts)) /\ Len(FlattenSeq(parts)) = Total(sizes)
      /\ \A i \in 1..n : \A k \in 1..sizes[i] : FlattenSeq(parts)[Ends(sizes)[i - 1] + k] = parts[i][k]
  BY <1>2, <1>6, FieldIs
<1>8. Sizes(parts) = sizes
  <2>1. Sizes(parts) \in Seq(Nat) /\ Len(Sizes(parts)) = n /\ \A i \in 1..n : Sizes(parts)[i] = Len(parts[i])
    BY <1>6, SizesAre
  <2>2. PICK z : z = Sizes(parts)
    OBVIOUS
  <2>3. z \in Seq(Nat) /\ Len(z) = n /\ \A i \in 1..n : z[i] = sizes[i]
    BY <1>5, <2>1, <2>2
  <2>4. z = sizes
    BY <1>2, <2>3
  <2> QED BY <2>2, <2>4
<1>9. ASSUME NEW j \in 1..Len(examples)
      PROVE  FlattenSeq(parts)[j].metadata = examples[j].metadata
  <2>1. Len(examples) \in Nat
    BY DEF AllLists, IsList
  <2>2. j - 1 \in Nat /\ j - 1 < Total(sizes)
    BY <2>1
  <2>3. PICK q \in 1..Len(sizes) : Ends(sizes)[q - 1] <= j - 1 /\ j - 1 < Ends(sizes)[q]
    BY <1>2, <2>2, EndsFind
  <2>4. q \in 1..n /\ q - 1 \in 0..n
    BY <1>2
  <2>5. /\ Ends(sizes)[q] = Ends(sizes)[q - 1] + sizes[q] /\ Ends(sizes)[q - 1] \in Nat
        /\ sizes[q] \in Nat
    <3>1. Ends(sizes) \in [0..n -> Nat] /\ \A x \in 1..n : Ends(sizes)[x] = Ends(sizes)[x - 1] + sizes[x]
      BY <1>2, EndsIs
    <3>2. sizes[q] \in Nat
      BY <1>2, <2>4
    <3> QED BY <2>4, <3>1, <3>2
  <2>6. PICK k : k = j - Ends(sizes)[q - 1]
    OBVIOUS
  <2>7. k \in 1..sizes[q] /\ Ends(sizes)[q - 1] + k = j
    BY SMTT(30), <2>1, <2>3, <2>5, <2>6
  <2>8. FlattenSeq(parts)[Ends(sizes)[q - 1] + k] = parts[q][k]
    BY <1>7, <2>4, <2>7
  <2>9. parts[q][k].metadata = examples[Ends(sizes)[q - 1] + k].metadata
    BY <1>5, <2>4, <2>7
  <2> QED BY <2>7, <2>8, <2>9
<1> QED BY <1>3, <1>7, <1>8, <1>9

(* Part k of the pack's field is that of its example.                      *)
Holds(f, start, g) == start + Len(g) <= Len(f) /\ \A k \in 1..Len(g) : f[start + k] = g[k]

(* The part that unpacking takes out.                                      *)
Cut(f, start, m) == SubSeq(f, start + 1, start + m)

(* It is what packing put there.                                           *)
LEMMA PartOfField ==
  ASSUME NEW f, IsList(f), NEW g, IsList(g), NEW start \in Nat, Holds(f, start, g),
         NEW m, m = Len(g)
  PROVE  Cut(f, start, m) = g
<1>1. PICK S : S = {f[k] : k \in 1..Len(f)} \cup {g[k] : k \in 1..Len(g)}
  OBVIOUS
<1>2. PICK R, T : R = {f[k] : k \in 1..Len(f)} /\ T = {g[k] : k \in 1..Len(g)}
  OBVIOUS
<1>3. f \in Seq(R) /\ g \in Seq(T)
  BY <1>2, ListIs
<1>4. R \subseteq S /\ T \subseteq S
  BY <1>1, <1>2
<1>5. f \in Seq(S) /\ g \in Seq(S)
  BY <1>3, <1>4
<1>6. PICK n \in Nat : n = Len(g) /\ start + n <= Len(f)
  BY <1>5 DEF Holds
<1>7. PICK u : u = SubSeq(f, start + 1, start + n)
  OBVIOUS
<1>8. u \in Seq(S) /\ Len(u) = n /\ \A k \in 1..n : u[k] = f[start + k]
  BY <1>5, <1>6, <1>7
<1>9. \A k \in 1..n : u[k] = g[k]
  BY <1>6, <1>8 DEF Holds
<1>10. u = g
  BY SMTT(30), <1>5, <1>6, <1>8, <1>9
<1> QED BY <1>6, <1>7, <1>10 DEF Cut

(* Span i of pack q is an example: there and taken out of it again.        *)
LEMMA SpanIs ==
  ASSUME NEW examples, AllLists(examples), NEW sequences, NEW sizes,
         Grouped(examples, sequences, sizes), Total(sizes) = Len(examples),
         NEW q \in DOMAIN sequences, NEW i \in DOMAIN sequences[q].source_spans
  PROVE  LET p == sequences[q]
             span == p.source_spans[i]
             out == UnpackSequence(p)[i]
         IN  \E x \in 1..Len(examples) :
               LET e == examples[x]
               IN  /\ span.metadata = e.metadata /\ span.length = LengthOf(e)
                   /\ \A k \in 1..LengthOf(e) :
                        /\ p.input_ids[span.start + k] = e.input_ids[k]
                        /\ p.labels[span.start + k] = e.labels[k]
                   /\ out.input_ids = e.input_ids /\ out.attention_mask = e.attention_mask
                   /\ out.labels = e.labels /\ out.token_train_mask = e.token_train_mask
                   /\ out.metadata = e.metadata
<1>1. DOMAIN sequences = 1..Len(sequences)
  BY ListIs DEF Grouped
<1>2. PICK b \in Nat, n \in Nat : b = Ends(sizes)[q - 1] /\ n = sizes[q]
  BY <1>1, GroupIs
<1>3. PICK s : s = Slice(examples, b, n)
  OBVIOUS
<1>4. /\ AllLists(s) /\ Len(s) = n /\ sequences[q] = PackMultiple(s)
      /\ \A j \in 1..n : b + j \in 1..Len(examples)
  BY <1>1, <1>2, <1>3, GroupIs
<1>5. PICK p, l, ends : p = PackMultiple(s) /\ l = LengthsOf(s) /\ ends = Ends(l)
  OBVIOUS
<1>6. /\ IsList(p.source_spans) /\ Len(p.source_spans) = n
      /\ IsList(p.input_ids) /\ Len(p.input_ids) = Total(l)
      /\ IsList(p.attention_mask) /\ Len(p.attention_mask) = Total(l)
      /\ IsList(p.labels) /\ Len(p.labels) = Total(l)
      /\ IsList(p.token_train_mask) /\ Len(p.token_train_mask) = Total(l)
      /\ \A j \in 1..n :
           /\ p.source_spans[j].start = ends[j - 1]
           /\ p.source_spans[j].length = LengthOf(s[j])
           /\ p.source_spans[j].metadata = s[j].metadata
           /\ \A k \in 1..LengthOf(s[j]) :
                /\ p.input_ids[ends[j - 1] + k] = s[j].input_ids[k]
                /\ p.attention_mask[ends[j - 1] + k] = s[j].attention_mask[k]
                /\ p.labels[ends[j - 1] + k] = s[j].labels[k]
                /\ p.token_train_mask[ends[j - 1] + k] = s[j].token_train_mask[k]
  <2>1. Concatenates(p, s, ends)
    BY <1>4, <1>5, PackIs
  <2> QED BY <1>4, <1>5, <2>1 DEF Concatenates
<1>7. DOMAIN p.source_spans = 1..n
  BY <1>6, ListIs
<1>8. i \in 1..n
  BY <1>4, <1>5, <1>7
<1>9. PICK e : e = s[i]
  OBVIOUS
<1>10. e = examples[b + i] /\ b + i \in 1..Len(examples)
  BY <1>3, <1>4, <1>8, <1>9, SliceIs
<1>11. Lists(e)
  BY <1>4, <1>8, <1>9 DEF AllLists
<1>12. PICK m \in Nat : m = LengthOf(e)
  BY <1>11 DEF Lists, LengthOf, IsList
<1>13. l \in Seq(Nat) /\ Len(l) = n /\ l[i] = m
  BY <1>4, <1>5, <1>8, <1>9, <1>12, LengthsOfAre
<1>14. PICK start \in Nat : start = ends[i - 1] /\ start + m <= Total(l)
  <2>1. i - 1 \in 0..Len(l) /\ i \in 1..Len(l) /\ i \in i - 1..Len(l) /\ i \in 0..Len(l)
    BY <1>8, <1>13
  <2>2. Ends(l)[i] = Ends(l)[i - 1] + m /\ Ends(l)[i - 1] \in Nat
    BY <1>13, <2>1, EndsIs
  <2>3. Ends(l)[i] <= Total(l)
    BY <1>13, <2>1, EndsGrow
  <2> QED BY <1>5, <2>2, <2>3
<1>15. PICK span : span = p.source_spans[i]
  OBVIOUS
<1>16. span.start = start /\ span.length = m /\ span.metadata = e.metadata
  BY <1>6, <1>8, <1>9, <1>12, <1>14, <1>15
<1>17. \A k \in 1..m :
         /\ p.input_ids[start + k] = e.input_ids[k] /\ p.labels[start + k] = e.labels[k]
         /\ p.attention_mask[start + k] = e.attention_mask[k]
         /\ p.token_train_mask[start + k] = e.token_train_mask[k]
  BY <1>6, <1>8, <1>9, <1>12, <1>14
<1>18. /\ IsList(e.input_ids) /\ Len(e.input_ids) = m
       /\ IsList(e.attention_mask) /\ Len(e.attention_mask) = m
       /\ IsList(e.labels) /\ Len(e.labels) = m
       /\ IsList(e.token_train_mask) /\ Len(e.token_train_mask) = m
  BY <1>11, <1>12 DEF Lists, LengthOf
<1>19. SubSeq(p.input_ids, start + 1, start + m) = e.input_ids
  <2>1. PICK f, g : f = p.input_ids /\ g = e.input_ids
    OBVIOUS
  <2>2. IsList(f) /\ IsList(g) /\ Holds(f, start, g) /\ m = Len(g)
    BY <1>6, <1>14, <1>17, <1>18, <2>1 DEF Holds
  <2>3. Cut(f, start, m) = g
    BY <2>2, PartOfField
  <2> QED BY <2>1, <2>3 DEF Cut
<1>20. SubSeq(p.attention_mask, start + 1, start + m) = e.attention_mask
  <2>1. PICK f, g : f = p.attention_mask /\ g = e.attention_mask
    OBVIOUS
  <2>2. IsList(f) /\ IsList(g) /\ Holds(f, start, g) /\ m = Len(g)
    BY <1>6, <1>14, <1>17, <1>18, <2>1 DEF Holds
  <2>3. Cut(f, start, m) = g
    BY <2>2, PartOfField
  <2> QED BY <2>1, <2>3 DEF Cut
<1>21. SubSeq(p.labels, start + 1, start + m) = e.labels
  <2>1. PICK f, g : f = p.labels /\ g = e.labels
    OBVIOUS
  <2>2. IsList(f) /\ IsList(g) /\ Holds(f, start, g) /\ m = Len(g)
    BY <1>6, <1>14, <1>17, <1>18, <2>1 DEF Holds
  <2>3. Cut(f, start, m) = g
    BY <2>2, PartOfField
  <2> QED BY <2>1, <2>3 DEF Cut
<1>22. SubSeq(p.token_train_mask, start + 1, start + m) = e.token_train_mask
  <2>1. PICK f, g : f = p.token_train_mask /\ g = e.token_train_mask
    OBVIOUS
  <2>2. IsList(f) /\ IsList(g) /\ Holds(f, start, g) /\ m = Len(g)
    BY <1>6, <1>14, <1>17, <1>18, <2>1 DEF Holds
  <2>3. Cut(f, start, m) = g
    BY <2>2, PartOfField
  <2> QED BY <2>1, <2>3 DEF Cut
<1>23. UnpackSequence(p)[i] =
         [input_ids |-> e.input_ids, attention_mask |-> e.attention_mask, labels |-> e.labels,
          token_train_mask |-> e.token_train_mask, metadata |-> e.metadata]
  BY <1>7, <1>8, <1>15, <1>16, <1>19, <1>20, <1>21, <1>22 DEF UnpackSequence
<1>24. PICK out : out = UnpackSequence(p)[i]
  OBVIOUS
<1>25. /\ out.input_ids = e.input_ids /\ out.attention_mask = e.attention_mask
       /\ out.labels = e.labels /\ out.token_train_mask = e.token_train_mask
       /\ out.metadata = e.metadata
  BY <1>23, <1>24
<1>26. sequences[q] = p
  BY <1>4, <1>5
<1> QED BY SMTT(30), <1>10, <1>12, <1>15, <1>16, <1>17, <1>24, <1>25, <1>26

-----------------------------------------------------------------------------
(* The samples of some trajectories: one each, in some order.              *)
SamplesOf(samples, loaded) ==
  /\ IsList(samples) /\ Len(samples) = Cardinality(DOMAIN loaded)
  /\ \A k \in 1..Len(samples) :
       \E d \in DOMAIN loaded : samples[k] = BuildTrainingSample(loaded[d])
  /\ \A d \in DOMAIN loaded :
       \E k \in 1..Len(samples) : samples[k] = BuildTrainingSample(loaded[d])

(* Trajectories as their directories hold them.                            *)
Readable(loaded) ==
  /\ IsFiniteSet(DOMAIN loaded) /\ DOMAIN loaded \subseteq Nat
  /\ \A d \in DOMAIN loaded :
       loaded[d].run = d /\ loaded[d].task \in Nat /\ loaded[d].messages \in Seq(Message)

(* The dataset has a sample for each trajectory.                           *)
LEMMA DatasetIs ==
  ASSUME NEW loaded, Readable(loaded)
  PROVE  SamplesOf(Dataset(loaded), loaded)
<1>1. PICK S, before : S = DOMAIN loaded /\ before = [d \in S |-> {e \in S : e < d}]
  OBVIOUS
<1>2. PICK dirs : dirs = InOrder(S, before)
  OBVIOUS
<1>3. IsFiniteSet(S) /\ S \subseteq Nat
  BY <1>1 DEF Readable
<1>4. \A x, e \in S : e \in before[x] <=> e < x
  BY <1>1
<1>5. \A x \in S : before[x] \subseteq S
  BY <1>1
<1>6. Orders(S, before)
  <2>1. \A x, y \in S : x # y => x \in before[y] \/ y \in before[x]
    BY <1>3, <1>4
  <2>2. \A x, y, z \in S : z < x /\ x < y => z < y
    BY <1>3
  <2>3. \A x, y \in S : x \in before[y] => before[x] \subseteq before[y]
    BY <1>4, <1>5, <2>2
  <2>4. \A x \in S : x \notin before[x]
    BY <1>3, <1>4
  <2> QED BY <1>5, <2>1, <2>3, <2>4 DEF Orders
<1>7. /\ Cardinality(S) \in Nat
      /\ IsList(dirs) /\ Len(dirs) = Cardinality(S)
      /\ \A k \in 1..Cardinality(S) : dirs[k] \in S
      /\ \A x \in S : \E k \in 1..Cardinality(S) : dirs[k] = x
  <2>1. /\ Cardinality(S) \in Nat
        /\ IsList(InOrder(S, before)) /\ Len(InOrder(S, before)) = Cardinality(S)
        /\ \A k \in 1..Cardinality(S) : InOrder(S, before)[k] \in S
        /\ \A x \in S : \E k \in 1..Cardinality(S) : InOrder(S, before)[k] = x
    BY <1>3, <1>6, RankedIs
  <2> QED BY <1>2, <2>1
<1>8. PICK n \in Nat : n = Cardinality(S) /\ DOMAIN dirs = 1..n
  BY <1>7, ListIs
<1>9. PICK samples : samples = [i \in 1..n |-> BuildTrainingSample(loaded[dirs[i]])]
  OBVIOUS
<1>10. Dataset(loaded) = samples
  BY <1>1, <1>2, <1>8, <1>9 DEF Dataset
<1>11. IsList(samples) /\ Len(samples) = n
  <2>1. samples = [k \in 1..n |-> samples[k]]
    BY <1>9
  <2> QED BY <2>1, ListOf
<1>12. \A k \in 1..n : samples[k] = BuildTrainingSample(loaded[dirs[k]])
  BY <1>9
<1>13. \A k \in 1..n : \E d \in S : samples[k] = BuildTrainingSample(loaded[d])
  BY <1>7, <1>8, <1>12
<1>14. \A d \in S : \E k \in 1..n : samples[k] = BuildTrainingSample(loaded[d])
  BY <1>7, <1>8, <1>12
<1> QED BY <1>1, <1>8, <1>10, <1>11, <1>13, <1>14 DEF SamplesOf

(* Ordering them loses none.                                               *)
Rearranged(out, samples, n) ==
  /\ IsList(out) /\ Len(out) = n
  /\ \A k \in 1..n : \E i \in 1..n : out[k] = samples[i]
  /\ \A i \in 1..n : \E k \in 1..n : out[k] = samples[i]

(* Samples of tasks that are numbered.                                     *)
Tasked(samples) == \A i \in 1..Len(samples) : samples[i].task \in Nat

(* Ordering rearranges the samples.                                        *)
LEMMA OrderIs ==
  ASSUME NEW samples, IsList(samples), Tasked(samples)
  PROVE  Rearranged(OrderSamples(samples), samples, Len(samples))
<1>1. PICK n \in Nat : n = Len(samples) /\ DOMAIN samples = 1..n
  BY ListIs DEF IsList
<1> DEFINE Precedes(j, i) == \/ samples[j].task < samples[i].task
                             \/ samples[j].task = samples[i].task /\ j < i
<1>2. PICK S, before : S = 1..n /\ before = [i \in S |-> {j \in S : Precedes(j, i)}]
  OBVIOUS
<1>3. PICK order : order = InOrder(S, before)
  OBVIOUS
<1>4. IsFiniteSet(S) /\ Cardinality(S) = n
  <2>1. 1 \in Int /\ n \in Int
    OBVIOUS
  <2>2. IsFiniteSet(1..n) /\ Cardinality(1..n) = IF 1 > n THEN 0 ELSE n - 1 + 1
    BY <2>1, FS_Interval
  <2> QED BY <1>2, <2>2
<1>5. \A x, j \in S : j \in before[x] <=> Precedes(j, x)
  BY <1>2
<1>6. \A x \in S : before[x] \subseteq S
  BY <1>2
<1>7. \A x \in S : samples[x].task \in Nat /\ x \in Nat
  BY <1>1, <1>2 DEF Tasked
<1>8. \A x, y \in S : x # y => x \in before[y] \/ y \in before[x]
  BY <1>5, <1>7
<1>9. \A x, y \in S : x \in before[y] => before[x] \subseteq before[y]
  <2>1. \A x, y, z \in S : Precedes(z, x) /\ Precedes(x, y) => Precedes(z, y)
    BY <1>7
  <2> HIDE DEF Precedes
  <2> QED BY <1>5, <1>6, <2>1
<1>10. \A x \in S : before[x] \subseteq S /\ x \notin before[x]
  BY <1>5, <1>6, <1>7
<1>11. /\ IsList(order) /\ Len(order) = n
       /\ \A k \in 1..n : order[k] \in S
       /\ \A x \in S : \E k \in 1..n : order[k] = x
  <2>1. /\ Cardinality(S) \in Nat
        /\ IsList(InOrder(S, before)) /\ Len(InOrder(S, before)) = Cardinality(S)
        /\ \A k \in 1..Cardinality(S) : InOrder(S, before)[k] \in S
        /\ \A x \in S : \E k \in 1..Cardinality(S) : InOrder(S, before)[k] = x
    <3>1. Orders(S, before)
      BY <1>8, <1>9, <1>10 DEF Orders
    <3> QED BY <1>4, <3>1, RankedIs
  <2> QED BY <1>3, <1>4, <2>1
<1>12. DOMAIN order = 1..n
  BY <1>11, ListIs
<1>13. PICK out : out = [k \in 1..n |-> samples[order[k]]]
  OBVIOUS
<1>14. OrderSamples(samples) = out
  BY <1>1, <1>2, <1>3, <1>12, <1>13 DEF OrderSamples
<1>15. IsList(out) /\ Len(out) = n
  <2>1. out = [k \in 1..n |-> out[k]]
    BY <1>13
  <2> QED BY <2>1, ListOf
<1>16. \A k \in 1..n : out[k] = samples[order[k]]
  BY <1>13
<1>17. \A k \in 1..n : \E i \in 1..n : out[k] = samples[i]
  BY <1>2, <1>11, <1>16
<1>18. ASSUME NEW i \in 1..n PROVE \E k \in 1..n : out[k] = samples[i]
  <2>1. PICK k \in 1..n : order[k] = i
    BY <1>2, <1>11
  <2>2. out[k] = samples[order[k]]
    BY <1>16
  <2> QED BY <2>1, <2>2
<1>19. Rearranged(out, samples, n)
  BY <1>15, <1>17, <1>18 DEF Rearranged
<1> QED BY <1>1, <1>14, <1>19

(* So the ordered samples are those of the trajectories too.               *)
LEMMA OrderedIs ==
  ASSUME NEW loaded, Readable(loaded)
  PROVE  SamplesOf(OrderSamples(Dataset(loaded)), loaded)
<1>1. PICK samples, n : samples = Dataset(loaded) /\ n = Len(samples)
  OBVIOUS
<1>2. SamplesOf(samples, loaded)
  BY <1>1, DatasetIs
<1>3. /\ IsList(samples) /\ n = Cardinality(DOMAIN loaded)
      /\ \A k \in 1..n : \E d \in DOMAIN loaded : samples[k] = BuildTrainingSample(loaded[d])
      /\ \A d \in DOMAIN loaded : \E k \in 1..n : samples[k] = BuildTrainingSample(loaded[d])
  BY <1>1, <1>2 DEF SamplesOf
<1>4. \A d \in DOMAIN loaded : BuildTrainingSample(loaded[d]).task = loaded[d].task
  BY SampleIs DEF Readable
<1>5. Tasked(samples)
  BY <1>1, <1>3, <1>4 DEF Readable, Tasked
<1>6. PICK out : out = OrderSamples(samples)
  OBVIOUS
<1>7. /\ IsList(out) /\ Len(out) = n
      /\ \A k \in 1..n : \E i \in 1..n : out[k] = samples[i]
      /\ \A i \in 1..n : \E k \in 1..n : out[k] = samples[i]
  <2>1. Rearranged(out, samples, n)
    BY <1>1, <1>3, <1>5, <1>6, OrderIs
  <2> QED BY <2>1 DEF Rearranged
<1>8. ASSUME NEW k \in 1..n
      PROVE  \E d \in DOMAIN loaded : out[k] = BuildTrainingSample(loaded[d])
  <2>1. PICK i \in 1..n : out[k] = samples[i]
    BY <1>7
  <2> QED BY <1>3, <2>1
<1>9. ASSUME NEW d \in DOMAIN loaded
      PROVE  \E k \in 1..n : out[k] = BuildTrainingSample(loaded[d])
  <2>1. PICK i \in 1..n : samples[i] = BuildTrainingSample(loaded[d])
    BY <1>3
  <2>2. PICK k \in 1..n : out[k] = samples[i]
    BY <1>7
  <2> QED BY <2>1, <2>2
<1> QED BY <1>1, <1>3, <1>6, <1>7, <1>8, <1>9 DEF SamplesOf

-----------------------------------------------------------------------------
(* The tokens of a build.                                                  *)
Encoded(e, t, o) ==
  /\ Lists(e) /\ Labelled(e) /\ Spells(e, t.run, CallCharacters(t), CharsPerToken)
  /\ LengthOf(e) \in Nat /\ LengthOf(e) <= o.max_length
  /\ e.metadata.run = t.run /\ e.metadata.task = t.task

(* The configuration on disk is that of the options.                       *)
LEMMA ConfigIs ==
  ASSUME NEW o \in Options
  PROVE  /\ Config(o).max_length = o.max_length /\ o.max_length \in Nat
         /\ Config(o).chars_per_token = CharsPerToken /\ CharsPerToken \in Nat \ {0}
BY TrainingPrepConstants DEF Options, Config

(* What a build makes of a trajectory with the options.                    *)
LEMMA EncodedIs ==
  ASSUME NEW t, t.messages \in Seq(Message), NEW o \in Options,
         NEW e, e = TensorizeSample(BuildTrainingSample(t), Config(o))
  PROVE  Encoded(e, t, o)
<1>1. PICK tokenizer : tokenizer = Config(o)
  OBVIOUS
<1>2. tokenizer.max_length \in Nat /\ tokenizer.chars_per_token \in Nat \ {0}
  BY <1>1, ConfigIs
<1>3. /\ Lists(e) /\ Labelled(e)
      /\ Spells(e, t.run, CallCharacters(t), tokenizer.chars_per_token)
      /\ LengthOf(e) \in Nat /\ LengthOf(e) <= tokenizer.max_length
      /\ e.metadata.run = t.run /\ e.metadata.task = t.task
  BY <1>1, <1>2, SampleExample
<1> QED BY <1>1, <1>3, ConfigIs DEF Encoded

(* The examples of a build, one for each sample.                           *)
LEMMA TokensAre ==
  ASSUME NEW loaded, Readable(loaded), NEW samples, SamplesOf(samples, loaded),
         NEW o \in Options, NEW tokenized, tokenized = Tensorize(samples, Config(o))
  PROVE  /\ AllLists(tokenized) /\ Len(tokenized) = Len(samples) /\ Fit(tokenized, o.max_length)
         /\ DOMAIN tokenized = DOMAIN samples
         /\ \A k \in 1..Len(samples) :
              \E d \in DOMAIN loaded :
                /\ samples[k] = BuildTrainingSample(loaded[d])
                /\ samples[k].run = d /\ samples[k].task = loaded[d].task
                /\ tokenized[k] = TensorizeSample(BuildTrainingSample(loaded[d]), Config(o))
                /\ Encoded(tokenized[k], loaded[d], o)
<1>1. PICK n \in Nat : n = Len(samples) /\ DOMAIN samples = 1..n
  BY ListIs DEF SamplesOf, IsList
<1>2. /\ tokenized = [k \in 1..n |-> tokenized[k]]
      /\ \A k \in 1..n : tokenized[k] = TensorizeSample(samples[k], Config(o))
  BY <1>1 DEF Tensorize
<1>3. IsList(tokenized) /\ Len(tokenized) = n /\ DOMAIN tokenized = 1..n
  BY <1>2, ListOf
<1>4. ASSUME NEW d \in DOMAIN loaded
      PROVE  Encoded(TensorizeSample(BuildTrainingSample(loaded[d]), Config(o)), loaded[d], o)
  BY EncodedIs DEF Readable
<1>5. ASSUME NEW k \in 1..n
      PROVE  \E d \in DOMAIN loaded :
               /\ samples[k] = BuildTrainingSample(loaded[d])
               /\ samples[k].run = d /\ samples[k].task = loaded[d].task
               /\ tokenized[k] = TensorizeSample(BuildTrainingSample(loaded[d]), Config(o))
               /\ Encoded(tokenized[k], loaded[d], o)
  <2>1. PICK d \in DOMAIN loaded : samples[k] = BuildTrainingSample(loaded[d])
    BY <1>1 DEF SamplesOf
  <2>2. tokenized[k] = TensorizeSample(BuildTrainingSample(loaded[d]), Config(o))
    BY <1>2, <2>1
  <2>3. loaded[d].messages \in Seq(Message) /\ loaded[d].run = d
    BY DEF Readable
  <2>4. samples[k].run = d /\ samples[k].task = loaded[d].task
    BY <2>1, <2>3, SampleIs
  <2> QED BY <1>4, <2>1, <2>2, <2>4
<1>6. \A k \in 1..n : Lists(tokenized[k]) /\ LengthOf(tokenized[k]) \in Nat
                      /\ LengthOf(tokenized[k]) <= o.max_length
  BY <1>5 DEF Encoded
<1>7. AllLists(tokenized)
  BY <1>3, <1>6 DEF AllLists
<1>8. Fit(tokenized, o.max_length)
  BY <1>3, <1>6, ConfigIs DEF Fit, LengthOf
<1> QED BY <1>1, <1>3, <1>5, <1>7, <1>8

(* Admitted trajectories are as their directories hold them.               *)
LEMMA AdmittedIsReadable ==
  ASSUME ShapeFacts, NEW loaded, NEW filter, Admitted(loaded, filter)
  PROVE  Readable(loaded)
<1>1. DOMAIN loaded \subseteq Dirs
  BY DEF Admitted, Discovered
<1>2. IsFiniteSet(Dirs) /\ Dirs \subseteq Nat
  BY TrainingPrepConstants
<1>3. IsFiniteSet(DOMAIN loaded)
  BY <1>1, <1>2, FS_Subset
<1>4. ASSUME NEW d \in DOMAIN loaded
      PROVE  loaded[d].run = d /\ loaded[d].task \in Nat /\ loaded[d].messages \in Seq(Message)
  <2>1. source[d].trajectory.state = "whole" /\ loaded[d] = Loaded(d) /\ d \in Dirs
    BY <1>1 DEF Admitted
  <2>2. source[d].trajectory \notin {Absent, Torn}
    BY <2>1 DEF Absent, Torn
  <2>3. PICK t \in Trajectories : source[d].trajectory = Whole(t)
    BY <2>1, <2>2 DEF ShapeFacts
  <2>4. source[d].trajectory.content = t
    BY <2>3 DEF Whole
  <2>5. t.task \in Nat /\ t.messages \in Seq(Message)
    BY TrainingPrepConstants
  <2>6. Loaded(d).run = d /\ Loaded(d).task = t.task /\ Loaded(d).messages = t.messages
    BY <2>4 DEF Loaded
  <2> QED BY <2>1, <2>5, <2>6
<1> QED BY <1>1, <1>2, <1>3, <1>4 DEF Readable

(* The packs of a build.                                                   *)
LEMMA BuildIs ==
  ASSUME ShapeFacts, NEW o \in Options, NEW loaded, Admitted(loaded, o.filter),
         NEW ordered, ordered = OrderSamples(Dataset(loaded)),
         NEW tokenized, tokenized = Tensorize(ordered, Config(o)),
         NEW packs, packs = PackExamples(tokenized, o.max_length).sequences
  PROVE  /\ Readable(loaded) /\ SamplesOf(ordered, loaded)
         /\ AllLists(tokenized) /\ Len(tokenized) = Len(ordered) /\ Fit(tokenized, o.max_length)
         /\ DOMAIN tokenized = 1..Len(ordered) /\ DOMAIN ordered = 1..Len(ordered)
         /\ \E sizes : Grouped(tokenized, packs, sizes) /\ Total(sizes) = Len(tokenized)
<1>1. Readable(loaded)
  BY AdmittedIsReadable
<1>2. SamplesOf(ordered, loaded)
  BY <1>1, OrderedIs
<1>3. DOMAIN ordered = 1..Len(ordered)
  BY <1>2, ListIs DEF SamplesOf
<1>4. /\ AllLists(tokenized) /\ Len(tokenized) = Len(ordered) /\ Fit(tokenized, o.max_length)
      /\ DOMAIN tokenized = DOMAIN ordered
  BY <1>1, <1>2, TokensAre
<1>5. Len(tokenized) \in Nat
  BY <1>4 DEF AllLists, IsList
<1>6. \E sizes : Grouped(tokenized, packs, sizes) /\ Total(sizes) = Len(tokenized)
  BY <1>4, <1>5, PackedIs
<1> QED BY <1>1, <1>2, <1>3, <1>4, <1>6

(* The packs and the samples are those of a build of these trajectories.   *)
PacksOf(packs, samples, loaded, o) ==
  /\ samples = OrderSamples(Dataset(loaded))
  /\ packs = PackExamples(Tensorize(samples, Config(o)), o.max_length).sequences

(* Token k of span i of a pack.                                            *)
TrainsCall(p, i, k) ==
  LET span == p.source_spans[i]
      run == span.metadata.run
      token == p.input_ids[span.start + k]
  IN  /\ token[1] = run /\ token[2] = (k - 1) * CharsPerToken
      /\ p.labels[span.start + k] =
           IF \E c \in token[2] .. token[3] - 1 : c \in CallCharacters(Loaded(run))
             THEN token ELSE IGNORE_INDEX

(* The packs of a build train on the calls of the runs.                    *)
LEMMA PacksTrainCalls ==
  ASSUME ShapeFacts, NEW o \in Options, NEW loaded, Admitted(loaded, o.filter),
         NEW packs, NEW samples, PacksOf(packs, samples, loaded, o),
         NEW q \in DOMAIN packs, NEW i \in DOMAIN packs[q].source_spans,
         NEW k \in 1..packs[q].source_spans[i].length
  PROVE  TrainsCall(packs[q], i, k)
<1>1. PICK ordered : ordered = OrderSamples(Dataset(loaded))
  OBVIOUS
<1>2. PICK tokenized : tokenized = Tensorize(ordered, Config(o))
  OBVIOUS
<1>3. packs = PackExamples(tokenized, o.max_length).sequences
  BY <1>1, <1>2 DEF PacksOf
<1>4. /\ Readable(loaded) /\ SamplesOf(ordered, loaded)
      /\ AllLists(tokenized) /\ Len(tokenized) = Len(ordered)
      /\ \E sizes : Grouped(tokenized, packs, sizes) /\ Total(sizes) = Len(tokenized)
  BY <1>1, <1>2, <1>3, BuildIs
<1>5. PICK sizes : Grouped(tokenized, packs, sizes) /\ Total(sizes) = Len(tokenized)
  BY <1>4
<1>6. PICK p, span : p = packs[q] /\ span = p.source_spans[i]
  OBVIOUS
<1>7. PICK x \in 1..Len(tokenized) :
        LET e == tokenized[x]
        IN  /\ span.metadata = e.metadata /\ span.length = LengthOf(e)
            /\ \A j \in 1..LengthOf(e) : /\ p.input_ids[span.start + j] = e.input_ids[j]
                                         /\ p.labels[span.start + j] = e.labels[j]
  BY <1>4, <1>5, <1>6, SpanIs
<1>8. PICK e : e = tokenized[x]
  OBVIOUS
<1>9. PICK d \in DOMAIN loaded : Encoded(e, loaded[d], o)
  BY <1>2, <1>4, <1>8, TokensAre
<1>10. loaded[d].run = d /\ loaded[d] = Loaded(d)
  BY <1>4 DEF Readable, Admitted
<1>11. span.metadata = e.metadata /\ k \in 1..LengthOf(e)
       /\ p.input_ids[span.start + k] = e.input_ids[k] /\ p.labels[span.start + k] = e.labels[k]
  BY <1>6, <1>7, <1>8
<1>12. span.metadata.run = d
  BY <1>9, <1>10, <1>11 DEF Encoded
<1>13. PICK token : token = e.input_ids[k]
  OBVIOUS
<1>14. /\ token[1] = d /\ token[2] = (k - 1) * CharsPerToken
       /\ e.token_train_mask[k] = 1
            <=> \E c \in token[2] .. token[3] - 1 : c \in CallCharacters(Loaded(d))
  BY <1>9, <1>10, <1>11, <1>13 DEF Encoded, Spells
<1>15. e.labels[k] = IF e.token_train_mask[k] = 1 THEN token ELSE IGNORE_INDEX
  BY <1>9, <1>11, <1>13 DEF Encoded, Labelled
<1>16. TrainsCall(p, i, k)
  BY <1>6, <1>11, <1>12, <1>13, <1>14, <1>15 DEF TrainsCall
<1> QED BY <1>6, <1>16

(* The packs hold each sample exactly once, and each of them is of a run.  *)
HoldsSamples(packs, samples, loaded) ==
  LET spans == FlattenSeq(SpansOf(packs))
  IN  /\ Len(spans) = Len(samples)
      /\ \A i \in DOMAIN samples :
           /\ samples[i].run \in DOMAIN loaded
           /\ \E j \in DOMAIN spans : spans[j].metadata.run = samples[i].run

(* The packs of a build hold each of its samples exactly once.             *)
LEMMA PacksHoldSamples ==
  ASSUME ShapeFacts, NEW o \in Options, NEW loaded, Admitted(loaded, o.filter),
         NEW packs, NEW ordered, PacksOf(packs, ordered, loaded, o)
  PROVE  HoldsSamples(packs, ordered, loaded)
<1> DEFINE spans == FlattenSeq(SpansOf(packs))
<1>0. /\ ordered = OrderSamples(Dataset(loaded))
      /\ packs = PackExamples(Tensorize(ordered, Config(o)), o.max_length).sequences
  BY DEF PacksOf
<1>1. PICK tokenized : tokenized = Tensorize(ordered, Config(o))
  OBVIOUS
<1>2. packs = PackExamples(tokenized, o.max_length).sequences
  BY <1>0, <1>1
<1>3. /\ Readable(loaded) /\ SamplesOf(ordered, loaded)
      /\ AllLists(tokenized) /\ Len(tokenized) = Len(ordered) /\ DOMAIN ordered = 1..Len(ordered)
      /\ \E sizes : Grouped(tokenized, packs, sizes) /\ Total(sizes) = Len(tokenized)
  BY <1>0, <1>1, <1>2, BuildIs
<1>4. PICK sizes : Grouped(tokenized, packs, sizes) /\ Total(sizes) = Len(tokenized)
  BY <1>3
<1>5. /\ IsList(spans) /\ Len(spans) = Len(tokenized)
      /\ \A j \in 1..Len(tokenized) : spans[j].metadata = tokenized[j].metadata
  <2>1. /\ IsList(FlattenSeq(SpansOf(packs)))
        /\ Len(FlattenSeq(SpansOf(packs))) = Len(tokenized)
        /\ \A j \in 1..Len(tokenized) :
             FlattenSeq(SpansOf(packs))[j].metadata = tokenized[j].metadata
    BY <1>3, <1>4, SpansAre
  <2> QED BY <2>1
<1> HIDE DEF spans
<1>6. DOMAIN spans = 1..Len(ordered)
  BY <1>3, <1>5, ListIs
<1>7. ASSUME NEW i \in DOMAIN ordered
      PROVE  /\ ordered[i].run \in DOMAIN loaded
             /\ \E j \in DOMAIN spans : spans[j].metadata.run = ordered[i].run
  <2>1. i \in 1..Len(ordered)
    BY <1>3
  <2>2. PICK d \in DOMAIN loaded : ordered[i].run = d /\ Encoded(tokenized[i], loaded[d], o)
    BY <1>1, <1>3, <2>1, TokensAre
  <2>3. tokenized[i].metadata.run = d
    BY <1>3, <2>2 DEF Encoded, Readable
  <2>4. spans[i].metadata.run = d
    BY <1>3, <1>5, <2>1, <2>3
  <2> QED BY <1>6, <2>1, <2>2, <2>4
<1> QED BY <1>3, <1>5, <1>7, Zenon DEF HoldsSamples, spans

-----------------------------------------------------------------------------
(* The contract.                                                           *)

(* No issue is found in the tokens of a build but for one: an example may  *)
(* have lost its trainable tokens.                                         *)
LEMMA NoIssue ==
  ASSUME NEW e, Lists(e), Labelled(e), NEW prefix,
         prefix = "packed" \/ (e.metadata.trainable_char_count > 0 => Ones(e.token_train_mask) > 0)
  PROVE  ValidateTokenizedExample(e, prefix) = {}
<1> DEFINE ids == e.input_ids
           marks == e.token_train_mask
           labels == e.labels
           attention == e.attention_mask
<1>2. PICK n \in Nat : n = Len(ids)
  BY DEF Lists, IsList
<1>3. DOMAIN ids = 1..n /\ DOMAIN marks = 1..n /\ DOMAIN labels = 1..n
      /\ Len(marks) = n /\ Len(labels) = n /\ Len(attention) = n
  BY <1>2, ListIs DEF Lists, LengthOf
<1>4. \A k \in 1..n : /\ marks[k] \in {0, 1}
                      /\ labels[k] = IF marks[k] = 1 THEN ids[k] ELSE IGNORE_INDEX
  BY <1>2 DEF Labelled, LengthOf
<1>5. \A k \in DOMAIN ids \cap DOMAIN labels \cap DOMAIN marks :
        /\ marks[k] \in {0, 1} /\ (marks[k] = 0 => labels[k] = IGNORE_INDEX)
        /\ (marks[k] = 1 => labels[k] = ids[k])
  BY <1>3, <1>4
<1>6. UNION {Issue(marks[k] \in {0, 1}, "train_mask_value_error")
               \cup Issue(marks[k] = 0 => labels[k] = IGNORE_INDEX, "label_mask_mismatch")
               \cup Issue(marks[k] = 1 => labels[k] = ids[k], "label_token_mismatch")
             : k \in DOMAIN ids \cap DOMAIN labels \cap DOMAIN marks} = {}
  BY <1>5 DEF Issue
<1>7. Issue(/\ Len(attention) = Len(ids) /\ Len(labels) = Len(ids)
            /\ Len(marks) = Len(ids), "length_mismatch") = {}
  BY <1>2, <1>3 DEF Issue
<1>8. LabelIssues(e) = {}
  <2>1. LabelIssues(e) =
         Issue(/\ Len(attention) = Len(ids) /\ Len(labels) = Len(ids)
               /\ Len(marks) = Len(ids), "length_mismatch")
           \cup UNION {Issue(marks[k] \in {0, 1}, "train_mask_value_error")
                         \cup Issue(marks[k] = 0 => labels[k] = IGNORE_INDEX, "label_mask_mismatch")
                         \cup Issue(marks[k] = 1 => labels[k] = ids[k], "label_token_mismatch")
                       : k \in DOMAIN ids \cap DOMAIN labels \cap DOMAIN marks}
    BY Zenon DEF LabelIssues
  <2> QED BY <1>6, <1>7, <2>1
<1>9. Issue(prefix = "tokenized" /\ e.metadata.trainable_char_count > 0
              => Ones(e.token_train_mask) > 0,
            "tokenized_no_trainable_tokens") = {}
  BY DEF Issue
<1> QED BY <1>8, <1>9 DEF ValidateTokenizedExample

(* The same of the examples taken out of the packs.                        *)
LEMMA PackedNoIssue ==
  ASSUME NEW tokenized, AllLists(tokenized), \A k \in 1..Len(tokenized) : Labelled(tokenized[k]),
         NEW L, Fit(tokenized, L)
  PROVE  ValidatePacked(PackExamples(tokenized, L)) = {}
<1>1. PICK packs : packs = PackExamples(tokenized, L).sequences
  OBVIOUS
<1>2. Len(tokenized) \in Nat
  BY DEF AllLists, IsList
<1>3. PICK sizes : Grouped(tokenized, packs, sizes) /\ Total(sizes) = Len(tokenized)
  BY <1>1, <1>2, PackedIs
<1>4. ASSUME NEW q \in DOMAIN packs
      PROVE  ValidateExamples(UnpackSequence(packs[q]), "packed") = {}
  <2>1. PICK p, unpacked : p = packs[q] /\ unpacked = UnpackSequence(p)
    OBVIOUS
  <2>2. DOMAIN unpacked = DOMAIN p.source_spans
    BY <2>1 DEF UnpackSequence
  <2>3. ASSUME NEW i \in DOMAIN unpacked
        PROVE  ValidateTokenizedExample(unpacked[i], "packed") = {}
    <3>1. PICK out : out = unpacked[i]
      OBVIOUS
    <3>2. i \in DOMAIN packs[q].source_spans
      BY <2>1, <2>2
    <3>3. PICK x \in 1..Len(tokenized) :
            LET e == tokenized[x]
            IN  /\ out.input_ids = e.input_ids /\ out.attention_mask = e.attention_mask
                /\ out.labels = e.labels /\ out.token_train_mask = e.token_train_mask
      BY <1>3, <2>1, <3>1, <3>2, SpanIs
    <3>4. Lists(tokenized[x]) /\ Labelled(tokenized[x])
      BY DEF AllLists
    <3>5. Lists(out) /\ Labelled(out)
      BY <3>3, <3>4 DEF Lists, Labelled, LengthOf
    <3> QED BY <3>1, <3>5, NoIssue
  <2> QED BY <2>1, <2>3 DEF ValidateExamples
<1> QED BY <1>1, <1>4 DEF ValidatePacked

(* The spans of a sample lie in its text, one after the other.             *)
LEMMA SpansNoIssue ==
  ASSUME NEW segs \in Seq(SegmentSet)
  PROVE  ValidateSpans(LossSpans(segs), Joined(segs)) = {}
<1>1. PICK l, ends, text : l = Lengths(segs) /\ ends = Ends(l) /\ text = Joined(segs)
  OBVIOUS
<1>2. l \in Seq(Nat) /\ Len(l) = Len(segs) /\ text = Total(l)
  BY <1>1, LengthsAre DEF Joined
<1>3. PICK n \in Nat : n = Len(segs) /\ DOMAIN segs = 1..n
  OBVIOUS
<1>4. PICK spans : spans = LossSpans(segs)
  OBVIOUS
<1>5. spans = [i \in 1..n |-> [start |-> ends[i - 1], end |-> ends[i],
                               trainable |-> segs[i].trainable]]
  BY <1>1, <1>3, <1>4 DEF LossSpans
<1>6. DOMAIN spans = 1..n /\ \A i \in 1..n : spans[i].start = ends[i - 1] /\ spans[i].end = ends[i]
  BY <1>5
<1>7. \A i \in 0..n : \A j \in i..n :
        ends[i] <= ends[j] /\ ends[j] <= text /\ ends[i] \in Nat /\ ends[j] \in Nat /\ text \in Nat
  <2>1. ASSUME NEW i \in 0..Len(l), NEW j \in i..Len(l)
        PROVE  Ends(l)[i] <= Ends(l)[j] /\ Ends(l)[j] <= Total(l) /\ Total(l) \in Nat
               /\ Ends(l)[i] \in Nat /\ Ends(l)[j] \in Nat
    BY <1>2, EndsGrow
  <2> QED BY <1>1, <1>2, <1>3, <2>1
<1>8. ASSUME NEW i \in DOMAIN spans
      PROVE  /\ spans[i].start >= 0 /\ spans[i].end >= spans[i].start /\ spans[i].end <= text
             /\ \A j \in 1 .. i - 1 : spans[i].start >= spans[j].end
  <2>1. i \in 1..n /\ i - 1 \in 0..n /\ i \in i - 1 .. n
    BY <1>6
  <2>2. spans[i].start >= 0 /\ spans[i].end >= spans[i].start /\ spans[i].end <= text
    BY SMTT(30), <1>6, <1>7, <2>1
  <2>3. ASSUME NEW j \in 1 .. i - 1 PROVE spans[i].start >= spans[j].end
    <3>1. j \in 1..n /\ j \in 0..n /\ i - 1 \in j..n
      BY <2>1
    <3>2. spans[j].end = ends[j] /\ spans[i].start = ends[i - 1]
      BY <1>6, <2>1, <3>1
    <3> QED BY <1>7, <3>1, <3>2
  <2> QED BY <2>2, <2>3
<1>9. \A i \in DOMAIN spans :
        Issue(spans[i].start >= 0 /\ spans[i].end >= spans[i].start /\ spans[i].end <= text,
               "span_bounds_error")
         \cup Issue(\A j \in 1 .. i - 1 : spans[i].start >= spans[j].end, "span_order_error") = {}
  BY <1>8 DEF Issue
<1>10. ValidateSpans(spans, text) = {}
  BY <1>9 DEF ValidateSpans
<1> QED BY <1>1, <1>4, <1>10

(* The contract finds no issue in the sample and the rollout of a          *)
(* trajectory.                                                             *)
LEMMA SampleNoIssue ==
  ASSUME NEW t, t.messages \in Seq(Message), NEW s, s = BuildTrainingSample(t),
         NEW r, r = BuildSlimeRollout(s)
  PROVE  ValidateSample(s) = {} /\ ValidateRollout(r) = {} /\ ValidatePair(s, r) = {}
<1>1. /\ s.segments \in Seq(SegmentSet)
      /\ s.text = Joined(s.segments) /\ s.text \in Nat /\ s.spans = LossSpans(s.segments)
      /\ Len(s.character_mask) = s.text /\ s.trainable_char_count = Ones(s.character_mask)
  BY SampleIs
<1>2. ValidateSpans(s.spans, s.text) = {}
  BY <1>1, SpansNoIssue
<1>3. ValidateSample(s) = {}
  BY <1>1, <1>2 DEF ValidateSample, Issue
<1>4. /\ r.run = s.run /\ r.task = s.task /\ r.status = s.status /\ r.passed = s.passed
      /\ r.text = s.text /\ r.segments = s.segments /\ r.character_mask = s.character_mask
      /\ r.spans = s.spans /\ r.trainable_char_count = s.trainable_char_count
      /\ r.total_char_count = s.text
  BY DEF BuildSlimeRollout
<1>5. ValidateSample(r) = {}
  BY <1>1, <1>2, <1>4 DEF ValidateSample, Issue
<1>6. ValidateRollout(r) = {}
  BY <1>4, <1>5 DEF ValidateRollout, Issue
<1>7. ValidatePair(s, r) = {}
  BY <1>4 DEF ValidatePair, Issue
<1> QED BY <1>3, <1>6, <1>7

(* No issue is found in what a prep writes of the dataset.                 *)
LEMMA SourceNoIssue ==
  ASSUME NEW loaded, Readable(loaded), NEW samples, SamplesOf(samples, loaded)
  PROVE  ValidateRolloutDatasetSource(DatasetManifest(samples), Rollouts(samples), samples) = {}
<1>1. PICK n \in Nat : n = Len(samples) /\ DOMAIN samples = 1..n
  BY ListIs DEF SamplesOf, IsList
<1>2. PICK rollouts, dataset : rollouts = Rollouts(samples) /\ dataset = DatasetManifest(samples)
  OBVIOUS
<1>3. rollouts = [i \in 1..n |-> rollouts[i]] /\ \A i \in 1..n : rollouts[i] = BuildSlimeRollout(samples[i])
  BY <1>1, <1>2 DEF Rollouts
<1>4. Len(rollouts) = n /\ DOMAIN rollouts = 1..n
  BY <1>3, ListOf
<1>5. dataset.rollout_count = n /\ dataset.sample_count = n
  BY <1>1, <1>2 DEF DatasetManifest
<1>6. ASSUME NEW i \in DOMAIN rollouts \cap DOMAIN samples
      PROVE  ValidateSample(samples[i]) \cup ValidateRollout(rollouts[i])
               \cup ValidatePair(samples[i], rollouts[i]) = {}
  <2>1. i \in 1..n
    BY <1>1
  <2>2. PICK d \in DOMAIN loaded : samples[i] = BuildTrainingSample(loaded[d])
    BY <1>1, <2>1 DEF SamplesOf
  <2>3. loaded[d].messages \in Seq(Message)
    BY DEF Readable
  <2>4. PICK t : t = loaded[d]
    OBVIOUS
  <2>5. PICK s, r : s = samples[i] /\ r = rollouts[i]
    OBVIOUS
  <2>6. s = BuildTrainingSample(t) /\ r = BuildSlimeRollout(s) /\ t.messages \in Seq(Message)
    BY <1>3, <2>1, <2>2, <2>3, <2>4, <2>5
  <2>7. ValidateSample(s) = {} /\ ValidateRollout(r) = {} /\ ValidatePair(s, r) = {}
    BY <2>6, SampleNoIssue
  <2> QED BY <2>5, <2>7
<1>7. UNION {ValidateSample(samples[i]) \cup ValidateRollout(rollouts[i])
               \cup ValidatePair(samples[i], rollouts[i])
             : i \in DOMAIN rollouts \cap DOMAIN samples} = {}
  BY <1>6
<1>8. /\ Issue(dataset.rollout_count = Len(rollouts), "manifest_rollout_count_mismatch") = {}
      /\ Issue(dataset.sample_count = Len(samples), "manifest_sample_count_mismatch") = {}
      /\ Issue(Len(rollouts) = Len(samples), "sample_rollout_count_mismatch") = {}
  BY <1>1, <1>4, <1>5 DEF Issue
<1>9. ValidateRolloutDatasetSource(dataset, rollouts, samples) = {}
  BY <1>7, <1>8 DEF ValidateRolloutDatasetSource
<1> QED BY <1>2, <1>9

(* A rollout is tokenized like its sample.                                 *)
LEMMA RolloutTokens ==
  ASSUME NEW samples, IsList(samples), NEW tokenizer
  PROVE  /\ Tensorize(Rollouts(samples), tokenizer) = Tensorize(samples, tokenizer)
         /\ DOMAIN Rollouts(samples) = DOMAIN samples
         /\ \A i \in DOMAIN samples :
              /\ Rollouts(samples)[i].run = samples[i].run
              /\ TensorizeSample(Rollouts(samples)[i], tokenizer) = TensorizeSample(samples[i], tokenizer)
<1>1. PICK rollouts : rollouts = Rollouts(samples)
  OBVIOUS
<1>2. DOMAIN rollouts = DOMAIN samples
      /\ \A i \in DOMAIN samples : rollouts[i] = BuildSlimeRollout(samples[i])
  BY <1>1 DEF Rollouts
<1>3. ASSUME NEW i \in DOMAIN samples
      PROVE  /\ rollouts[i].run = samples[i].run
             /\ TensorizeSample(rollouts[i], tokenizer) = TensorizeSample(samples[i], tokenizer)
  <2>1. PICK r, s : r = rollouts[i] /\ s = samples[i]
    OBVIOUS
  <2>2. /\ r.run = s.run /\ r.task = s.task /\ r.text = s.text
        /\ r.character_mask = s.character_mask /\ r.trainable_char_count = s.trainable_char_count
    BY <1>2, <2>1 DEF BuildSlimeRollout
  <2>3. TensorizeSample(r, tokenizer) = TensorizeSample(s, tokenizer)
    BY <2>2 DEF TensorizeSample
  <2> QED BY <2>1, <2>2, <2>3
<1>4. Tensorize(rollouts, tokenizer) = Tensorize(samples, tokenizer)
  BY <1>2, <1>3 DEF Tensorize
<1> QED BY <1>1, <1>2, <1>3, <1>4

(* What the contract accepted of the bundle the verify command accepts.    *)
LEMMA VerifyNoIssue ==
  ASSUME NEW loaded, Readable(loaded), NEW o \in Options,
         NEW samples, samples = Dataset(loaded),
         ValidateExamples(Tensorize(OrderSamples(samples), Config(o)), "tokenized") = {}
  PROVE  VerifyDatasetDir(DatasetManifest(samples), Rollouts(samples), samples, Config(o),
                          o.max_length) = {}
<1>1. SamplesOf(samples, loaded)
  BY DatasetIs
<1>2. PICK n \in Nat : n = Len(samples) /\ DOMAIN samples = 1..n /\ IsList(samples)
  BY <1>1, ListIs DEF SamplesOf, IsList
<1>3. PICK tokenized, ordered, accepted :
        /\ tokenized = Tensorize(samples, Config(o)) /\ ordered = OrderSamples(samples)
        /\ accepted = Tensorize(ordered, Config(o))
  OBVIOUS
<1>4. /\ AllLists(tokenized) /\ Len(tokenized) = n /\ Fit(tokenized, o.max_length)
      /\ DOMAIN tokenized = 1..n
      /\ \A k \in 1..n : \E d \in DOMAIN loaded :
           samples[k].task = loaded[d].task /\ Encoded(tokenized[k], loaded[d], o)
  BY <1>1, <1>2, <1>3, TokensAre
<1>5. \A k \in 1..n : Labelled(tokenized[k])
  BY <1>4 DEF Encoded
<1>6. Tasked(samples)
  BY <1>2, <1>4 DEF Tasked, Readable
<1>7. Rearranged(ordered, samples, n)
  BY <1>2, <1>3, <1>6, OrderIs
<1>8. DOMAIN ordered = 1..n
  BY <1>7, ListIs DEF Rearranged
<1>9. ASSUME NEW k \in DOMAIN tokenized
      PROVE  ValidateTokenizedExample(tokenized[k], "tokenized") = {}
  <2>1. PICK j \in 1..n : ordered[j] = samples[k]
    BY <1>4, <1>7 DEF Rearranged
  <2>2. tokenized[k] = TensorizeSample(samples[k], Config(o))
    BY <1>2, <1>3, <1>4 DEF Tensorize
  <2>3. j \in DOMAIN accepted /\ accepted[j] = TensorizeSample(ordered[j], Config(o))
    BY <1>3, <1>8 DEF Tensorize
  <2>4. accepted[j] = tokenized[k]
    BY <2>1, <2>2, <2>3
  <2>5. ValidateTokenizedExample(accepted[j], "tokenized") = {}
    BY <1>3, <2>3 DEF ValidateExamples
  <2> QED BY <2>4, <2>5
<1>10. ValidateExamples(tokenized, "tokenized") = {}
  BY <1>9 DEF ValidateExamples
<1>11. PICK L : L = o.max_length
  OBVIOUS
<1>12. ValidatePacked(PackExamples(tokenized, L)) = {}
  BY <1>4, <1>5, <1>11, PackedNoIssue
<1>13. ValidateRolloutDatasetSource(DatasetManifest(samples), Rollouts(samples), samples) = {}
  BY <1>1, SourceNoIssue
<1>14. Tensorize(Rollouts(samples), Config(o)) = tokenized
  BY <1>2, <1>3, RolloutTokens
<1> QED BY <1>10, <1>11, <1>12, <1>13, <1>14 DEF VerifyDatasetDir

-----------------------------------------------------------------------------
(* The trainer's side.                                                     *)

(* What the part holds.                                                    *)
LEMMA CutIs ==
  ASSUME NEW S, NEW f \in Seq(S), NEW start \in Nat, NEW m \in Nat, start + m <= Len(f)
  PROVE  /\ Cut(f, start, m) \in Seq(S) /\ Len(Cut(f, start, m)) = m
         /\ \A k \in 1..m : Cut(f, start, m)[k] = f[start + k]
BY DEF Cut

(* The first of some positions.                                            *)
FirstOf(S) == CHOOSE k \in S : \A j \in S : k <= j

(* The response window holds every trained token.                          *)
LEMMA WindowIs ==
  ASSUME NEW marks, IsList(marks), NEW trained, trained = {k \in DOMAIN marks : marks[k] = 1},
         trained # {}, NEW first, first = FirstOf(trained)
  PROVE  Ones(SubSeq(marks, first, Len(marks))) = Ones(marks)
<1>1. PICK n \in Nat : n = Len(marks) /\ DOMAIN marks = 1..n
  BY ListIs DEF IsList
<1>2. trained \subseteq 1..n /\ trained \subseteq Nat
  BY <1>1
<1>3. first \in trained /\ \A j \in trained : first <= j
  BY <1>2, Least DEF FirstOf
<1>4. first \in 1..n
  BY <1>2, <1>3
<1>5. PICK S : marks \in Seq(S)
  BY ListIs
<1>6. PICK window : window = SubSeq(marks, first, n)
  OBVIOUS
<1>0. PICK m : m = n - first + 1
  OBVIOUS
<1>7. m \in Nat /\ first \in Nat /\ n \in Nat /\ first <= n /\ m = n - first + 1
  BY <1>0, <1>1, <1>4
<1>8. /\ Len(window) = m /\ DOMAIN window = 1..m
      /\ \A k \in 1..m : window[k] = marks[first + k - 1]
  <2>1. PICK start : start = first - 1
    OBVIOUS
  <2>2. start \in Nat /\ start + 1 = first /\ start + m = n /\ start + m <= Len(marks)
    <3>1. start \in Nat
      BY <1>4, <1>7, <2>1
    <3>2. start + 1 = first
      BY <1>7, <2>1
    <3>3. start + m = n
      BY <1>7, <2>1
    <3>4. n <= Len(marks)
      BY <1>1, <1>7
    <3> QED BY <3>1, <3>2, <3>3, <3>4
  <2>3. PICK u : u = Cut(marks, start, m)
    OBVIOUS
  <2>4. u \in Seq(S) /\ Len(u) = m /\ \A k \in 1..m : u[k] = marks[start + k]
    <3>1. marks \in Seq(S) /\ start \in Nat /\ m \in Nat /\ start + m <= Len(marks)
      BY <1>5, <1>7, <2>2
    <3>2. /\ Cut(marks, start, m) \in Seq(S) /\ Len(Cut(marks, start, m)) = m
          /\ \A k \in 1..m : Cut(marks, start, m)[k] = marks[start + k]
      BY <3>1, CutIs
    <3> QED BY <2>3, <3>2
  <2>5. u = window
    BY <1>6, <2>2, <2>3 DEF Cut
  <2>6. \A k \in 1..m : start + k = first + k - 1
    BY <1>7, <2>1
  <2> QED BY <2>4, <2>5, <2>6
<1>9. PICK ones : ones = {k \in 1..m : window[k] = 1}
  OBVIOUS
<1>10. IsFiniteSet(trained) /\ IsFiniteSet(ones)
  <2>1. IsFiniteSet(1..n) /\ IsFiniteSet(1..m)
    BY <1>7, FS_Interval
  <2> QED BY <1>2, <1>9, <2>1, FS_Subset
<1>11. PICK f : f = [k \in ones |-> first + k - 1]
  OBVIOUS
<1>12. \A k \in ones : k \in 1..m /\ f[k] = first + k - 1 /\ window[k] = 1
  BY <1>9, <1>11
<1>13. ASSUME NEW k \in ones PROVE f[k] \in trained
  <2>1. first + k - 1 \in 1..n
    BY <1>4, <1>7, <1>12
  <2>2. marks[first + k - 1] = 1
    BY <1>8, <1>12
  <2> QED BY <1>1, <1>12, <2>1, <2>2
<1>14. ASSUME NEW k \in ones, NEW j \in ones, f[k] = f[j] PROVE k = j
  <2>1. k \in Int /\ j \in Int /\ first + k - 1 = first + j - 1
    BY <1>7, <1>12, <1>14
  <2> QED BY <1>7, <2>1
<1>15. ASSUME NEW x \in trained PROVE \E k \in ones : f[k] = x
  <2>1. x \in 1..n /\ marks[x] = 1 /\ first <= x
    BY <1>1, <1>3
  <2>2. PICK k : k = x - first + 1
    OBVIOUS
  <2>3. k \in 1..m /\ first + k - 1 = x
    BY <1>4, <1>7, <2>1, <2>2
  <2>4. k \in ones
    BY <1>8, <1>9, <2>1, <2>3
  <2> QED BY <1>12, <2>3, <2>4
<1>16. f \in Bijection(ones, trained)
  BY <1>11, <1>13, <1>14, <1>15 DEF Bijection, Injection, Surjection, IsInjective
<1>17. Cardinality(ones) = Cardinality(trained)
  BY <1>10, <1>16, FS_Bijection DEF ExistsBijection
<1>18. Ones(window) = Cardinality(ones) /\ Ones(marks) = Cardinality(trained)
  BY <1>8, <1>9 DEF Ones
<1> QED BY <1>1, <1>6, <1>17, <1>18

(* An example without an issue kept its trainable tokens.                  *)
LEMMA NotCut ==
  ASSUME NEW e, NEW prefix, prefix = "tokenized", ValidateTokenizedExample(e, prefix) = {},
         e.metadata.trainable_char_count > 0
  PROVE  Ones(e.token_train_mask) > 0
<1>1. PICK none : none = Issue(prefix = "tokenized" /\ e.metadata.trainable_char_count > 0
                                 => Ones(e.token_train_mask) > 0,
                               "tokenized_no_trainable_tokens")
  OBVIOUS
<1>2. none = {}
  BY <1>1 DEF ValidateTokenizedExample
<1> QED BY <1>1, <1>2 DEF Issue

(* The bridge raises for no run but those without a call: the contract     *)
(* found trainable tokens wherever there are trainable characters.         *)
LEMMA BridgeIs ==
  ASSUME NEW t, t.messages \in Seq(Message), NEW o \in Options,
         NEW e, e = TensorizeSample(BuildTrainingSample(t), Config(o)),
         Encoded(e, t, o), ValidateTokenizedExample(e, "tokenized") = {},
         NEW r, TensorizeSample(r, Config(o)) = e,
         NEW sample, sample = RolloutToSlimeTrainSample(r, Config(o))
  PROVE  /\ sample = Raises <=> CallCharacters(t) = {}
         /\ Ones(sample.loss_mask) = Ones(e.token_train_mask)
<1>0. PICK prefix : prefix = "tokenized" /\ ValidateTokenizedExample(e, prefix) = {}
  OBVIOUS
<1>1. PICK marks : marks = e.token_train_mask
  OBVIOUS
<1>2. PICK n \in Nat : n = LengthOf(e) /\ DOMAIN marks = 1..n /\ Len(marks) = n /\ IsList(marks)
  BY <1>1, ListIs DEF Encoded, Lists
<1>3. PICK trained, first : /\ trained = {k \in DOMAIN marks : marks[k] = 1}
                            /\ first = FirstOf(trained)
  OBVIOUS
<1>4. sample = IF trained = {}
                 THEN Raises
                 ELSE [tokens |-> e.input_ids,
                       response_length |-> Len(e.input_ids) - first + 1,
                       loss_mask |-> SubSeq(marks, first, Len(marks))]
  BY <1>1, <1>3 DEF RolloutToSlimeTrainSample, FirstOf
<1>5. CASE trained = {}
  <2>1. Ones(marks) = 0
    BY <1>3, <1>5, FS_EmptySet DEF Ones
  <2>2. sample = Raises
    BY <1>4, <1>5
  <2>3. Raises.loss_mask = <<>> /\ Ones(<<>>) = 0
    BY FS_EmptySet DEF Raises, Ones
  <2>4. ~(e.metadata.trainable_char_count > 0)
    BY <1>0, <1>1, <2>1, NotCut
  <2>5. CallCharacters(t) = {}
    <3>1. PICK s, mask : s = BuildTrainingSample(t) /\ mask = s.character_mask
      OBVIOUS
    <3>2. /\ s.text \in Nat /\ IsList(mask) /\ Len(mask) = s.text
          /\ s.trainable_char_count = Ones(mask)
          /\ CallCharacters(t) \subseteq 0..s.text - 1
          /\ \A c \in 0..s.text - 1 : mask[c + 1] = 1 <=> c \in CallCharacters(t)
      BY <3>1, SampleIs
    <3>3. e.metadata.trainable_char_count = Ones(mask)
      BY <3>1, <3>2 DEF TensorizeSample, TensorizeText
    <3>4. PICK ones : ones = {k \in DOMAIN mask : mask[k] = 1}
      OBVIOUS
    <3>5. DOMAIN mask = 1..s.text
      BY <3>2, ListIs
    <3>6. IsFiniteSet(ones) /\ Cardinality(ones) \in Nat /\ Ones(mask) = Cardinality(ones)
      <4>1. IsFiniteSet(1..s.text)
        BY <3>2, FS_Interval
      <4>2. IsFiniteSet(ones)
        BY <3>4, <3>5, <4>1, FS_Subset
      <4> QED BY <3>4, <4>2, FS_CardinalityType DEF Ones
    <3>7. ones = {}
      BY <2>4, <3>3, <3>6, FS_EmptySet
    <3>8. ASSUME NEW c \in CallCharacters(t) PROVE FALSE
      <4>1. c \in 0..s.text - 1 /\ mask[c + 1] = 1
        BY <3>2
      <4>2. c + 1 \in 1..s.text
        BY <3>2, <4>1
      <4> QED BY <3>4, <3>5, <3>7, <4>1, <4>2
    <3> QED BY <3>8
  <2> QED BY <1>1, <2>1, <2>2, <2>3, <2>5
<1>6. CASE trained # {}
  <2>1. PICK k \in 1..n : marks[k] = 1
    BY <1>2, <1>3, <1>6
  <2>2. CallCharacters(t) # {}
    BY <1>1, <1>2, <2>1 DEF Encoded, Spells
  <2>3. sample.tokens = e.input_ids /\ sample.loss_mask = SubSeq(marks, first, Len(marks))
    <3>1. sample = [tokens |-> e.input_ids,
                    response_length |-> Len(e.input_ids) - first + 1,
                    loss_mask |-> SubSeq(marks, first, Len(marks))]
      BY <1>4, <1>6
    <3>2. PICK length, mask : /\ length = Len(e.input_ids) - first + 1
                              /\ mask = SubSeq(marks, first, Len(marks))
      OBVIOUS
    <3>3. sample = [tokens |-> e.input_ids, response_length |-> length, loss_mask |-> mask]
      BY <3>1, <3>2
    <3>4. sample.tokens = e.input_ids /\ sample.loss_mask = mask
      BY <3>3
    <3> QED BY <3>2, <3>4
  <2>4. e.input_ids # <<>>
    BY <1>2, <2>1 DEF LengthOf
  <2>5. sample # Raises
    BY <2>3, <2>4 DEF Raises
  <2>6. Ones(SubSeq(marks, first, Len(marks))) = Ones(marks)
    BY <1>2, <1>3, <1>6, WindowIs
  <2> QED BY <1>1, <2>2, <2>3, <2>5, <2>6
<1> QED BY <1>5, <1>6

-----------------------------------------------------------------------------
(* The steps of a prep.                                                    *)

USE DEF None, Running

(* The order of the steps.                                                 *)
LEMMA StepOrder ==
  /\ AfterStep("rollouts") = "dataset_samples" /\ AfterStep("dataset_samples") = "dataset"
  /\ AfterStep("dataset") = "validate" /\ AfterStep("validate") = "unlink"
  /\ AfterStep("unlink") = "samples" /\ AfterStep("samples") = "tokenized"
  /\ AfterStep("tokenized") = "packed" /\ AfterStep("packed") = "tokenizer_config"
  /\ AfterStep("tokenizer_config") = "train_config" /\ AfterStep("train_config") = "report"
  /\ AfterStep("report") = "manifest" /\ AfterStep("manifest") = "prep"
<1>1. Len(Step) = 13 /\ DOMAIN Step = 1 .. 13
  BY DEF Step
<1>2. /\ Step[1] = "rollouts" /\ Step[2] = "dataset_samples" /\ Step[3] = "dataset"
      /\ Step[4] = "validate" /\ Step[5] = "unlink" /\ Step[6] = "samples"
      /\ Step[7] = "tokenized" /\ Step[8] = "packed" /\ Step[9] = "tokenizer_config"
      /\ Step[10] = "train_config" /\ Step[11] = "report" /\ Step[12] = "manifest"
      /\ Step[13] = "prep"
  BY DEF Step
<1>3. ASSUME NEW n \in 1 .. 12
      PROVE  AfterStep(Step[n]) = Step[n + 1]
  <2>1. \A i \in 1 .. 13 : Step[i] = Step[n] <=> i = n
    BY <1>2
  <2>2. (CHOOSE i \in DOMAIN Step : Step[i] = Step[n]) = n
    BY <1>1, <2>1
  <2>3. n # Len(Step)
    BY <1>1
  <2> QED
    BY <2>2, <2>3, Zenon DEF AfterStep
<1>4. /\ AfterStep(Step[1]) = Step[1 + 1] /\ AfterStep(Step[2]) = Step[2 + 1]
      /\ AfterStep(Step[3]) = Step[3 + 1] /\ AfterStep(Step[4]) = Step[4 + 1]
      /\ AfterStep(Step[5]) = Step[5 + 1] /\ AfterStep(Step[6]) = Step[6 + 1]
      /\ AfterStep(Step[7]) = Step[7 + 1] /\ AfterStep(Step[8]) = Step[8 + 1]
      /\ AfterStep(Step[9]) = Step[9 + 1] /\ AfterStep(Step[10]) = Step[10 + 1]
      /\ AfterStep(Step[11]) = Step[11 + 1] /\ AfterStep(Step[12]) = Step[12 + 1]
  BY <1>3
<1> QED
  BY <1>2, <1>4

(* While the source stays, what is discovered, loaded and admitted stays.  *)
LEMMA SourceStays ==
  ASSUME UNCHANGED <<layout, source>>
  PROVE  /\ Discovered' = Discovered /\ Unloadable' = Unloadable
         /\ \A d : Loaded(d)' = Loaded(d)
         /\ \A filter : CollectDatasetRecords(filter)' = CollectDatasetRecords(filter)
         /\ \A loaded, filter : Admitted(loaded, filter)' = Admitted(loaded, filter)
         /\ \A artifacts : BuiltOnce(artifacts)' = BuiltOnce(artifacts)
<1>1. Discovered' = Discovered /\ \A d : Loaded(d)' = Loaded(d)
  BY DEF Discovered, Loaded
<1>2. Unloadable' = Unloadable
  BY <1>1 DEF Unloadable
<1>3. \A filter : CollectDatasetRecords(filter)' = CollectDatasetRecords(filter)
  BY <1>1 DEF CollectDatasetRecords
<1>4. \A loaded, filter : Admitted(loaded, filter)' = Admitted(loaded, filter)
  BY <1>1 DEF Admitted
<1>5. \A artifacts : BuiltOnce(artifacts)' = BuiltOnce(artifacts)
  BY <1>4 DEF BuiltOnce
<1> QED
  BY <1>1, <1>2, <1>3, <1>4, <1>5

(* A prep starts.                                                          *)
LEMMA StartPrepKeeps ==
  ASSUME PrepInvariant, StartPrep
  PROVE  PrepInvariant'
<1>1. UNCHANGED <<layout, source, files>> /\ job = Idle
  BY DEF StartPrep
<1>2. ShapeFacts' /\ ManifestFacts'
  BY <1>1, SourceStays DEF PrepInvariant, ShapeFacts, ManifestFacts
<1>3. outcome' \notin {"ok", "rejected"}
  BY DEF StartPrep, Finish
<1>4. CASE job' = Idle
  BY <1>2, <1>3, <1>4 DEF PrepInvariant, JobFacts, ProgressFacts, OutcomeMatchesManifest, Idle,
     AcceptedFacts, Reading, Building, StepOfPrep, After
<1>5. CASE job' # Idle
  <2>1. PICK o \in Options :
          /\ ~Unloadable
          /\ job' = [step |-> "rollouts", options |-> o,
                     samples |-> CollectDatasetRecords(o.filter), issues |-> {}]
    BY <1>5 DEF StartPrep, Finish
  <2>2. /\ job'.step = "rollouts" /\ job'.options = o
        /\ job'.samples = CollectDatasetRecords(o.filter)
        /\ DOMAIN job' = {"step", "options", "samples", "issues"}
    BY <2>1
  <2>3. JobFacts'
    BY <1>1, <1>3, <2>1, <2>2, SourceStays DEF JobFacts, StepOfPrep
  <2>4. ProgressFacts'
    BY <2>2 DEF ProgressFacts, Reading, Building, StepOfPrep, After
  <2> QED
    BY <1>2, <1>3, <2>3, <2>4 DEF PrepInvariant, OutcomeMatchesManifest, AcceptedFacts
<1> QED
  BY <1>4, <1>5

(* The command ends without success or rejection: what is on disk need not *)
(* be known.                                                               *)
LEMMA EndKeeps ==
  ASSUME PrepInvariant, UNCHANGED <<layout, source>>, job' = Idle,
         outcome' \notin {"ok", "rejected"}, DOMAIN files' = File,
         files'["manifest"] = files["manifest"] \/ files'["manifest"].state # "whole"
  PROVE  PrepInvariant'
<1>1. ManifestFacts'
  BY SourceStays DEF PrepInvariant, ManifestFacts
<1>2. ShapeFacts' /\ JobFacts'
  BY DEF PrepInvariant, ShapeFacts, JobFacts
<1>3. ProgressFacts' /\ OutcomeMatchesManifest' /\ AcceptedFacts'
  BY DEF ProgressFacts, OutcomeMatchesManifest, AcceptedFacts, Idle, Reading, Building,
     StepOfPrep, After
<1> QED
  BY <1>1, <1>2, <1>3 DEF PrepInvariant

(* A step that writes at most one file and goes on with the next: what the *)
(* files hold of the build stays, but for the file written.                *)
LEMMA ProceedKeeps ==
  ASSUME PrepInvariant, UNCHANGED <<layout, source, outcome>>, job # Idle,
         NEW s \in StepOfPrep, job' = [job EXCEPT !.step = s],
         DOMAIN files' = File, ProgressFacts', ManifestFacts'
  PROVE  PrepInvariant'
<1>1. /\ DOMAIN job' = {"step", "options", "samples", "issues"} /\ job'.step = s
      /\ job'.options = job.options /\ job'.samples = job.samples
  BY DEF PrepInvariant, JobFacts
<1>2. JobFacts'
  BY <1>1, SourceStays DEF PrepInvariant, JobFacts
<1>3. ShapeFacts' /\ OutcomeMatchesManifest' /\ AcceptedFacts'
  BY DEF PrepInvariant, ShapeFacts, JobFacts, OutcomeMatchesManifest, AcceptedFacts
<1> QED
  BY <1>2, <1>3 DEF PrepInvariant

(* The build of this prep depends on its options and samples alone.        *)
LEMMA BuildStays ==
  ASSUME job'.options = job.options, job'.samples = job.samples
  PROVE  Ordered' = Ordered /\ Tokenized' = Tokenized /\ Packed' = Packed
  BY DEF Ordered, Tokenized, Packed, Config

(* A step that writes one file other than the manifest and goes on.        *)
LEMMA WriteKeeps ==
  ASSUME PrepInvariant, UNCHANGED <<layout, source, outcome>>, job # Idle,
         NEW f \in File \ {"manifest"}, NEW content,
         files' = [files EXCEPT ![f] = Whole(content)],
         NEW s \in StepOfPrep, job' = [job EXCEPT !.step = s], ProgressFacts'
  PROVE  PrepInvariant'
<1>1. DOMAIN files' = File /\ files'["manifest"] = files["manifest"]
  BY DEF PrepInvariant, ShapeFacts, File
<1>2. ManifestFacts'
  BY <1>1, SourceStays DEF PrepInvariant, ManifestFacts
<1> QED
  BY <1>1, <1>2, ProceedKeeps

(* What a step that writes file f and goes on from s to t leaves.          *)
LEMMA Written ==
  ASSUME PrepInvariant, job # Idle, NEW f \in File, NEW content,
         files' = [files EXCEPT ![f] = Whole(content)],
         NEW t, job' = [job EXCEPT !.step = t]
  PROVE  /\ files'[f] = Whole(content) /\ \A g \in File \ {f} : files'[g] = files[g]
         /\ job'.step = t /\ job'.options = job.options /\ job'.samples = job.samples
         /\ Ordered' = Ordered /\ Tokenized' = Tokenized /\ Packed' = Packed
<1>1. job'.step = t /\ job'.options = job.options /\ job'.samples = job.samples
  BY DEF PrepInvariant, JobFacts
<1>2. files'[f] = Whole(content) /\ \A g \in File \ {f} : files'[g] = files[g]
  BY DEF PrepInvariant, ShapeFacts
<1> QED
  BY <1>1, <1>2, BuildStays

(* The rollouts are written.                                               *)
LEMMA WriteRolloutsKeeps ==
  ASSUME PrepInvariant, WriteRollouts
  PROVE  PrepInvariant'
<1>1. /\ UNCHANGED <<layout, source, outcome>> /\ job.step = "rollouts" /\ job # Idle
      /\ files' = [files EXCEPT !["rollouts"] = Whole(Rollouts(job.samples))]
      /\ job' = [job EXCEPT !.step = "dataset_samples"]
  BY StepOrder DEF WriteRollouts, Writes, Proceeds, FileOf, Idle
<1>2. /\ files'["rollouts"] = Whole(Rollouts(job.samples))
      /\ \A g \in File \ {"rollouts"} : files'[g] = files[g]
      /\ job'.step = "dataset_samples" /\ job'.options = job.options /\ job'.samples = job.samples
      /\ Ordered' = Ordered /\ Tokenized' = Tokenized /\ Packed' = Packed
  BY <1>1, Written DEF File, Artifact
<1>3. ProgressFacts'
  BY <1>1, <1>2 DEF PrepInvariant, ProgressFacts, Reading, Building, StepOfPrep, After, File,
     Artifact
<1> QED
  BY <1>1, <1>3, WriteKeeps DEF StepOfPrep, Reading, Building, File, Artifact

(* The samples of the dataset are written.                                 *)
LEMMA WriteDatasetSamplesKeeps ==
  ASSUME PrepInvariant, WriteDatasetSamples
  PROVE  PrepInvariant'
<1>1. /\ UNCHANGED <<layout, source, outcome>> /\ job.step = "dataset_samples" /\ job # Idle
      /\ files' = [files EXCEPT !["samples"] = Whole([by |-> "dataset", samples |-> job.samples])]
      /\ job' = [job EXCEPT !.step = "dataset"]
  BY StepOrder DEF WriteDatasetSamples, Writes, Proceeds, FileOf, Idle
<1>2. /\ files'["samples"] = Whole([by |-> "dataset", samples |-> job.samples])
      /\ \A g \in File \ {"samples"} : files'[g] = files[g]
      /\ job'.step = "dataset" /\ job'.options = job.options /\ job'.samples = job.samples
      /\ Ordered' = Ordered /\ Tokenized' = Tokenized /\ Packed' = Packed
  BY <1>1, Written DEF File, Artifact
<1>3. ProgressFacts'
  BY <1>1, <1>2 DEF PrepInvariant, ProgressFacts, Reading, Building, StepOfPrep, After, File,
     Artifact
<1> QED
  BY <1>1, <1>3, WriteKeeps DEF StepOfPrep, Reading, Building, File, Artifact

(* The manifest of the dataset is written.                                 *)
LEMMA WriteDatasetManifestKeeps ==
  ASSUME PrepInvariant, WriteDatasetManifest
  PROVE  PrepInvariant'
<1>1. /\ UNCHANGED <<layout, source, outcome>> /\ job.step = "dataset" /\ job # Idle
      /\ files' = [files EXCEPT !["dataset"] = Whole(DatasetManifest(job.samples))]
      /\ job' = [job EXCEPT !.step = "validate"]
  BY StepOrder DEF WriteDatasetManifest, Writes, Proceeds, FileOf, Idle
<1>2. /\ files'["dataset"] = Whole(DatasetManifest(job.samples))
      /\ \A g \in File \ {"dataset"} : files'[g] = files[g]
      /\ job'.step = "validate" /\ job'.options = job.options /\ job'.samples = job.samples
      /\ Ordered' = Ordered /\ Tokenized' = Tokenized /\ Packed' = Packed
  BY <1>1, Written DEF File, Artifact
<1>3. ProgressFacts'
  BY <1>1, <1>2 DEF PrepInvariant, ProgressFacts, Reading, Building, StepOfPrep, After, File,
     Artifact
<1> QED
  BY <1>1, <1>3, WriteKeeps DEF StepOfPrep, Reading, Building, File, Artifact

(* The ordered samples are written.                                        *)
LEMMA WriteSamplesKeeps ==
  ASSUME PrepInvariant, WriteSamples
  PROVE  PrepInvariant'
<1>1. /\ UNCHANGED <<layout, source, outcome>> /\ job.step = "samples" /\ job # Idle
      /\ files' = [files EXCEPT !["samples"] = Whole([by |-> "bundle", samples |-> Ordered])]
      /\ job' = [job EXCEPT !.step = "tokenized"]
  BY StepOrder DEF WriteSamples, Writes, Proceeds, FileOf, Idle
<1>2. /\ files'["samples"] = Whole([by |-> "bundle", samples |-> Ordered])
      /\ \A g \in File \ {"samples"} : files'[g] = files[g]
      /\ job'.step = "tokenized" /\ job'.options = job.options /\ job'.samples = job.samples
      /\ Ordered' = Ordered /\ Tokenized' = Tokenized /\ Packed' = Packed
  BY <1>1, Written DEF File, Artifact
<1>3. ProgressFacts'
  BY <1>1, <1>2 DEF PrepInvariant, ProgressFacts, Reading, Building, StepOfPrep, After, File,
     Artifact
<1> QED
  BY <1>1, <1>3, WriteKeeps DEF StepOfPrep, Reading, Building, File, Artifact

(* The tokenized examples are written.                                     *)
LEMMA WriteTokenizedKeeps ==
  ASSUME PrepInvariant, WriteTokenized
  PROVE  PrepInvariant'
<1>1. /\ UNCHANGED <<layout, source, outcome>> /\ job.step = "tokenized" /\ job # Idle
      /\ files' = [files EXCEPT !["tokenized"] = Whole(Tokenized)]
      /\ job' = [job EXCEPT !.step = "packed"]
  BY StepOrder DEF WriteTokenized, Writes, Proceeds, FileOf, Idle
<1>2. /\ files'["tokenized"] = Whole(Tokenized)
      /\ \A g \in File \ {"tokenized"} : files'[g] = files[g]
      /\ job'.step = "packed" /\ job'.options = job.options /\ job'.samples = job.samples
      /\ Ordered' = Ordered /\ Tokenized' = Tokenized /\ Packed' = Packed
  BY <1>1, Written DEF File, Artifact
<1>3. ProgressFacts'
  BY <1>1, <1>2 DEF PrepInvariant, ProgressFacts, Reading, Building, StepOfPrep, After, File,
     Artifact
<1> QED
  BY <1>1, <1>3, WriteKeeps DEF StepOfPrep, Reading, Building, File, Artifact

(* The packs are written.                                                  *)
LEMMA WritePackedKeeps ==
  ASSUME PrepInvariant, WritePacked
  PROVE  PrepInvariant'
<1>1. /\ UNCHANGED <<layout, source, outcome>> /\ job.step = "packed" /\ job # Idle
      /\ files' = [files EXCEPT !["packed"] = Whole(Packed.sequences)]
      /\ job' = [job EXCEPT !.step = "tokenizer_config"]
  BY StepOrder DEF WritePacked, Writes, Proceeds, FileOf, Idle
<1>2. /\ files'["packed"] = Whole(Packed.sequences)
      /\ \A g \in File \ {"packed"} : files'[g] = files[g]
      /\ job'.step = "tokenizer_config" /\ job'.options = job.options /\ job'.samples = job.samples
      /\ Ordered' = Ordered /\ Tokenized' = Tokenized /\ Packed' = Packed
  BY <1>1, Written DEF File, Artifact
<1>3. ProgressFacts'
  BY <1>1, <1>2 DEF PrepInvariant, ProgressFacts, Reading, Building, StepOfPrep, After, File,
     Artifact
<1> QED
  BY <1>1, <1>3, WriteKeeps DEF StepOfPrep, Reading, Building, File, Artifact

(* The tokenizer's configuration is written.                               *)
LEMMA WriteTokenizerConfigKeeps ==
  ASSUME PrepInvariant, WriteTokenizerConfig
  PROVE  PrepInvariant'
<1>1. /\ UNCHANGED <<layout, source, outcome>> /\ job.step = "tokenizer_config" /\ job # Idle
      /\ files' = [files EXCEPT !["tokenizer_config"] = Whole(Config(job.options))]
      /\ job' = [job EXCEPT !.step = "train_config"]
  BY StepOrder DEF WriteTokenizerConfig, Writes, Proceeds, FileOf, Idle
<1>2. /\ files'["tokenizer_config"] = Whole(Config(job.options))
      /\ \A g \in File \ {"tokenizer_config"} : files'[g] = files[g]
      /\ job'.step = "train_config" /\ job'.options = job.options /\ job'.samples = job.samples
      /\ Ordered' = Ordered /\ Tokenized' = Tokenized /\ Packed' = Packed
  BY <1>1, Written DEF File, Artifact
<1>3. ProgressFacts'
  BY <1>1, <1>2 DEF PrepInvariant, ProgressFacts, Reading, Building, StepOfPrep, After, File,
     Artifact
<1> QED
  BY <1>1, <1>3, WriteKeeps DEF StepOfPrep, Reading, Building, File, Artifact

(* The filters are written.                                                *)
LEMMA WriteTrainConfigKeeps ==
  ASSUME PrepInvariant, WriteTrainConfig
  PROVE  PrepInvariant'
<1>1. /\ UNCHANGED <<layout, source, outcome>> /\ job.step = "train_config" /\ job # Idle
      /\ files' = [files EXCEPT !["train_config"] = Whole(job.options.filter)]
      /\ job' = [job EXCEPT !.step = "report"]
  BY StepOrder DEF WriteTrainConfig, Writes, Proceeds, FileOf, Idle
<1>2. /\ files'["train_config"] = Whole(job.options.filter)
      /\ \A g \in File \ {"train_config"} : files'[g] = files[g]
      /\ job'.step = "report" /\ job'.options = job.options /\ job'.samples = job.samples
      /\ Ordered' = Ordered /\ Tokenized' = Tokenized /\ Packed' = Packed
  BY <1>1, Written DEF File, Artifact
<1>3. ProgressFacts'
  BY <1>1, <1>2 DEF PrepInvariant, ProgressFacts, Reading, Building, StepOfPrep, After, File,
     Artifact
<1> QED
  BY <1>1, <1>3, WriteKeeps DEF StepOfPrep, Reading, Building, File, Artifact

(* The files just written are read back.                                   *)
LEMMA ValidateSourceKeeps ==
  ASSUME PrepInvariant, ValidateSource
  PROVE  PrepInvariant'
<1>1. UNCHANGED <<layout, source, files>> /\ job.step = "validate" /\ job # Idle
  BY DEF ValidateSource, Idle
<1>2. files.samples.content.samples = job.samples
  BY <1>1 DEF PrepInvariant, ProgressFacts, Reading, Whole
<1>3. CASE Finish("raised")
  BY <1>1, <1>3, EndKeeps DEF PrepInvariant, ShapeFacts, Finish
<1>4. CASE ~Finish("raised")
  <2>1. /\ UNCHANGED outcome
        /\ job' = [step |-> "unlink", options |-> job.options, samples |-> job.samples,
                   issues |-> ValidateRolloutDatasetSource(files.dataset.content,
                                files.rollouts.content, job.samples)]
    BY <1>2, <1>4, StepOrder DEF ValidateSource
  <2>2. /\ job'.step = "unlink" /\ job'.options = job.options /\ job'.samples = job.samples
        /\ DOMAIN job' = {"step", "options", "samples", "issues"}
    BY <2>1
  <2>3. JobFacts'
    BY <1>1, <2>1, <2>2, SourceStays DEF PrepInvariant, JobFacts, StepOfPrep
  <2>4. ProgressFacts'
    <3>1. files["rollouts"] = Whole(Rollouts(job.samples))
      BY <1>1 DEF PrepInvariant, ProgressFacts, Reading, StepOfPrep, After
    <3> QED
      BY <1>1, <2>2, <3>1 DEF ProgressFacts, Reading, Building, StepOfPrep, After
  <2>5. ManifestFacts' /\ ShapeFacts' /\ OutcomeMatchesManifest' /\ AcceptedFacts'
    BY <1>1, <2>1, SourceStays
       DEF PrepInvariant, ManifestFacts, ShapeFacts, JobFacts, OutcomeMatchesManifest,
           AcceptedFacts
  <2> QED
    BY <2>3, <2>4, <2>5 DEF PrepInvariant
<1> QED
  BY <1>3, <1>4

(* The manifest of an earlier prep goes before the first artifact does.    *)
LEMMA UnlinkManifestKeeps ==
  ASSUME PrepInvariant, UnlinkManifest
  PROVE  PrepInvariant'
<1>1. /\ UNCHANGED <<layout, source, outcome>> /\ job # Idle
      /\ files' = [files EXCEPT !["manifest"] = Absent]
      /\ job' = [job EXCEPT !.step = "samples"]
  BY StepOrder DEF UnlinkManifest, Proceeds, Idle
<1>2. /\ DOMAIN files' = File /\ files'["manifest"] = Absent /\ job'.step = "samples"
      /\ files'["rollouts"] = files["rollouts"] /\ job'.samples = job.samples
  BY <1>1 DEF PrepInvariant, ShapeFacts, JobFacts, File
<1>0. files["rollouts"] = Whole(Rollouts(job.samples))
  BY DEF UnlinkManifest, PrepInvariant, ProgressFacts, StepOfPrep, After
<1>3. ProgressFacts' /\ ManifestFacts'
  BY <1>0, <1>2 DEF ProgressFacts, ManifestFacts, Reading, Building, StepOfPrep, After, Absent
<1> QED
  BY <1>1, <1>2, <1>3, ProceedKeeps DEF StepOfPrep, Reading, Building

(* The report: a contract that found issues ends the prep, which by then   *)
(* has no manifest.                                                        *)
LEMMA WriteReportKeeps ==
  ASSUME PrepInvariant, WriteReport
  PROVE  PrepInvariant'
<1>1. PICK issues :
        /\ Writes("report", [issues |-> issues, sample_count |-> Len(Ordered)])
        /\ IF issues = {} THEN Proceeds ELSE Finish("rejected")
        /\ issues = VerifyPreparedBundle(Ordered, Tokenized, Packed, job.issues, TRUE)
  BY DEF WriteReport
<1>2. /\ UNCHANGED <<layout, source>> /\ job.step = "report" /\ job # Idle
      /\ files' = [files EXCEPT !["report"] =
                     Whole([issues |-> issues, sample_count |-> Len(Ordered)])]
  BY <1>1 DEF Writes, FileOf, Idle
<1>3. CASE issues = {}
  <2>1. UNCHANGED outcome /\ job' = [job EXCEPT !.step = "manifest"]
    BY <1>1, <1>2, <1>3, StepOrder DEF Proceeds
  <2>2. /\ files'["report"] = Whole([issues |-> {}, sample_count |-> Len(Ordered)])
        /\ \A g \in File \ {"report"} : files'[g] = files[g]
        /\ job'.step = "manifest" /\ job'.options = job.options /\ job'.samples = job.samples
        /\ Ordered' = Ordered /\ Tokenized' = Tokenized /\ Packed' = Packed
    BY <1>2, <1>3, <2>1, Written DEF File, Artifact
  <2>4. ValidateExamples(Tokenized, "tokenized") = {}
    BY <1>1, <1>3 DEF VerifyPreparedBundle
  <2>3. ProgressFacts'
    BY <1>2, <2>2, <2>4
       DEF PrepInvariant, ProgressFacts, Reading, Building, StepOfPrep, After, File, Artifact
  <2> QED
    BY <1>2, <2>1, <2>3, WriteKeeps DEF StepOfPrep, Reading, Building, File, Artifact
<1>4. CASE issues # {}
  <2>1. outcome' = "rejected" /\ job' = Idle
    BY <1>1, <1>4 DEF Finish
  <2>2. files["manifest"] = Absent /\ DOMAIN files = File
    BY <1>2 DEF PrepInvariant, ProgressFacts, ShapeFacts, Building
  <2>3. files'["manifest"] = Absent /\ DOMAIN files' = File
    BY <1>2, <2>2 DEF File, Artifact
  <2>4. ManifestFacts' /\ ShapeFacts' /\ OutcomeMatchesManifest' /\ AcceptedFacts'
    BY <1>2, <2>1, <2>3 DEF PrepInvariant, ManifestFacts, ShapeFacts, OutcomeMatchesManifest,
       AcceptedFacts, Absent
  <2>5. JobFacts' /\ ProgressFacts'
    BY <2>1 DEF JobFacts, ProgressFacts, Idle, Reading, Building, StepOfPrep, After
  <2> QED
    BY <2>4, <2>5 DEF PrepInvariant
<1> QED
  BY <1>3, <1>4

(* The trajectories of a prep are admitted.                                *)
LEMMA JobIsAdmitted ==
  ASSUME PrepInvariant, job # Idle
  PROVE  \E loaded : /\ Admitted(loaded, job.options.filter)
                     /\ Dataset(loaded) = job.samples
<1> DEFINE filter == job.options.filter
           dirs == {d \in Discovered : PassesFilters(Loaded(d), filter)}
           loaded == [d \in dirs |-> Loaded(d)]
<1>1. Dataset(loaded) = job.samples
  BY DEF PrepInvariant, JobFacts, CollectDatasetRecords
<1>2. \A d \in dirs : source[d].trajectory.state = "whole"
  <2>1. \A d \in Discovered : d \in Dirs /\ source[d].trajectory \notin {Absent, Torn}
    BY DEF PrepInvariant, JobFacts, Unloadable, Discovered
  <2> QED
    BY <2>1 DEF PrepInvariant, ShapeFacts, Whole
<1>3. DOMAIN loaded = dirs /\ \A d \in dirs : loaded[d] = Loaded(d)
  OBVIOUS
<1>4. loaded = [d \in DOMAIN loaded |-> loaded[d]]
  OBVIOUS
<1>5. \A d \in dirs : d \in Discovered /\ PassesFilters(Loaded(d), filter)
  OBVIOUS
<1> HIDE DEF loaded, dirs, filter
<1>6. Admitted(loaded, filter)
  BY <1>2, <1>3, <1>4, <1>5 DEF Admitted
<1> QED
  BY <1>1, <1>6 DEF filter

(* When the manifest is written, and after it, the directory holds the     *)
(* build of this prep.                                                     *)
LEMMA JobIsAccepted ==
  ASSUME PrepInvariant, job.step \in {"manifest", "prep"}
  PROVE  Accepted
<1> DEFINE artifacts == [a \in Artifact |-> files[a].content]
<1>0. job # Idle
  BY DEF Idle
<1>1. PICK loaded : Admitted(loaded, job.options.filter) /\ Dataset(loaded) = job.samples
  BY <1>0, JobIsAdmitted
<1>2. /\ files["samples"] = Whole([by |-> "bundle", samples |-> Ordered])
      /\ files["tokenized"] = Whole(Tokenized)
      /\ files["packed"] = Whole(Packed.sequences)
      /\ files["tokenizer_config"] = Whole(Config(job.options))
      /\ files["train_config"] = Whole(job.options.filter)
      /\ files["report"] = Whole([issues |-> {}, sample_count |-> Len(Ordered)])
      /\ ValidateExamples(Tokenized, "tokenized") = {}
      /\ files["rollouts"] = Whole(Rollouts(job.samples))
  BY DEF PrepInvariant, ProgressFacts, StepOfPrep, After
<1>3. \A x : Whole(x).content = x
  BY DEF Whole
<1>4. \A a \in Artifact : artifacts[a] = files[a].content
  OBVIOUS
<1> HIDE DEF artifacts
<1>5. /\ artifacts["samples"] = [by |-> "bundle", samples |-> Ordered]
      /\ artifacts["tokenized"] = Tokenized
      /\ artifacts["packed"] = Packed.sequences
      /\ artifacts["tokenizer_config"] = Config(job.options)
      /\ artifacts["train_config"] = job.options.filter
      /\ artifacts["report"] = [issues |-> {}, sample_count |-> Len(Ordered)]
      /\ files["rollouts"].content = Rollouts(job.samples)
  BY <1>2, <1>3, <1>4 DEF Artifact
<1>6. IsBuild(artifacts, job.options, loaded)
  BY <1>1, <1>2, <1>5 DEF IsBuild, Ordered, Tokenized, Packed
<1>7. job.options \in Options
  BY <1>0 DEF PrepInvariant, JobFacts
<1> QED
  BY <1>1, <1>5, <1>6, <1>7 DEF Accepted, artifacts

(* The manifest is written.                                                *)
LEMMA WriteManifestKeeps ==
  ASSUME PrepInvariant, WriteManifest
  PROVE  PrepInvariant'
<1> DEFINE artifacts == [a \in Artifact |-> files[a].content]
<1>0. PICK content : content = [artifacts |-> artifacts, sample_count |-> Len(Ordered),
                               tokenized_count |-> Len(Tokenized)]
  OBVIOUS
<1>1. /\ UNCHANGED <<layout, source, outcome>> /\ job.step = "manifest" /\ job # Idle
      /\ files' = [files EXCEPT !["manifest"] = Whole(content)]
      /\ job' = [job EXCEPT !.step = "prep"]
  BY <1>0, StepOrder DEF WriteManifest, Writes, Proceeds, FileOf, Idle
<1>2. BuiltOnce(artifacts)
  BY <1>1, JobIsAccepted DEF Accepted, BuiltOnce
<1>3. PICK a : a = artifacts
  OBVIOUS
<1>4. content.artifacts = a /\ BuiltOnce(a)
  BY <1>0, <1>2, <1>3
<1> HIDE DEF artifacts
<1>5. /\ DOMAIN files' = File /\ files'["manifest"] = Whole(content)
      /\ \A g \in File \ {"manifest"} : files'[g] = files[g]
      /\ job'.step = "prep" /\ job'.options = job.options /\ job'.samples = job.samples
      /\ Ordered' = Ordered /\ Tokenized' = Tokenized /\ Packed' = Packed
  BY <1>1, Written DEF PrepInvariant, ShapeFacts, File
<1>6. files'["manifest"].content.artifacts = a
  BY <1>4, <1>5 DEF Whole
<1>7. BuiltOnce(a)'
  BY <1>1, <1>4, SourceStays
<1>8. ManifestFacts'
  BY <1>5, <1>6, <1>7 DEF ManifestFacts
<1>9. ProgressFacts'
  BY <1>1, <1>5 DEF PrepInvariant, ProgressFacts, Reading, Building, StepOfPrep, After, File,
     Artifact
<1> QED
  BY <1>1, <1>5, <1>8, <1>9, ProceedKeeps DEF StepOfPrep

(* An accepted build stays while its files and its runs do.                *)
LEMMA AcceptedStays ==
  ASSUME Accepted, \A a \in Artifact \cup {"rollouts"} : files'[a] = files[a],
         \A loaded, filter : Admitted(loaded, filter) => Admitted(loaded, filter)'
  PROVE  Accepted'
<1> DEFINE artifacts == [a \in Artifact |-> files[a].content]
<1>1. PICK o \in Options :
        \E loaded : /\ Admitted(loaded, o.filter) /\ IsBuild(artifacts, o, loaded)
                    /\ files["rollouts"].content = Rollouts(Dataset(loaded))
  BY DEF Accepted
<1>2. PICK loaded : /\ Admitted(loaded, o.filter) /\ IsBuild(artifacts, o, loaded)
                    /\ files["rollouts"].content = Rollouts(Dataset(loaded))
  BY <1>1
<1>3. artifacts' = artifacts /\ files'["rollouts"] = files["rollouts"]
  OBVIOUS
<1>4. IsBuild(artifacts, o, loaded)'
  BY <1>2, <1>3 DEF IsBuild, Config
<1> QED
  BY <1>2, <1>3, <1>4 DEF Accepted

(* The prep checks its own manifest.                                       *)
LEMMA FinishPrepKeeps ==
  ASSUME PrepInvariant, FinishPrep
  PROVE  PrepInvariant'
<1>1. CASE ~ManifestVerifies
  BY <1>1, EndKeeps DEF FinishPrep, Finish, PrepInvariant, ShapeFacts
<1>2. CASE ManifestVerifies
  <2>1. /\ UNCHANGED <<layout, source>> /\ job' = Idle /\ outcome' = "ok"
        /\ files' = [files EXCEPT !["prep"] = Whole(job.options)] /\ job.step = "prep"
    BY <1>2 DEF FinishPrep, Writes, Finish, FileOf
  <2>2. /\ DOMAIN files' = File /\ files'["manifest"] = files["manifest"]
        /\ \A a \in Artifact : files'[a] = files[a]
        /\ files'["rollouts"] = files["rollouts"]
    BY <2>1 DEF PrepInvariant, ShapeFacts, File, Artifact
  <2>3. ManifestVerifies'
    BY <1>2, <2>2 DEF ManifestVerifies
  <2>4. ManifestFacts' /\ ShapeFacts' /\ OutcomeMatchesManifest'
    BY <2>1, <2>2, <2>3, SourceStays
       DEF PrepInvariant, ManifestFacts, ShapeFacts, OutcomeMatchesManifest
  <2>5. JobFacts' /\ ProgressFacts'
    BY <2>1 DEF JobFacts, ProgressFacts, Idle, Reading, Building, StepOfPrep, After
  <2>6. AcceptedFacts'
    BY <2>1, <2>2, JobIsAccepted, AcceptedStays, SourceStays DEF AcceptedFacts
  <2> QED
    BY <2>4, <2>5, <2>6 DEF PrepInvariant
<1> QED
  BY <1>1, <1>2

(* The process is killed.                                                  *)
LEMMA KillKeeps ==
  ASSUME PrepInvariant, Kill
  PROVE  PrepInvariant'
<1>1. DOMAIN files' = File
  BY DEF Kill, PrepInvariant, ShapeFacts
<1>2. files'["manifest"] = files["manifest"] \/ files'["manifest"] = Torn
  BY DEF Kill, PrepInvariant, ShapeFacts, File
<1> QED
  BY <1>1, <1>2, EndKeeps DEF Kill, Finish, Torn

-----------------------------------------------------------------------------
(* The steps of others.                                                    *)

(* What a verification or another run does not touch.                      *)
LEMMA OtherKeeps ==
  ASSUME PrepInvariant, UNCHANGED <<layout, files, job, outcome>>, ShapeFacts',
         source' = source \/ job = Idle,
         \A loaded, filter : Admitted(loaded, filter) => Admitted(loaded, filter)'
  PROVE  PrepInvariant'
<1>0. \A artifacts : BuiltOnce(artifacts) => BuiltOnce(artifacts)'
  BY DEF BuiltOnce
<1>1. ManifestFacts'
  BY <1>0 DEF PrepInvariant, ManifestFacts
<1>5. AcceptedFacts'
  BY AcceptedStays DEF PrepInvariant, AcceptedFacts
<1>2. JobFacts'
  BY SourceStays DEF PrepInvariant, JobFacts
<1>3. OutcomeMatchesManifest'
  BY DEF PrepInvariant, OutcomeMatchesManifest, ManifestVerifies
<1>4. ProgressFacts'
  BY BuildStays DEF PrepInvariant, ProgressFacts, Config
<1> QED
  BY <1>1, <1>2, <1>3, <1>4, <1>5 DEF PrepInvariant

(* A run that finishes or is recorded is another one than those admitted.  *)
LEMMA AdmittedStays ==
  ASSUME ShapeFacts, UNCHANGED layout,
         NEW d \in Dirs, NEW field \in {"trajectory", "record"}, NEW value,
         source' = [source EXCEPT ![d] = [@ EXCEPT ![field] = value]],
         IF field = "trajectory" THEN source[d].trajectory = Absent /\ value # Absent
                                 ELSE source[d].record = "none",
         NEW loaded, NEW filter, Admitted(loaded, filter)
  PROVE  Admitted(loaded, filter)'
<1>1. /\ DOMAIN source' = Dirs
      /\ \A e \in Dirs \ {d} : source'[e] = source[e]
      /\ source'[d] = [source[d] EXCEPT ![field] = value]
  BY DEF ShapeFacts
<1>2. /\ field = "trajectory" =>
           source'[d].record = source[d].record /\ source'[d].trajectory = value
      /\ field = "record" => source'[d].trajectory = source[d].trajectory
  BY <1>1 DEF ShapeFacts
<1>4. \A e \in DOMAIN loaded : e \in Discovered /\ e \in Dirs /\ source[e].trajectory # Absent
  BY DEF Admitted, Discovered, Absent
<1>5. ASSUME NEW e \in DOMAIN loaded
      PROVE  source'[e].trajectory = source[e].trajectory /\ e \in Discovered'
  <2>1. source'[e].trajectory = source[e].trajectory
    BY <1>1, <1>2, <1>4, <1>5
  <2>2. layout = "campaign" => source'[e].record = "trajectory_recorded"
    BY <1>1, <1>2, <1>4, <1>5 DEF Discovered
  <2> QED
    BY <1>4, <1>5, <2>1, <2>2 DEF Discovered
<1>6. \A e \in DOMAIN loaded : Loaded(e)' = Loaded(e)
  BY <1>5 DEF Loaded
<1> QED
  BY <1>5, <1>6 DEF Admitted

(* A run finishes.                                                         *)
LEMMA FinishRunKeeps ==
  ASSUME PrepInvariant, NEW d \in Dirs, FinishRun(d)
  PROVE  PrepInvariant'
<1>1. PICK t : /\ t \in {Torn} \cup {Whole(u) : u \in Trajectories}
               /\ source' = [source EXCEPT ![d] = [@ EXCEPT !["trajectory"] = t]]
  BY DEF FinishRun
<1>2. UNCHANGED <<layout, files, job, outcome>> /\ job = Idle /\ source[d].trajectory = Absent
  BY DEF FinishRun
<1>3. t # Absent
  BY <1>1 DEF Absent, Torn, Whole
<1>4. \A loaded, filter : Admitted(loaded, filter) => Admitted(loaded, filter)'
  BY <1>1, <1>2, <1>3, AdmittedStays DEF PrepInvariant
<1>5. ShapeFacts'
  BY <1>1, <1>2 DEF PrepInvariant, ShapeFacts
<1> QED
  BY <1>2, <1>4, <1>5, OtherKeeps

(* A campaign records a run.                                               *)
LEMMA RecordRunKeeps ==
  ASSUME PrepInvariant, NEW d \in Dirs, RecordRun(d)
  PROVE  PrepInvariant'
<1>1. PICK value : source' = [source EXCEPT ![d] = [@ EXCEPT !["record"] = value]]
  BY DEF RecordRun
<1>2. UNCHANGED <<layout, files, job, outcome>> /\ job = Idle /\ source[d].record = "none"
  BY DEF RecordRun
<1>3. \A loaded, filter : Admitted(loaded, filter) => Admitted(loaded, filter)'
  BY <1>1, <1>2, AdmittedStays DEF PrepInvariant
<1>4. ShapeFacts'
  BY <1>1, <1>2 DEF PrepInvariant, ShapeFacts
<1> QED
  BY <1>2, <1>3, <1>4, OtherKeeps

(* Verify writes elsewhere.                                                *)
LEMMA UntouchedKeeps ==
  ASSUME PrepInvariant, UNCHANGED <<layout, source, files, job, outcome>>
  PROVE  PrepInvariant'
<1>1. ShapeFacts'
  BY DEF PrepInvariant, ShapeFacts
<1> QED
  BY <1>1, OtherKeeps, SourceStays

(* Every step preserves the invariant.                                     *)
LEMMA PrepStepKeeps ==
  ASSUME PrepInvariant, [Next]_vars
  PROVE  PrepInvariant'
<1>1. CASE Prep
  BY <1>1, StartPrepKeeps, WriteRolloutsKeeps, WriteDatasetSamplesKeeps,
     WriteDatasetManifestKeeps, ValidateSourceKeeps, UnlinkManifestKeeps, WriteSamplesKeeps,
     WriteTokenizedKeeps, WritePackedKeeps, WriteTokenizerConfigKeeps, WriteTrainConfigKeeps,
     WriteReportKeeps, WriteManifestKeeps, FinishPrepKeeps DEF Prep
<1>2. CASE Verify \/ UNCHANGED vars
  BY <1>2, UntouchedKeeps DEF Verify, VerifyCommand, vars
<1> QED
  BY <1>1, <1>2, KillKeeps, FinishRunKeeps, RecordRunKeeps DEF Next

-----------------------------------------------------------------------------
(* What follows of the files.                                              *)

(* The files of the bundle, one by one, are those of a build.              *)
OnDisk(o, loaded, ordered, tokenized) ==
  /\ Admitted(loaded, o.filter)
  /\ ordered = OrderSamples(Dataset(loaded)) /\ tokenized = Tensorize(ordered, Config(o))
  /\ files["samples"].content.samples = ordered
  /\ files["tokenized"].content = tokenized
  /\ files["packed"].content = PackExamples(tokenized, o.max_length).sequences
  /\ files["tokenizer_config"].content = Config(o)
  /\ files["train_config"].content = o.filter
  /\ files["report"].content.issues = {}
  /\ ValidateExamples(tokenized, "tokenized") = {}

(* A build on disk, file by file.                                          *)
LEMMA BuildOnDisk ==
  ASSUME NEW o \in Options, NEW loaded, Admitted(loaded, o.filter),
         IsBuild([a \in Artifact |-> files[a].content], o, loaded)
  PROVE  \E ordered, tokenized : OnDisk(o, loaded, ordered, tokenized)
<1> DEFINE artifacts == [a \in Artifact |-> files[a].content]
<1>1. \A a \in Artifact : artifacts[a] = files[a].content
  OBVIOUS
<1>2. IsBuild(artifacts, o, loaded)
  OBVIOUS
<1> HIDE DEF artifacts
<1>3. PICK ordered, tokenized : /\ ordered = OrderSamples(Dataset(loaded))
                                /\ tokenized = Tensorize(ordered, Config(o))
  OBVIOUS
<1>4. /\ artifacts["samples"] = [by |-> "bundle", samples |-> ordered]
      /\ artifacts["tokenized"] = tokenized
      /\ artifacts["packed"] = PackExamples(tokenized, o.max_length).sequences
      /\ artifacts["tokenizer_config"] = Config(o)
      /\ artifacts["train_config"] = o.filter
      /\ artifacts["report"] = [issues |-> {}, sample_count |-> Len(ordered)]
      /\ ValidateExamples(tokenized, "tokenized") = {}
  BY <1>2, <1>3 DEF IsBuild
<1>5. /\ files["samples"].content = [by |-> "bundle", samples |-> ordered]
      /\ files["tokenized"].content = tokenized
      /\ files["packed"].content = PackExamples(tokenized, o.max_length).sequences
      /\ files["tokenizer_config"].content = Config(o)
      /\ files["train_config"].content = o.filter
      /\ files["report"].content = [issues |-> {}, sample_count |-> Len(ordered)]
  BY <1>1, <1>4 DEF Artifact
<1>6. files["samples"].content.samples = ordered /\ files["report"].content.issues = {}
  BY <1>5
<1> QED
  BY <1>3, <1>4, <1>5, <1>6 DEF OnDisk

(* A manifest that verifies vouches for what it was written for.           *)
LEMMA VerifiedFollows ==
  ASSUME PrepInvariant
  PROVE  VerifiedIsBuild
<1> SUFFICES ASSUME ManifestVerifies
             PROVE  BuiltOnce([a \in Artifact |-> files[a].content])
  BY DEF VerifiedIsBuild
<1>1. PICK m : m = files["manifest"].content.artifacts
  OBVIOUS
<1>2. PICK o \in Options : \E loaded : Admitted(loaded, o.filter) /\ IsBuild(m, o, loaded)
  BY <1>1 DEF PrepInvariant, ManifestFacts, BuiltOnce, ManifestVerifies
<1>3. PICK loaded : Admitted(loaded, o.filter) /\ IsBuild(m, o, loaded)
  BY <1>2
<1>4. \A a \in Artifact : files[a] = Whole(m[a])
  BY <1>1 DEF ManifestVerifies
<1>5. \A x : Whole(x).content = x
  BY DEF Whole
<1>6. \A a \in Artifact : files[a].content = m[a]
  BY <1>4, <1>5
<1> DEFINE artifacts == [a \in Artifact |-> files[a].content]
<1>7. /\ artifacts["samples"] = m["samples"] /\ artifacts["tokenized"] = m["tokenized"]
      /\ artifacts["packed"] = m["packed"] /\ artifacts["report"] = m["report"]
      /\ artifacts["tokenizer_config"] = m["tokenizer_config"]
      /\ artifacts["train_config"] = m["train_config"]
  BY <1>6 DEF Artifact
<1> HIDE DEF artifacts
<1>8. IsBuild(artifacts, o, loaded)
  BY <1>3, <1>7 DEF IsBuild
<1> QED
  BY <1>3, <1>8 DEF BuiltOnce, artifacts

(* So a verified bundle is a build, file by file.                          *)
LEMMA VerifiedOnDisk ==
  ASSUME PrepInvariant, ManifestVerifies
  PROVE  \E o \in Options : \E loaded, ordered, tokenized : OnDisk(o, loaded, ordered, tokenized)
<1>1. BuiltOnce([a \in Artifact |-> files[a].content])
  BY VerifiedFollows DEF VerifiedIsBuild
<1>2. PICK o \in Options :
        \E loaded : /\ Admitted(loaded, o.filter)
                    /\ IsBuild([a \in Artifact |-> files[a].content], o, loaded)
  BY <1>1 DEF BuiltOnce
<1>3. PICK loaded : /\ Admitted(loaded, o.filter)
                    /\ IsBuild([a \in Artifact |-> files[a].content], o, loaded)
  BY <1>2
<1> QED
  BY <1>3, BuildOnDisk

(* And its packs train on calls, as those of any build do.                 *)
LEMMA TokensFollow ==
  ASSUME PrepInvariant
  PROVE  TrainedTokensAreCalls
<1> SUFFICES ASSUME ManifestVerifies,
                    NEW q \in DOMAIN files["packed"].content,
                    NEW i \in DOMAIN files["packed"].content[q].source_spans,
                    NEW k \in 1 .. files["packed"].content[q].source_spans[i].length
             PROVE  LET p == files["packed"].content[q]
                        span == p.source_spans[i]
                        run == span.metadata.run
                        token == p.input_ids[span.start + k]
                    IN  /\ token[1] = run /\ token[2] = (k - 1) * CharsPerToken
                        /\ p.labels[span.start + k] =
                             IF \E c \in token[2] .. token[3] - 1 : c \in CallCharacters(Loaded(run))
                               THEN token ELSE IGNORE_INDEX
  BY Zenon DEF TrainedTokensAreCalls
<1>1. PICK o \in Options : \E loaded, ordered, tokenized : OnDisk(o, loaded, ordered, tokenized)
  BY VerifiedOnDisk
<1>2. PICK loaded, ordered, tokenized : OnDisk(o, loaded, ordered, tokenized)
  BY <1>1
<1>3. PacksOf(files["packed"].content, ordered, loaded, o) /\ Admitted(loaded, o.filter)
  BY <1>2 DEF OnDisk, PacksOf
<1>4. ShapeFacts
  BY DEF PrepInvariant
<1>5. TrainsCall(files["packed"].content[q], i, k)
  BY <1>3, <1>4, PacksTrainCalls
<1> QED
  BY <1>5, Zenon DEF TrainsCall

(* And its samples, tokens and packs are of one build.                     *)
LEMMA OneBuildFollows ==
  ASSUME PrepInvariant
  PROVE  VerifiedBundleIsOneBuild
<1> SUFFICES ASSUME ManifestVerifies PROVE VerifiedBundleIsOneBuild
  BY DEF VerifiedBundleIsOneBuild
<1>1. PICK o \in Options : \E loaded, ordered, tokenized : OnDisk(o, loaded, ordered, tokenized)
  BY VerifiedOnDisk
<1>2. PICK loaded, ordered, tokenized : OnDisk(o, loaded, ordered, tokenized)
  BY <1>1
<1> DEFINE samples == files["samples"].content.samples
           packs == files["packed"].content
           spans == FlattenSeq([q \in DOMAIN packs |-> packs[q].source_spans])
<1>3. /\ samples = ordered /\ files["tokenized"].content = tokenized
      /\ packs = PackExamples(Tensorize(samples, Config(o)), o.max_length).sequences
      /\ files["tokenizer_config"].content = Config(o)
      /\ files["train_config"].content = o.filter /\ files["report"].content.issues = {}
      /\ Admitted(loaded, o.filter) /\ samples = OrderSamples(Dataset(loaded))
      /\ tokenized = Tensorize(samples, Config(o))
  BY <1>2 DEF OnDisk
<1>4. PacksOf(packs, samples, loaded, o)
  BY <1>3 DEF PacksOf
<1>5. ShapeFacts
  BY DEF PrepInvariant
<1>6. HoldsSamples(packs, samples, loaded)
  BY <1>3, <1>4, <1>5, PacksHoldSamples
<1>7. ASSUME NEW d \in DOMAIN loaded
      PROVE  /\ source[d].trajectory.state = "whole"
             /\ PassesFilters(Loaded(d), files["train_config"].content)
             /\ layout = "campaign" => source[d].record = "trajectory_recorded"
  <2>1. d \in Discovered /\ source[d].trajectory.state = "whole"
        /\ PassesFilters(Loaded(d), o.filter)
    BY <1>3 DEF Admitted
  <2>2. layout = "campaign" => source[d].record = "trajectory_recorded"
    BY <2>1 DEF Discovered
  <2> QED
    BY <1>3, <2>1, <2>2
<1>8. /\ files["tokenized"].content = Tensorize(samples, files["tokenizer_config"].content)
      /\ files["report"].content.issues = {}
  BY <1>3
<1>9. /\ Len(spans) = Len(samples)
      /\ \A i \in DOMAIN samples :
           /\ samples[i].run \in DOMAIN loaded
           /\ \E j \in DOMAIN spans : spans[j].metadata.run = samples[i].run
  BY <1>6, Zenon DEF HoldsSamples, SpansOf
<1>10. ASSUME NEW i \in DOMAIN samples
       PROVE  /\ \E j \in DOMAIN spans : spans[j].metadata.run = samples[i].run
              /\ source[samples[i].run].trajectory.state = "whole"
              /\ PassesFilters(Loaded(samples[i].run), files["train_config"].content)
              /\ layout = "campaign" => source[samples[i].run].record = "trajectory_recorded"
  <2> HIDE DEF samples, packs, spans
  <2> QED
    BY <1>7, <1>9, Zenon
<1>11. Len(spans) = Len(samples)
  BY <1>9
<1> QED
  BY <1>8, <1>10, <1>11, Zenon DEF VerifiedBundleIsOneBuild

(* What a prep accepted has no issue, so the bridge keeps its trained      *)
(* tokens.                                                                 *)
LEMMA ConsumableFollows ==
  ASSUME PrepInvariant
  PROVE  AcceptedIsConsumable
<1> SUFFICES ASSUME outcome = "ok", NEW i \in DOMAIN files["rollouts"].content
             PROVE  LET r == files["rollouts"].content[i]
                        sample == RolloutToSlimeTrainSample(r, files["tokenizer_config"].content)
                    IN  /\ sample = Raises <=> CallCharacters(Loaded(r.run)) = {}
                        /\ \E k \in DOMAIN files["tokenized"].content :
                             LET example == files["tokenized"].content[k]
                             IN  /\ example.metadata.run = r.run
                                 /\ Ones(sample.loss_mask) = Ones(example.token_train_mask)
  BY Zenon DEF AcceptedIsConsumable
<1>1. PICK o \in Options :
        \E loaded : /\ Admitted(loaded, o.filter)
                    /\ IsBuild([a \in Artifact |-> files[a].content], o, loaded)
                    /\ files["rollouts"].content = Rollouts(Dataset(loaded))
  BY DEF PrepInvariant, AcceptedFacts, Accepted
<1>2. PICK loaded : /\ Admitted(loaded, o.filter)
                    /\ IsBuild([a \in Artifact |-> files[a].content], o, loaded)
                    /\ files["rollouts"].content = Rollouts(Dataset(loaded))
  BY <1>1
<1>3. PICK ordered, tokenized : OnDisk(o, loaded, ordered, tokenized)
  BY <1>2, BuildOnDisk
<1>4. PICK samples, r, sample :
        /\ samples = Dataset(loaded) /\ r = files["rollouts"].content[i]
        /\ sample = RolloutToSlimeTrainSample(r, files["tokenizer_config"].content)
  OBVIOUS
<1>5. /\ files["tokenizer_config"].content = Config(o) /\ files["tokenized"].content = tokenized
      /\ ordered = OrderSamples(samples) /\ tokenized = Tensorize(ordered, Config(o))
      /\ ValidateExamples(tokenized, "tokenized") = {}
  BY <1>3, <1>4 DEF OnDisk
<1>6. Readable(loaded)
  BY <1>2, AdmittedIsReadable DEF PrepInvariant
<1>7. SamplesOf(samples, loaded) /\ SamplesOf(ordered, loaded)
  BY <1>4, <1>5, <1>6, DatasetIs, OrderedIs
<1>8. /\ IsList(samples) /\ DOMAIN samples = 1 .. Len(samples)
      /\ DOMAIN ordered = 1 .. Len(ordered)
  BY <1>7, ListIs DEF SamplesOf
<1>9. /\ i \in DOMAIN samples /\ r.run = samples[i].run
      /\ TensorizeSample(r, Config(o)) = TensorizeSample(samples[i], Config(o))
  <2>1. /\ DOMAIN Rollouts(samples) = DOMAIN samples
        /\ \A x \in DOMAIN samples :
             /\ Rollouts(samples)[x].run = samples[x].run
             /\ TensorizeSample(Rollouts(samples)[x], Config(o)) = TensorizeSample(samples[x], Config(o))
    BY <1>8, RolloutTokens
  <2>2. i \in DOMAIN samples /\ r = Rollouts(samples)[i]
    BY <1>2, <1>4, <2>1
  <2> QED
    BY <2>1, <2>2
<1>10. PICK d \in DOMAIN loaded : samples[i] = BuildTrainingSample(loaded[d])
  BY <1>7, <1>8, <1>9 DEF SamplesOf
<1>11. loaded[d].run = d /\ loaded[d].messages \in Seq(Message) /\ loaded[d] = Loaded(d)
  BY <1>2, <1>6 DEF Readable, Admitted
<1>12. r.run = d
  BY <1>9, <1>10, <1>11, SampleIs
<1>13. PICK k \in DOMAIN ordered : ordered[k] = BuildTrainingSample(loaded[d])
  BY <1>7, <1>8 DEF SamplesOf
<1>14. PICK t, e : t = loaded[d] /\ e = TensorizeSample(BuildTrainingSample(t), Config(o))
  OBVIOUS
<1>15. k \in DOMAIN tokenized /\ tokenized[k] = e
  BY <1>5, <1>13, <1>14 DEF Tensorize
<1>16. Encoded(e, t, o)
  BY <1>11, <1>14, EncodedIs
<1>17. ValidateTokenizedExample(e, "tokenized") = {}
  BY <1>5, <1>15 DEF ValidateExamples
<1>18. /\ sample = Raises <=> CallCharacters(t) = {}
       /\ Ones(sample.loss_mask) = Ones(e.token_train_mask)
  <2>1. TensorizeSample(r, Config(o)) = e /\ t.messages \in Seq(Message)
        /\ sample = RolloutToSlimeTrainSample(r, Config(o))
    BY <1>4, <1>5, <1>9, <1>10, <1>11, <1>14
  <2> QED
    BY <1>14, <1>16, <1>17, <2>1, BridgeIs
<1>19. e.metadata.run = d
  BY <1>11, <1>14, <1>16 DEF Encoded
<1> QED
  BY <1>4, <1>5, <1>11, <1>12, <1>14, <1>15, <1>18, <1>19

(* The verify command computes the build again and compares it with        *)
(* itself.                                                                 *)
LEMMA VerifyFollows ==
  ASSUME PrepInvariant, NEW o \in Options, VerifyCommand(o), PreparedFrom(o)
  PROVE  verdict' = "ok"
<1> DEFINE filter == [o.filter EXCEPT !.verifier_passed = "none"]
           dirs == {d \in Discovered : PassesFilters(Loaded(d), filter)}
           loaded == [d \in dirs |-> Loaded(d)]
<1>1. PICK p \in Options : \E all, ordered, tokenized : OnDisk(p, all, ordered, tokenized)
  BY VerifiedOnDisk DEF PreparedFrom
<1>2. PICK all, ordered, tokenized : OnDisk(p, all, ordered, tokenized)
  BY <1>1
<1>3. Config(p) = Config(o)
  BY <1>2 DEF OnDisk, PreparedFrom
<1>4. filter = o.filter
  <2>1. o.filter \in [include_failed : BOOLEAN, verifier_passed : {"none", "true", "false"}]
    BY TrainingPrepConstants DEF Options
  <2> QED
    BY <2>1 DEF PreparedFrom
<1>5. PICK samples : samples = CollectDatasetRecords(o.filter)
  OBVIOUS
<1>6. /\ ValidateExamples(tokenized, "tokenized") = {}
      /\ tokenized = Tensorize(OrderSamples(samples), Config(o))
  BY <1>2, <1>3, <1>5 DEF OnDisk, PreparedFrom
<1>7. samples = Dataset(loaded)
  BY <1>4, <1>5 DEF CollectDatasetRecords
<1>8. \A d \in dirs : d \in Discovered /\ PassesFilters(Loaded(d), filter)
  OBVIOUS
<1>9. DOMAIN loaded = dirs /\ loaded = [d \in DOMAIN loaded |-> loaded[d]]
      /\ \A d \in dirs : loaded[d] = Loaded(d)
  OBVIOUS
<1>10. \A d \in dirs : source[d].trajectory.state = "whole"
  <2>1. \A d \in Discovered : d \in Dirs /\ source[d].trajectory \notin {Absent, Torn}
    BY DEF PreparedFrom, Unloadable, Discovered
  <2> QED
    BY <2>1 DEF PrepInvariant, ShapeFacts, Whole
<1>11. CollectDatasetRecords([o.filter EXCEPT !.verifier_passed = None]) = samples
  BY <1>4, <1>5
<1> HIDE DEF loaded, dirs, filter
<1>12. Admitted(loaded, filter)
  BY <1>8, <1>9, <1>10 DEF Admitted
<1>13. Readable(loaded)
  BY <1>12, AdmittedIsReadable DEF PrepInvariant
<1>14. VerifyDatasetDir(DatasetManifest(samples), Rollouts(samples), samples, Config(o),
                        o.max_length) = {}
  BY <1>6, <1>7, <1>13, VerifyNoIssue
<1>15. ~Unloadable
  BY DEF PreparedFrom
<1> QED
  BY <1>11, <1>14, <1>15 DEF VerifyCommand

-----------------------------------------------------------------------------
(* What is proved of every sequence of commands.                           *)

(* The inductive invariant holds in every reachable state.                 *)
THEOREM PrepInvariantHolds == Spec => []PrepInvariant
<1>1. Init => PrepInvariant
  BY DEF Init, PrepInvariant, ShapeFacts, JobFacts, ProgressFacts, ManifestFacts,
         OutcomeMatchesManifest, AcceptedFacts, Idle, Reading, Building, StepOfPrep, After,
         File, Absent
<1> QED
  BY <1>1, PrepStepKeeps, PTL DEF Spec

(* A prep that reports success leaves a bundle that verifies, and one that *)
(* its contract rejected leaves no manifest (training_prep.py:             *)
(* prepare_slime_training_input; training_bundle.py unlinks the manifest   *)
(* first and writes it last).                                              *)
THEOREM OutcomesMatchManifests == Spec => []OutcomeMatchesManifest
<1>1. PrepInvariant => OutcomeMatchesManifest
  BY DEF PrepInvariant
<1> QED
  BY <1>1, PrepInvariantHolds, PTL

(* A manifest that verifies never vouches for a mixture of two builds:     *)
(* the artifacts beside it are one accepted build of admitted runs         *)
(* (training_bundle.py: verify_training_bundle_manifest).                  *)
THEOREM VerifiedBundlesAreBuilds == Spec => []VerifiedIsBuild
<1>1. PrepInvariant => VerifiedIsBuild
  BY VerifiedFollows
<1> QED
  BY <1>1, PrepInvariantHolds, PTL

(* And it holds together: the tokens are those of the samples under the    *)
(* configuration beside them, the packs hold each sample exactly once, the *)
(* report found no issue and each sample is of an admitted run             *)
(* (training_prep.py, training_bundle.py, packing.py: pack_examples).      *)
THEOREM VerifiedBundlesAreOneBuild == Spec => []VerifiedBundleIsOneBuild
<1>1. PrepInvariant => VerifiedBundleIsOneBuild
  BY OneBuildFollows
<1> QED
  BY <1>1, PrepInvariantHolds, PTL

(* For any trajectories, options and tokenizer, the labels of a verified   *)
(* bundle train on exactly the tokens that cover a tool call of the run    *)
(* that the span names (serialization.py, loss_mask.py, tensorization.py:  *)
(* align_character_mask_to_tokens; packing.py).                            *)
THEOREM VerifiedBundlesTrainCalls == Spec => []TrainedTokensAreCalls
<1>1. PrepInvariant => TrainedTokensAreCalls
  BY TokensFollow
<1> QED
  BY <1>1, PrepInvariantHolds, PTL

(* What a prep accepted the trainer consumes: its bridge raises for none   *)
(* but the runs without a call, and its window keeps every trained token   *)
(* (slime_bridge.py: rollout_to_slime_train_sample).                       *)
THEOREM AcceptedBundlesAreConsumable == Spec => []AcceptedIsConsumable
<1>1. PrepInvariant => AcceptedIsConsumable
  BY ConsumableFollows
<1> QED
  BY <1>1, PrepInvariantHolds, PTL

(* The verify command, on the runs and options of an accepted prep, finds  *)
(* no issue (contract.py: verify_dataset_dir, verify_prepared_bundle).     *)
THEOREM VerificationsAgree == Spec => VerifyAgrees
<1>1. PrepInvariant /\ [Next]_vars
        => [\A o \in Options : VerifyCommand(o) /\ PreparedFrom(o) => verdict' = "ok"]_vars
  BY VerifyFollows
<1> QED
  BY <1>1, PrepInvariantHolds, PTL DEF VerifyAgrees, Spec

-----------------------------------------------------------------------------
(* Schema-following data.                                                  *)

(* Of some positions of a sequence there is a last one.                    *)
LEMMA LastOf ==
  ASSUME NEW n \in Nat, NEW S, S \subseteq 1..n, S # {}
  PROVE  Max(S) \in S /\ \A y \in S : Max(S) >= y
<1> DEFINE M == {m \in Nat : \E x \in S : x = n - m}
<1>1. PICK x \in S : TRUE
  OBVIOUS
<1>2. n - x \in M
  OBVIOUS
<1>3. PICK m \in M : \A k \in M : m <= k
  BY <1>2, Least
<1>4. n - m \in S
  OBVIOUS
<1>5. ASSUME NEW y \in S PROVE n - m >= y
  <2>1. n - y \in M /\ y \in Nat
    OBVIOUS
  <2>2. m <= n - y /\ m \in Nat
    BY <2>1, <1>3
  <2> QED BY <2>1, <2>2
<1>6. \E z \in S : \A y \in S : z >= y
  BY <1>4, <1>5
<1> HIDE DEF M
<1> QED BY <1>6 DEF Max

-----------------------------------------------------------------------------
(* What the exports recover after a run is what the runtime gave the       *)
(* handler: the two mappings of a call agree, in every profile.            *)
LEMMA MapIsInspect ==
  ASSUME NEW profile, NEW call,
         call.payload = Payload(call.payload.arguments, call.payload.input_text),
         \/ call.payload.input_text = NoText
         \/ DOMAIN call.payload.arguments = {} => call.payload.arguments = <<>>
  PROVE  MapCallPayload(profile, call.name, call.payload)
           = InspectCall(profile, call.name, call.payload)
<1> DEFINE object == call.payload.arguments
           text == call.payload.input_text
           view == GetTool(profile, call.name)[1]
           tool == Canonical(view.canonical_name)
<1>1. call.payload = Payload(object, text)
  OBVIOUS
<1>2. text # NoText /\ DOMAIN object = {} => object = <<>>
  OBVIOUS
<1>3. CASE GetTool(profile, call.name) = <<>>
  BY <1>3 DEF MapCallPayload, InspectCall
<1>4. CASE GetTool(profile, call.name) # <<>> /\ view.freeform
  <2>1. InspectCall(profile, call.name, call.payload)
          = {Intent(view.canonical_name, p) :
               p \in {q \in {call.payload} : text # NoText /\ DOMAIN object = {} /\ tool.freeform}}
    BY <1>4 DEF InspectCall
  <2>2. MapCallPayload(profile, call.name, call.payload)
          = IF (text # NoText /\ DOMAIN object # {}) \/ ~(view.freeform <=> tool.freeform)
               \/ ~(view.freeform <=> (text # NoText))
              THEN {} ELSE {Intent(view.canonical_name, Payload(<<>>, text))}
    BY <1>4 DEF MapCallPayload
  <2> HIDE DEF view, tool, object, text
  <2> QED BY <2>1, <2>2, <1>1, <1>2, <1>4
<1>5. CASE GetTool(profile, call.name) # <<>> /\ ~view.freeform
  <2>1. InspectCall(profile, call.name, call.payload)
          = {Intent(view.canonical_name, Payload(args, NoText)) :
               args \in IF text # NoText \/ tool.freeform THEN {}
                        ELSE MapArguments(profile.adapters[call.name], object, view.schema, tool.schema)}
    BY <1>5 DEF InspectCall
  <2>2. MapCallPayload(profile, call.name, call.payload)
          = IF (text # NoText /\ DOMAIN object # {}) \/ ~(view.freeform <=> tool.freeform)
               \/ ~(view.freeform <=> (text # NoText))
              THEN {}
              ELSE {Intent(view.canonical_name, Payload(args, NoText)) :
                      args \in MapArguments(profile.adapters[call.name], object, view.schema, tool.schema)}
    BY <1>5 DEF MapCallPayload
  <2> HIDE DEF view, tool, object, text
  <2>3. CASE text # NoText
    BY <2>1, <2>2, <2>3, <1>5
  <2>4. CASE text = NoText /\ tool.freeform
    BY <2>1, <2>2, <2>4, <1>5
  <2>5. CASE text = NoText /\ ~tool.freeform
    <3>1. (view.freeform <=> tool.freeform) /\ (view.freeform <=> (text # NoText))
      BY <2>5, <1>5
    <3>2. ~(text # NoText /\ DOMAIN object # {})
      BY <2>5
    <3>3. text = NoText /\ ~tool.freeform
      BY <2>5
    <3> QED BY <2>1, <2>2, <3>1, <3>2, <3>3, Zenon
  <2> QED BY <2>3, <2>4, <2>5
<1> QED BY <1>3, <1>4, <1>5

(* At most one intent is recovered from a call.                            *)
LEMMA MapIsOne ==
  ASSUME NEW profile, NEW name, NEW payload, NEW x \in MapCallPayload(profile, name, payload)
  PROVE  /\ MapCallPayload(profile, name, payload) = {x}
         /\ GetTool(profile, name) # <<>>
         /\ x.tool = GetTool(profile, name)[1].canonical_name
<1>1. GetTool(profile, name) # <<>>
  BY DEF MapCallPayload
<1> DEFINE view == GetTool(profile, name)[1]
           tool == Canonical(view.canonical_name)
           object == payload.arguments
           text == payload.input_text
           mapped == MapArguments(profile.adapters[name], object, view.schema, tool.schema)
<1>2. MapCallPayload(profile, name, payload)
        = IF (text # NoText /\ DOMAIN object # {}) \/ ~(view.freeform <=> tool.freeform)
             \/ ~(view.freeform <=> (text # NoText))
            THEN {}
            ELSE IF view.freeform THEN {Intent(view.canonical_name, Payload(<<>>, text))}
            ELSE {Intent(view.canonical_name, Payload(args, NoText)) : args \in mapped}
  BY <1>1 DEF MapCallPayload
<1>3. \E full : mapped \subseteq {full}
  BY DEF MapArguments
<1> HIDE DEF mapped, text, object, tool
<1>4. CASE view.freeform
  <2>1. x = Intent(view.canonical_name, Payload(<<>>, text))
        /\ MapCallPayload(profile, name, payload) = {x}
    BY <1>2, <1>4
  <2> QED BY <2>1, <1>1 DEF Intent
<1>5. CASE ~view.freeform
  <2>1. MapCallPayload(profile, name, payload)
          = {Intent(view.canonical_name, Payload(args, NoText)) : args \in mapped}
    BY <1>2, <1>5
  <2>2. PICK args \in mapped : x = Intent(view.canonical_name, Payload(args, NoText))
    BY <2>1
  <2>3. mapped = {args}
    BY <2>2, <1>3
  <2>4. MapCallPayload(profile, name, payload) = {x}
    BY <2>1, <2>2, <2>3
  <2> QED BY <2>2, <2>4, <1>1 DEF Intent
<1> QED BY <1>4, <1>5

-----------------------------------------------------------------------------
(* What holds of the calls of a run, and of the file that was exported.    *)

CallOK(id, call) ==
    /\ IsCall(call)
    /\ call.given = InspectCall(Profile(id), call.name, call.payload)

CallsOK(id, calls) ==
    /\ \E S : calls \in Seq(S)
    /\ \A i \in 1..Len(calls) : CallOK(id, calls[i])

ProfileIds == {<<mode, at>> : mode \in Modes, at \in 0..LastSeed}

OpenOK ==
    open # NoRun =>
      /\ open = [profile_id |-> open.profile_id, own |-> open.own, calls |-> open.calls]
      /\ open.profile_id \in ProfileIds
      /\ CallsOK(open.profile_id, open.calls)

RunsOK ==
    /\ \E S : runs \in Seq(S)
    /\ \A r \in 1..Len(runs) : /\ runs[r].profile_id \in ProfileIds
                               /\ CallsOK(runs[r].profile_id, runs[r].calls)

(* Every line is what the exporter makes of the call it names.             *)
TrainOK ==
    \A s \in train : /\ s.run \in 1..Len(runs) /\ s.step \in 1..Len(runs[s.run].calls)
                     /\ s \in ObservedSample(s.run, s.step)

SchemaInvariant == seed \in Seeds /\ OpenOK /\ RunsOK /\ TrainOK

(* The runs stay as they are, in a longer list.                            *)
Longer ==
    /\ Len(runs) <= Len(runs')
    /\ \A r \in 1..Len(runs) : r \in 1..Len(runs') /\ runs'[r] = runs[r]

LEMMA TrainStays ==
  ASSUME TrainOK, Longer, train' = train
  PROVE  TrainOK'
<1> SUFFICES ASSUME NEW s \in train
             PROVE  /\ s.run \in 1..Len(runs') /\ s.step \in 1..Len(runs'[s.run].calls)
                    /\ s \in ObservedSample(s.run, s.step)'
  BY DEF TrainOK
<1>1. /\ s.run \in 1..Len(runs) /\ s.step \in 1..Len(runs[s.run].calls)
      /\ s \in ObservedSample(s.run, s.step)
  BY DEF TrainOK
<1>2. s.run \in 1..Len(runs') /\ runs'[s.run] = runs[s.run]
  BY <1>1 DEF Longer
<1>3. ObservedSample(s.run, s.step)' = ObservedSample(s.run, s.step)
  BY <1>2 DEF ObservedSample, ObservedLine
<1> QED BY <1>1, <1>2, <1>3

(* What appending does to a sequence of any elements.                      *)
LEMMA AppendIs ==
  ASSUME NEW S, NEW s \in Seq(S), NEW x
  PROVE  /\ Append(s, x) \in Seq(S \cup {x}) /\ Len(Append(s, x)) = Len(s) + 1 /\ Len(s) \in Nat
         /\ \A i \in 1..Len(s) : i \in 1..Len(Append(s, x)) /\ Append(s, x)[i] = s[i]
         /\ Append(s, x)[Len(s) + 1] = x
<1>1. s \in Seq(S \cup {x}) /\ x \in S \cup {x}
  OBVIOUS
<1> QED BY <1>1

LEMMA AppendedOK ==
  ASSUME NEW id, NEW calls, CallsOK(id, calls), NEW call, CallOK(id, call)
  PROVE  CallsOK(id, Append(calls, call))
<1>1. PICK S : calls \in Seq(S)
  BY DEF CallsOK
<1>2. /\ Append(calls, call) \in Seq(S \cup {call})
      /\ Len(Append(calls, call)) = Len(calls) + 1 /\ Len(calls) \in Nat
      /\ \A i \in 1..Len(calls) : Append(calls, call)[i] = calls[i]
      /\ Append(calls, call)[Len(calls) + 1] = call
  BY <1>1, AppendIs
<1>3. PICK q : q = Append(calls, call)
  OBVIOUS
<1>4. \A i \in 1..Len(q) : i \in 1..Len(calls) \/ i = Len(calls) + 1
  BY <1>2, <1>3
<1>5. \A i \in 1..Len(q) : CallOK(id, q[i])
  BY <1>2, <1>3, <1>4 DEF CallsOK
<1>6. \E T : q \in Seq(T)
  BY <1>2, <1>3
<1> QED BY <1>3, <1>5, <1>6 DEF CallsOK

LEMMA InitOK ==
  ASSUME SchemaInit
  PROVE  SchemaInvariant
<1>1. runs = <<>> /\ train = {} /\ open = NoRun /\ seed \in Seeds
  BY DEF SchemaInit
<1>2. runs \in Seq({}) /\ Len(runs) = 0
  BY <1>1
<1> QED BY <1>1, <1>2 DEF SchemaInvariant, OpenOK, RunsOK, TrainOK

LEMMA StartRunKeeps ==
  ASSUME Parameters, SchemaInvariant, NEW mode \in Modes, NEW own, StartRun(mode, own)
  PROVE  SchemaInvariant'
<1>1. /\ open' = [profile_id |-> <<mode, seed>>, own |-> own, calls |-> <<>>]
      /\ runs' = runs /\ train' = train /\ seed' = seed
  BY DEF StartRun, config, dataset_files
<1>2. seed \in Seeds /\ seed \in 0..LastSeed
  BY DEF SchemaInvariant, Parameters
<1>3. CallsOK(open'.profile_id, open'.calls)
  <2>1. <<>> \in Seq({}) /\ Len(<<>>) = 0
    OBVIOUS
  <2> QED BY <2>1, <1>1 DEF CallsOK
<1>4. open'.profile_id \in ProfileIds
  BY <1>1, <1>2 DEF ProfileIds
<1>5. Longer
  BY <1>1 DEF SchemaInvariant, RunsOK, Longer
<1>6. TrainOK'
  BY <1>5, <1>1, TrainStays DEF SchemaInvariant
<1>7. OpenOK'
  BY <1>1, <1>3, <1>4 DEF OpenOK
<1>8. RunsOK'
  BY <1>1 DEF SchemaInvariant, RunsOK
<1> QED BY <1>1, <1>2, <1>6, <1>7, <1>8 DEF SchemaInvariant

LEMMA CallToolKeeps ==
  ASSUME Parameters, SchemaInvariant, open # NoRun,
         NEW call \in Calls(Profile(open.profile_id)), NEW result, CallTool(call, result)
  PROVE  SchemaInvariant'
<1> DEFINE given == InspectCall(Profile(open.profile_id), call.name, call.payload)
           id == CallId(open.own, Len(open.calls) + 1)
           made == [id |-> id, name |-> call.name,
                    payload |-> call.payload, given |-> given,
                    result |-> IF given = {} THEN InspectionError ELSE result]
<1>1. /\ open' = [open EXCEPT !.calls = Append(open.calls, made)]
      /\ runs' = runs /\ train' = train /\ seed' = seed
  BY DEF CallTool, config, dataset_files
<1>2. /\ open = [profile_id |-> open.profile_id, own |-> open.own, calls |-> open.calls]
      /\ open.profile_id \in ProfileIds
      /\ CallsOK(open.profile_id, open.calls)
  BY DEF SchemaInvariant, OpenOK
<1>3. IsCall(call)
  <2>1. PICK mode \in Modes, at \in 0..LastSeed : open.profile_id = <<mode, at>>
    BY <1>2 DEF ProfileIds
  <2> DEFINE profile == Profile(<<mode, at>>)
  <2>2. \A c \in Calls(profile) \cup Predictions(profile) \cup Predictions(BaselineEntry(profile)) :
           IsCall(c)
    BY <2>1 DEF Parameters
  <2> QED BY <2>1, <2>2
<1>4. CallOK(open.profile_id, made)
  <2>1. IsCall(made)
    <3> HIDE DEF given, id
    <3> QED BY <1>3 DEF IsCall
  <2> QED BY <2>1 DEF CallOK
<1> HIDE DEF made
<1>5. /\ open' = [profile_id |-> open.profile_id, own |-> open.own,
                  calls |-> Append(open.calls, made)]
  BY <1>1, <1>2
<1>6. CallsOK(open.profile_id, Append(open.calls, made))
  BY <1>2, <1>4, AppendedOK
<1>7. OpenOK'
  BY <1>2, <1>5, <1>6 DEF OpenOK
<1>8. Longer
  BY <1>1 DEF SchemaInvariant, RunsOK, Longer
<1>9. TrainOK'
  BY <1>8, <1>1, TrainStays DEF SchemaInvariant
<1>10. RunsOK'
  BY <1>1 DEF SchemaInvariant, RunsOK
<1> QED BY <1>1, <1>7, <1>9, <1>10 DEF SchemaInvariant

LEMMA SchemaFinishRunKeeps ==
  ASSUME SchemaInvariant, NEW status, CloseRun(status)
  PROVE  SchemaInvariant'
<1> DEFINE run == [profile_id |-> open.profile_id, calls |-> open.calls, status |-> status]
<1>1. /\ open # NoRun /\ open' = NoRun /\ runs' = Append(runs, run)
      /\ train' = train /\ seed' = seed
  BY DEF CloseRun, config, dataset_files
<1>2. /\ run.profile_id = open.profile_id /\ run.calls = open.calls
      /\ open.profile_id \in ProfileIds /\ CallsOK(open.profile_id, open.calls)
  BY <1>1 DEF SchemaInvariant, OpenOK
<1> HIDE DEF run
<1>3. PICK S : runs \in Seq(S)
  BY DEF SchemaInvariant, RunsOK
<1>4. /\ runs' \in Seq(S \cup {run}) /\ Len(runs') = Len(runs) + 1 /\ Len(runs) \in Nat
      /\ \A r \in 1..Len(runs) : r \in 1..Len(runs') /\ runs'[r] = runs[r]
      /\ runs'[Len(runs) + 1] = run
  BY <1>1, <1>3, AppendIs
<1>5. \A r \in 1..Len(runs') : r \in 1..Len(runs) \/ r = Len(runs) + 1
  BY <1>4
<1>6. \A r \in 1..Len(runs') : /\ runs'[r].profile_id \in ProfileIds
                               /\ CallsOK(runs'[r].profile_id, runs'[r].calls)
  BY <1>2, <1>4, <1>5 DEF SchemaInvariant, RunsOK
<1>7. RunsOK'
  BY <1>4, <1>6 DEF RunsOK
<1>8. Longer
  BY <1>4 DEF Longer
<1>9. TrainOK'
  BY <1>8, <1>1, TrainStays DEF SchemaInvariant
<1>10. OpenOK'
  BY <1>1 DEF OpenOK
<1> QED BY <1>1, <1>7, <1>9, <1>10 DEF SchemaInvariant

(* An export replaces the file by what the finished runs give.             *)
LEMMA ExportObservedKeeps ==
  ASSUME SchemaInvariant, NEW include_failed, ExportObserved(include_failed)
  PROVE  SchemaInvariant'
<1>1. /\ train' = ObservedSamples(include_failed)
      /\ open' = open /\ runs' = runs /\ seed' = seed
  BY DEF ExportObserved, config
<1>2. ASSUME NEW s \in train'
      PROVE  /\ s.run \in 1..Len(runs) /\ s.step \in 1..Len(runs[s.run].calls)
             /\ s \in ObservedSample(s.run, s.step)
  <2>1. PICK at \in Steps(include_failed) : s \in ObservedSample(at[1], at[2])
    BY <1>1 DEF ObservedSamples
  <2>2. PICK r \in DOMAIN runs : at \in {<<r, j>> : j \in DOMAIN runs[r].calls}
    BY <2>1 DEF Steps
  <2>3. PICK j \in DOMAIN runs[r].calls : at = <<r, j>>
    BY <2>2
  <2>4. s.run = r /\ s.step = j
    BY <2>1, <2>3 DEF ObservedSample, ObservedLine
  <2>5. DOMAIN runs = 1..Len(runs)
    BY DEF SchemaInvariant, RunsOK
  <2>6. DOMAIN runs[r].calls = 1..Len(runs[r].calls)
    BY <2>5 DEF SchemaInvariant, RunsOK, CallsOK
  <2> QED BY <2>1, <2>2, <2>3, <2>4, <2>5, <2>6
<1>3. \A r, j : ObservedSample(r, j)' = ObservedSample(r, j)
  BY <1>1 DEF ObservedSample, ObservedLine
<1>4. TrainOK'
  BY <1>1, <1>2, <1>3 DEF TrainOK
<1>5. OpenOK' /\ RunsOK'
  BY <1>1 DEF SchemaInvariant, OpenOK, RunsOK
<1> QED BY <1>1, <1>4, <1>5 DEF SchemaInvariant

(* Every other step leaves the runs, the calls under way and the file.     *)
LEMMA OthersKeep ==
  ASSUME SchemaInvariant, UNCHANGED <<seed, open, runs, train>>
  PROVE  SchemaInvariant'
<1>1. Longer
  BY DEF SchemaInvariant, RunsOK, Longer
<1>2. TrainOK'
  BY <1>1, TrainStays DEF SchemaInvariant
<1>3. OpenOK' /\ RunsOK'
  BY DEF SchemaInvariant, OpenOK, RunsOK
<1> QED BY <1>2, <1>3 DEF SchemaInvariant

LEMMA NextKeeps ==
  ASSUME Parameters, SchemaInvariant, [SchemaNext]_schemaVars
  PROVE  SchemaInvariant'
<1>1. CASE \E mode \in Modes, own \in BOOLEAN : StartRun(mode, own)
  BY <1>1, StartRunKeeps
<1>2. CASE \E call \in IF open = NoRun THEN {} ELSE Calls(Profile(open.profile_id)), result \in Results :
              CallTool(call, result)
  <2>1. open # NoRun
    BY <1>2
  <2>2. PICK call \in Calls(Profile(open.profile_id)), result \in Results : CallTool(call, result)
    BY <1>2, <2>1
  <2> QED BY <2>1, <2>2, CallToolKeeps
<1>3. CASE \E status \in {"completed", "timeout"} : CloseRun(status)
  BY <1>3, SchemaFinishRunKeeps
<1>4. CASE \E include_failed \in BOOLEAN : ExportObserved(include_failed)
  BY <1>4, ExportObservedKeeps
<1>5. CASE WriteManifests
  BY <1>5, OthersKeep DEF WriteManifests, config
<1>6. CASE Crash
  BY <1>6, OthersKeep DEF Crash, config, dataset_files
<1>7. CASE GenerateSynthetic
  BY <1>7, OthersKeep DEF GenerateSynthetic, WriteBaseline, config,
     dataset_files
<1>8. CASE \E include_failed \in BOOLEAN : DeriveFromTrajectories(include_failed)
  BY <1>8, OthersKeep DEF DeriveFromTrajectories, WriteBaseline, config,
     dataset_files
<1>9. CASE EvaluateObserved \/ EvaluateBaseline \/ Reconcile
  BY <1>9, OthersKeep DEF EvaluateObserved, EvaluateBaseline, Reconcile,
     config, dataset_files
<1>10. CASE UNCHANGED schemaVars
  BY <1>10, OthersKeep DEF schemaVars
<1> QED
  BY <1>1, <1>2, <1>3, <1>4, <1>5, <1>6, <1>7, <1>8, <1>9, <1>10 DEF SchemaNext

(* One exported line: it names a call of a finished run, its intent is the *)
(* one recovered from that call, and the call is what the intent projects  *)
(* to.                                                                     *)
LEMMA LineIs ==
  ASSUME SchemaInvariant, NEW s \in train
  PROVE  LET run == runs[s.run]
             call == run.calls[s.step]
             profile == Profile(run.profile_id)
         IN  /\ s.run \in 1..Len(runs) /\ s.step \in 1..Len(run.calls)
             /\ s.profile_id = run.profile_id /\ run.profile_id \in ProfileIds
             /\ CallsOK(run.profile_id, run.calls)
             /\ IsCall(call) /\ call.given = InspectCall(profile, call.name, call.payload)
             /\ s.intent \in MapCallPayload(profile, call.name, call.payload)
             /\ s.target = [name |-> call.name, payload |-> call.payload]
             /\ s.target \in ProjectCanonicalPayload(profile, s.intent)
             /\ s.call_id = call.id
             /\ s.result_ok = LastWith(run.calls, call.id).result.ok
             /\ s.provenance = ExecutionProvenance(run.calls, call.id)
<1> DEFINE run == runs[s.run]
           call == run.calls[s.step]
           profile == Profile(run.profile_id)
           target == [name |-> call.name, payload |-> call.payload]
<1>1. /\ s.run \in 1..Len(runs) /\ s.step \in 1..Len(run.calls)
      /\ s \in ObservedSample(s.run, s.step)
  BY DEF SchemaInvariant, TrainOK
<1>2. run.profile_id \in ProfileIds /\ CallsOK(run.profile_id, run.calls)
  BY <1>1 DEF SchemaInvariant, RunsOK
<1>3. IsCall(call) /\ call.given = InspectCall(profile, call.name, call.payload)
  BY <1>1, <1>2 DEF CallsOK, CallOK
<1>4. PICK intent \in MapCallPayload(profile, call.name, call.payload) :
        /\ target \in ProjectCanonicalPayload(profile, intent)
        /\ s = [run |-> s.run, step |-> s.step, profile_id |-> run.profile_id, intent |-> intent,
                call_id |-> call.id, target |-> target,
                freeform |-> GetTool(profile, call.name)[1].freeform,
                result_ok |-> LastWith(run.calls, call.id).result.ok,
                provenance |-> ExecutionProvenance(run.calls, call.id)]
  BY <1>1 DEF ObservedSample, ObservedLine
<1>5. /\ s.intent = intent /\ s.target = target /\ s.profile_id = run.profile_id
      /\ s.call_id = call.id /\ s.result_ok = LastWith(run.calls, call.id).result.ok
      /\ s.provenance = ExecutionProvenance(run.calls, call.id)
  <2> HIDE DEF target, profile, call, run
  <2> QED BY <1>4
<1> QED BY <1>1, <1>2, <1>3, <1>4, <1>5

LEMMA ExportedFollows ==
  ASSUME SchemaInvariant
  PROVE  ExportedIsExecuted
<1> SUFFICES ASSUME NEW s \in train
             PROVE  /\ OwnCall(s).given = {s.intent}
                    /\ IdsDiffer(runs[s.run]) => s.result_ok = OwnCall(s).result.ok
  BY DEF ExportedIsExecuted
<1> DEFINE calls == runs[s.run].calls
           call == calls[s.step]
           profile == Profile(runs[s.run].profile_id)
           named == {i \in DOMAIN calls : calls[i].id = call.id}
<1>1. /\ s.step \in 1..Len(calls) /\ CallsOK(runs[s.run].profile_id, calls)
      /\ IsCall(call) /\ call.given = InspectCall(profile, call.name, call.payload)
      /\ s.intent \in MapCallPayload(profile, call.name, call.payload)
      /\ s.result_ok = LastWith(calls, call.id).result.ok
  BY LineIs
<1>2. call.given = {s.intent}
  <2> HIDE DEF call, profile
  <2>1. MapCallPayload(profile, call.name, call.payload)
          = InspectCall(profile, call.name, call.payload)
    BY <1>1, MapIsInspect DEF IsCall
  <2>2. MapCallPayload(profile, call.name, call.payload) = {s.intent}
    BY <1>1, MapIsOne
  <2> QED BY <1>1, <2>1, <2>2
<1>3. DOMAIN calls = 1..Len(calls) /\ Len(calls) \in Nat
  BY <1>1 DEF CallsOK
<1>4. ASSUME IdsDiffer(runs[s.run])
      PROVE  s.result_ok = call.result.ok
  <2>1. s.step \in named /\ named \subseteq 1..Len(calls)
    BY <1>1, <1>3
  <2>2. \A i \in named : i = s.step
    BY <1>1, <1>3, <1>4 DEF IdsDiffer
  <2>3. Max(named) \in named
    BY <2>1, <1>3, LastOf
  <2>4. LastWith(calls, call.id) = calls[Max(named)]
    BY DEF LastWith
  <2> HIDE DEF named
  <2> QED BY <1>1, <2>2, <2>3, <2>4
<1> QED BY <1>2, <1>4 DEF OwnCall

(* What reconciliation can tell calls apart by, and a sample whose run has *)
(* calls under its id that differ in it.                                   *)
Told(call) == <<call.name, Provenance(call.result)>>

Mixes(s) ==
    LET calls == runs[s.run].calls
    IN  \E i, j \in DOMAIN calls : /\ calls[i].id = s.call_id /\ calls[j].id = s.call_id
                                  /\ Told(calls[i]) # Told(calls[j])

(* Under one call id the run holds a last call and the one of its event,   *)
(* and both are calls with that id.                                        *)
LEMMA HeldUnderId ==
  ASSUME NEW calls, NEW id, DOMAIN calls = 1..Len(calls), Len(calls) \in Nat,
         NEW step \in 1..Len(calls), calls[step].id = id, calls[step].given # {}
  PROVE  /\ \E i \in DOMAIN calls : calls[i].id = id /\ LastWith(calls, id) = calls[i]
         /\ \E i \in DOMAIN calls : calls[i].id = id /\ ExecutionEvent(calls, id) = calls[i]
<1> DEFINE named == {i \in DOMAIN calls : calls[i].id = id}
           executed == {i \in DOMAIN calls : calls[i].id = id /\ calls[i].given # {}}
           failed == {i \in executed : ~calls[i].result.ok}
           choice == IF failed # {} THEN failed ELSE executed
<1>1. step \in named /\ named \subseteq 1..Len(calls) /\ step \in executed
  OBVIOUS
<1>2. Max(named) \in named
  BY <1>1, LastOf
<1>3. LastWith(calls, id) = calls[Max(named)]
  BY DEF LastWith
<1>4. choice # {} /\ choice \subseteq named /\ choice \subseteq 1..Len(calls)
  BY <1>1
<1>5. Max(choice) \in choice
  BY <1>4, LastOf
<1>6. ExecutionEvent(calls, id) = calls[Max(choice)]
  BY DEF ExecutionEvent
<1>7. Max(choice) \in named
  BY <1>4, <1>5
<1>8. \A i \in named : i \in DOMAIN calls /\ calls[i].id = id
  OBVIOUS
<1> HIDE DEF named, choice
<1> QED BY <1>2, <1>3, <1>6, <1>7, <1>8

(* When reconciliation says nothing of a sample.                           *)
LEMMA NoComplaint ==
  ASSUME NEW s
  PROVE  LET calls == runs[s.run].calls
             last == LastWith(calls, s.call_id)
             event == ExecutionEvent(calls, s.call_id)
             OfAnotherTool(call) ==
               LET view == GetTool(Profile(runs[s.run].profile_id), call.name)
               IN  view = <<>> \/ Head(view).canonical_name # s.intent.tool
         IN  ReconcileSample(s) = {}
               <=> /\ s.target.name = last.name
                   /\ ~OfAnotherTool(last) /\ ~OfAnotherTool(event)
                   /\ \A field \in ProvenanceFields : s.provenance[field] = last.result[field]
                   /\ s.result_ok = last.result.ok
<1> DEFINE calls == runs[s.run].calls
           last == LastWith(calls, s.call_id)
           event == ExecutionEvent(calls, s.call_id)
           OfAnotherTool(call) ==
             LET view == GetTool(Profile(runs[s.run].profile_id), call.name)
             IN  view = <<>> \/ Head(view).canonical_name # s.intent.tool
           Says(reason) ==
             CASE reason = "exposed_name_mismatch" -> s.target.name # last.name
               [] reason = "canonical_name_mismatch" -> OfAnotherTool(last) \/ OfAnotherTool(event)
               [] reason = "execution_kind_mismatch" ->
                    s.provenance["execution_kind"] # last.result["execution_kind"]
               [] reason = "policy_decision_mismatch" ->
                    s.provenance["policy_decision"] # last.result["policy_decision"]
               [] reason = "policy_reason_code_mismatch" ->
                    s.provenance["policy_reason_code"] # last.result["policy_reason_code"]
               [] OTHER -> s.result_ok # last.result.ok
<1>1. ReconcileSample(s)
        = {reason \in {"exposed_name_mismatch", "canonical_name_mismatch", "execution_kind_mismatch",
                       "policy_decision_mismatch", "policy_reason_code_mismatch",
                       "tool_result_status_mismatch"} : Says(reason)}
  BY DEF ReconcileSample
<1>2. /\ Says("exposed_name_mismatch") <=> s.target.name # last.name
      /\ Says("canonical_name_mismatch") <=> OfAnotherTool(last) \/ OfAnotherTool(event)
      /\ Says("execution_kind_mismatch")
           <=> s.provenance["execution_kind"] # last.result["execution_kind"]
      /\ Says("policy_decision_mismatch")
           <=> s.provenance["policy_decision"] # last.result["policy_decision"]
      /\ Says("policy_reason_code_mismatch")
           <=> s.provenance["policy_reason_code"] # last.result["policy_reason_code"]
      /\ Says("tool_result_status_mismatch") <=> s.result_ok # last.result.ok
  <2> HIDE DEF last, event, OfAnotherTool, calls
  <2> QED OBVIOUS
<1> HIDE DEF Says, last, event, OfAnotherTool, calls
<1>3. ReconcileSample(s) = {}
        <=> /\ ~Says("exposed_name_mismatch") /\ ~Says("canonical_name_mismatch")
            /\ ~Says("execution_kind_mismatch") /\ ~Says("policy_decision_mismatch")
            /\ ~Says("policy_reason_code_mismatch") /\ ~Says("tool_result_status_mismatch")
  BY <1>1, Zenon
<1>4. (\A field \in ProvenanceFields : s.provenance[field] = last.result[field])
        <=> /\ s.provenance["execution_kind"] = last.result["execution_kind"]
            /\ s.provenance["policy_decision"] = last.result["policy_decision"]
            /\ s.provenance["policy_reason_code"] = last.result["policy_reason_code"]
  BY DEF ProvenanceFields
<1>5. ReconcileSample(s) = {}
        <=> /\ s.target.name = last.name
            /\ ~OfAnotherTool(last) /\ ~OfAnotherTool(event)
            /\ \A field \in ProvenanceFields : s.provenance[field] = last.result[field]
            /\ s.result_ok = last.result.ok
  BY <1>2, <1>3, <1>4
<1> QED BY <1>5 DEF last, event, OfAnotherTool, calls

LEMMA ReconciliationFollows ==
  ASSUME SchemaInvariant
  PROVE  ReconciledIsOneCall
<1> SUFFICES ASSUME NEW s \in train
             PROVE  LET last == LastWith(runs[s.run].calls, s.call_id)
                    IN  /\ ReconcileSample(s) = {} =>
                             /\ last.name = s.target.name /\ last.result.ok = s.result_ok
                             /\ Provenance(last.result) = s.provenance
                        /\ ReconcileSample(s) # {} => Mixes(s)
  BY DEF ReconciledIsOneCall, Mixes, Told
<1> DEFINE calls == runs[s.run].calls
           call == calls[s.step]
           profile == Profile(runs[s.run].profile_id)
           last == LastWith(calls, s.call_id)
           event == ExecutionEvent(calls, s.call_id)
           OfAnotherTool(c) == LET view == GetTool(profile, c.name)
                               IN  view = <<>> \/ Head(view).canonical_name # s.intent.tool
<1>1. /\ s.step \in 1..Len(calls) /\ CallsOK(runs[s.run].profile_id, calls)
      /\ IsCall(call) /\ call.given = InspectCall(profile, call.name, call.payload)
      /\ s.intent \in MapCallPayload(profile, call.name, call.payload)
      /\ s.target = [name |-> call.name, payload |-> call.payload]
      /\ s.call_id = call.id
      /\ s.result_ok = LastWith(calls, call.id).result.ok
      /\ s.provenance = ExecutionProvenance(calls, call.id)
  BY LineIs
<1>2. DOMAIN calls = 1..Len(calls) /\ Len(calls) \in Nat
  BY <1>1 DEF CallsOK
<1>3. ReconcileSample(s) = {}
        <=> /\ s.target.name = last.name
            /\ ~OfAnotherTool(last) /\ ~OfAnotherTool(event)
            /\ \A field \in ProvenanceFields : s.provenance[field] = last.result[field]
            /\ s.result_ok = last.result.ok
  BY NoComplaint
<1>4. s.provenance = [field \in ProvenanceFields |->
                        IF last.result[field] # NoValue THEN last.result[field] ELSE event.result[field]]
  BY <1>1 DEF ExecutionProvenance
<1>5. s.target.name = call.name /\ s.result_ok = last.result.ok
  BY <1>1
<1>6. call.given # {}
  <2> HIDE DEF call, profile
  <2>1. MapCallPayload(profile, call.name, call.payload)
          = InspectCall(profile, call.name, call.payload)
    BY <1>1, MapIsInspect DEF IsCall
  <2> QED BY <1>1, <2>1
<1>7. \E view : GetTool(profile, call.name) = <<view>> /\ view.canonical_name = s.intent.tool
  <2> HIDE DEF call, profile
  <2>1. /\ GetTool(profile, call.name) # <<>>
        /\ s.intent.tool = GetTool(profile, call.name)[1].canonical_name
    BY <1>1, MapIsOne
  <2>2. \E view : GetTool(profile, call.name) = <<view>>
    BY <2>1 DEF GetTool
  <2> QED BY <2>1, <2>2
<1>8. /\ \E i \in DOMAIN calls : calls[i].id = s.call_id /\ last = calls[i]
      /\ \E i \in DOMAIN calls : calls[i].id = s.call_id /\ event = calls[i]
  <2>1. calls[s.step].id = s.call_id /\ calls[s.step].given # {} /\ s.step \in 1..Len(calls)
    BY <1>1, <1>6
  <2> HIDE DEF calls
  <2> QED BY <1>2, <2>1, HeldUnderId
<1>9. ASSUME ReconcileSample(s) = {}
      PROVE  /\ last.name = s.target.name /\ last.result.ok = s.result_ok
             /\ Provenance(last.result) = s.provenance
  <2> HIDE DEF last, event, OfAnotherTool
  <2> QED BY <1>3, <1>4, <1>9 DEF Provenance
<1>10. ASSUME ~Mixes(s)
       PROVE  ReconcileSample(s) = {}
  <2>1. \A i, j \in DOMAIN calls :
           calls[i].id = s.call_id /\ calls[j].id = s.call_id => Told(calls[i]) = Told(calls[j])
    BY <1>10 DEF Mixes
  <2>2. s.step \in DOMAIN calls /\ calls[s.step].id = s.call_id
    BY <1>1, <1>2
  <2>3. Told(last) = Told(call) /\ Told(event) = Told(last)
    <3> HIDE DEF last, event, calls
    <3> QED BY <1>8, <2>1, <2>2
  <2> HIDE DEF last, event, call, calls, profile
  <2>4. /\ last.name = call.name /\ event.name = call.name
        /\ Provenance(event.result) = Provenance(last.result)
    BY <2>3 DEF Told
  <2>5. \A field \in ProvenanceFields : event.result[field] = last.result[field]
    BY <2>4 DEF Provenance
  <2>6. \A field \in ProvenanceFields : s.provenance[field] = last.result[field]
    BY <1>4, <2>5
  <2>7. ~OfAnotherTool(last) /\ ~OfAnotherTool(event)
    BY <1>7, <2>4
  <2> HIDE DEF OfAnotherTool
  <2> QED BY <1>3, <1>5, <2>4, <2>6, <2>7
<1> HIDE DEF last
<1> QED BY <1>9, <1>10 DEF last

-----------------------------------------------------------------------------
(* Verdicts.                                                               *)

(* An intent projects to the one view of its tool, with a payload.         *)
LEMMA TargetIs ==
  ASSUME NEW profile, NEW intent, NEW target \in ProjectCanonicalPayload(profile, intent)
  PROVE  /\ LET matches == {i \in DOMAIN profile.tools :
                              profile.tools[i].canonical_name = intent.tool}
            IN  \E k \in matches : matches = {k} /\ target.name = profile.tools[k].exposed_name
         /\ target.payload = Payload(target.payload.arguments, target.payload.input_text)
<1> DEFINE matches == {i \in DOMAIN profile.tools : profile.tools[i].canonical_name = intent.tool}
           view == profile.tools[CHOOSE i \in matches : TRUE]
           tool == Canonical(view.canonical_name)
           text == intent.payload.input_text
           object == intent.payload.arguments
           args == ToExposedArgs(profile.adapters[view.exposed_name], object, view.schema, tool.schema)
<1>1. ProjectCanonicalPayload(profile, intent)
        = IF ~\E i \in matches : matches = {i} THEN {}
          ELSE IF (text # NoText /\ DOMAIN object # {}) \/ ~(view.freeform <=> tool.freeform)
                  \/ ~(view.freeform <=> (text # NoText)) THEN {}
          ELSE IF view.freeform THEN {[name |-> view.exposed_name, payload |-> Payload(<<>>, text)]}
          ELSE {[name |-> view.exposed_name, payload |-> Payload(a, NoText)] : a \in args}
  BY DEF ProjectCanonicalPayload
<1>2. PICK k \in matches : matches = {k}
  BY <1>1
<1>3. view = profile.tools[k]
  BY <1>2
<1> HIDE DEF matches, view, tool, text, object, args
<1>4. \E a, x : target = [name |-> view.exposed_name, payload |-> Payload(a, x)]
  BY <1>1
<1>5. PICK a, x : target = [name |-> view.exposed_name, payload |-> Payload(a, x)]
  BY <1>4
<1>6. target.name = view.exposed_name /\ target.payload = Payload(a, x)
  BY <1>5
<1>7. target.payload = Payload(target.payload.arguments, target.payload.input_text)
  BY <1>6 DEF Payload
<1> QED BY <1>2, <1>3, <1>6, <1>7 DEF matches

(* A call by the canonical name of an intent, that maps to this intent, is *)
(* the very call the intent projects to.                                   *)
LEMMA NotStale ==
  ASSUME NEW profile, NEW intent, NEW target \in ProjectCanonicalPayload(profile, intent),
         NEW payload, intent \in MapCallPayload(profile, intent.tool, payload)
  PROVE  target.name = intent.tool
<1> DEFINE named == {i \in DOMAIN profile.tools : profile.tools[i].exposed_name = intent.tool}
           first == {i \in named : \A j \in named : i <= j}
           matches == {i \in DOMAIN profile.tools : profile.tools[i].canonical_name = intent.tool}
<1>1. /\ GetTool(profile, intent.tool) # <<>>
      /\ intent.tool = GetTool(profile, intent.tool)[1].canonical_name
  BY MapIsOne
<1>2. PICK i \in first : GetTool(profile, intent.tool) = <<profile.tools[i]>>
  BY <1>1 DEF GetTool
<1>3. i \in matches /\ profile.tools[i].exposed_name = intent.tool
  BY <1>1, <1>2
<1>4. PICK k \in matches : matches = {k} /\ target.name = profile.tools[k].exposed_name
  BY TargetIs
<1> HIDE DEF matches
<1> QED BY <1>3, <1>4

(* An answer scored under the profile `given' is judged like the runtime   *)
(* judges it under `profile'.                                              *)
Verdict(s, profile, given, call) ==
    LET score == EvaluateSample(s, {call}, given)
    IN  /\ score.canonical_intent_ok
             <=> InspectCall(profile, call.name, call.payload) = {s.intent}
        /\ score.stale => ~score.canonical_intent_ok
        /\ call = s.target => score.error = NoError

(* The score of an answer without text, under a profile that maps it like  *)
(* the runtime's.                                                          *)
LEMMA ScoreIs ==
  ASSUME NEW s, ~s.freeform, NEW given, NEW profile,
         s.target \in ProjectCanonicalPayload(profile, s.intent),
         s.intent \in MapCallPayload(profile, s.target.name, s.target.payload),
         NEW call, call.payload = Payload(call.payload.arguments, call.payload.input_text),
         call.payload.input_text = NoText,
         MapCallPayload(given, call.name, call.payload)
           = MapCallPayload(profile, call.name, call.payload)
  PROVE  Verdict(s, profile, given, call)
<1> DEFINE score == EvaluateSample(s, {call}, given)
           mapped == MapCallPayload(given, call.name, call.payload)
           stale == call.name = s.intent.tool /\ call.name # s.target.name
           exact == call = s.target
           name_ok == call.name = s.target.name
<1>1. mapped = InspectCall(profile, call.name, call.payload)
  BY MapIsInspect
<1>2. GetTool(given, call.name) = <<>> => mapped = {}
  BY DEF MapCallPayload
<1>3. (CHOOSE c \in {call} : TRUE) = call /\ {call} # {}
  OBVIOUS
<1>4. Payload(call.payload.arguments, NoText) = call.payload
  OBVIOUS
<1>5. score = IF GetTool(given, call.name) = <<>>
                THEN Score(TRUE, FALSE, FALSE, FALSE, FALSE, stale, "unknown_tool_name")
              ELSE IF mapped = {}
                THEN Score(TRUE, name_ok, FALSE, FALSE, FALSE, stale, "schema_validation_error")
              ELSE Score(TRUE, name_ok, TRUE, mapped = {s.intent}, exact, stale,
                         IF mapped # {s.intent} THEN "canonical_intent_mismatch"
                         ELSE IF ~exact THEN "exact_text_mismatch" ELSE NoError)
  BY <1>3, <1>4 DEF EvaluateSample
<1>6. mapped = {s.intent} => ~stale
  <2> SUFFICES ASSUME mapped = {s.intent}, stale PROVE FALSE
    OBVIOUS
  <2>1. s.intent \in MapCallPayload(profile, s.intent.tool, call.payload)
    OBVIOUS
  <2>2. s.target.name = s.intent.tool
    BY <2>1, NotStale
  <2> QED BY <2>2
<1>7. exact => mapped = {s.intent}
  <2>1. MapCallPayload(profile, s.target.name, s.target.payload) = {s.intent}
    BY MapIsOne
  <2> QED BY <2>1
<1> HIDE DEF score, mapped, stale, exact, name_ok
<1>8. score.canonical_intent_ok <=> mapped = {s.intent}
  BY <1>2, <1>5 DEF Score
<1>9. score.stale <=> stale
  BY <1>5 DEF Score
<1>10. exact => score.error = NoError
  BY <1>2, <1>5, <1>7 DEF Score
<1> QED BY <1>1, <1>6, <1>8, <1>9, <1>10 DEF Verdict, score, exact

(* An answer is a call.                                                    *)
LEMMA AnswerIs ==
  ASSUME NEW s, NEW profile, NEW call \in Answers(s, profile),
         s.target.payload = Payload(s.target.payload.arguments, s.target.payload.input_text),
         \A c \in Predictions(profile) : IsCall(c)
  PROVE  call.payload = Payload(call.payload.arguments, call.payload.input_text)
<1>1. call = s.target \/ call = CanonicalIntentBaseline(s) \/ call \in Predictions(profile)
  BY DEF Answers
<1>2. CASE call = s.target
  BY <1>2
<1>3. CASE call = CanonicalIntentBaseline(s)
  BY <1>3 DEF CanonicalIntentBaseline, Payload
<1>4. CASE call \in Predictions(profile)
  BY <1>4 DEF IsCall
<1> QED BY <1>1, <1>2, <1>3, <1>4

(* In the profiles of the baselines every view has the kind of its tool.   *)
ViewsAgree(profile) ==
    /\ profile = [profile_id |-> profile.profile_id, mode |-> profile.mode,
                  tools |-> profile.tools, adapters |-> profile.adapters]
    /\ \A i \in DOMAIN profile.tools :
         LET v == profile.tools[i]
         IN  /\ v = [canonical_name |-> v.canonical_name, exposed_name |-> v.exposed_name,
                     description |-> v.description, freeform |-> v.freeform, schema |-> v.schema,
                     adapter |-> v.adapter, schema_variant_category |-> v.schema_variant_category]
             /\ v.freeform = Canonical(v.canonical_name).freeform

(* Reading every view of such a profile as one of a function tool changes  *)
(* nothing for a call without text.                                        *)
LEMMA EntryMapsAlike ==
  ASSUME NEW profile, ViewsAgree(profile), NEW name, NEW arguments
  PROVE  MapCallPayload(BaselineEntry(profile), name, Payload(arguments, NoText))
           = MapCallPayload(profile, name, Payload(arguments, NoText))
<1> DEFINE entry == BaselineEntry(profile)
           tools == profile.tools
           named == {i \in DOMAIN tools : tools[i].exposed_name = name}
           first == {i \in named : \A j \in named : i <= j}
           at == CHOOSE i \in first : TRUE
           view == tools[at]
           tool == Canonical(view.canonical_name)
           payload == Payload(arguments, NoText)
<1>1. /\ entry.adapters = profile.adapters
      /\ entry.tools = [i \in DOMAIN tools |-> [tools[i] EXCEPT !.freeform = FALSE]]
  BY DEF ViewsAgree, BaselineEntry
<1>2. /\ DOMAIN entry.tools = DOMAIN tools
      /\ \A i \in DOMAIN tools : /\ entry.tools[i].exposed_name = tools[i].exposed_name
                                 /\ entry.tools[i].canonical_name = tools[i].canonical_name
                                 /\ entry.tools[i].schema = tools[i].schema
                                 /\ ~entry.tools[i].freeform
  BY <1>1 DEF ViewsAgree
<1>3. named = {i \in DOMAIN entry.tools : entry.tools[i].exposed_name = name}
  BY <1>2
<1>4. /\ GetTool(profile, name) = IF first = {} THEN <<>> ELSE <<view>>
      /\ GetTool(entry, name) = IF first = {} THEN <<>> ELSE <<entry.tools[at]>>
  <2>1. GetTool(profile, name) = IF first = {} THEN <<>> ELSE <<view>>
    BY DEF GetTool
  <2> DEFINE named_ == {i \in DOMAIN entry.tools : entry.tools[i].exposed_name = name}
             first_ == {i \in named_ : \A j \in named_ : i <= j}
  <2>2. GetTool(entry, name)
          = IF first_ = {} THEN <<>> ELSE <<entry.tools[CHOOSE i \in first_ : TRUE]>>
    BY DEF GetTool
  <2>3. named_ = named
    BY <1>3
  <2> HIDE DEF named, named_, entry
  <2> QED BY <2>1, <2>2, <2>3
<1>5. CASE first = {}
  BY <1>4, <1>5 DEF MapCallPayload
<1>6. CASE first # {}
  <2> DEFINE args == MapArguments(profile.adapters[name], arguments, view.schema, tool.schema)
             read == entry.tools[at]
  <2>1. at \in DOMAIN tools
    BY <1>6
  <2>2. /\ read.canonical_name = view.canonical_name /\ read.schema = view.schema /\ ~read.freeform
        /\ view.freeform = tool.freeform
    BY <1>2, <2>1 DEF ViewsAgree
  <2>3. payload.arguments = arguments /\ payload.input_text = NoText
    BY DEF Payload
  <2>4. MapCallPayload(entry, name, payload)
          = IF tool.freeform THEN {}
            ELSE {Intent(view.canonical_name, Payload(a, NoText)) : a \in args}
    <3>1. GetTool(entry, name) # <<>> /\ GetTool(entry, name)[1] = read
      BY <1>4, <1>6
    <3> HIDE DEF read, view, payload, entry
    <3> QED BY <1>1, <2>2, <2>3, <3>1 DEF MapCallPayload
  <2>5. MapCallPayload(profile, name, payload)
          = IF tool.freeform THEN {}
            ELSE {Intent(view.canonical_name, Payload(a, NoText)) : a \in args}
    <3>1. GetTool(profile, name) # <<>> /\ GetTool(profile, name)[1] = view
      BY <1>4, <1>6
    <3> HIDE DEF view, payload
    <3> QED BY <2>2, <2>3, <3>1 DEF MapCallPayload
  <2> QED BY <2>4, <2>5
<1> QED BY <1>5, <1>6

BaselineModes == {"base", "name_only", "description_only", "schema_only", "name_description_schema"}

(* A specification of the profile plan has one of those modes and a seed   *)
(* that was searched.                                                      *)
LEMMA SpecIs ==
  ASSUME Parameters, seed \in Seeds, NEW specs \in ProfileSpecs, NEW k \in DOMAIN specs
  PROVE  specs[k].mode \in BaselineModes /\ specs[k].seed \in 0..LastSeed
<1> DEFINE S == [mode : BaselineModes, seed : 0..LastSeed]
<1>1. seed \in 0..LastSeed
  BY DEF Parameters
<1>2. \A mode, n : n \in NextSeed(mode, seed) => n \in 0..LastSeed
  <2> TAKE mode, n
  <2> HAVE n \in NextSeed(mode, seed)
  <2>1. n \in seed + 1 .. LastSeed
    BY DEF NextSeed
  <2> QED BY <1>1, <2>1
<1>3. \A mode \in BaselineModes, n \in 0..LastSeed :
         ProfileSpec(mode, n) \in S
  BY DEF ProfileSpec
<1> DEFINE Pair(mode, second) == <<ProfileSpec(mode, seed), ProfileSpec(mode, second)>>
<1>4. PICK n \in NextSeed("name_only", seed), d \in NextSeed("description_only", seed),
           x \in NextSeed("schema_only", seed) :
        specs = <<ProfileSpec("base", seed)>> \o Pair("name_only", n) \o Pair("description_only", d)
                  \o Pair("schema_only", x) \o <<ProfileSpec("name_description_schema", seed)>>
  BY DEF ProfileSpecs
<1> HIDE DEF S
<1>5. \A mode \in BaselineModes, m \in 0..LastSeed : Pair(mode, m) \in Seq(S)
  BY <1>1, <1>3
<1>6. /\ <<ProfileSpec("base", seed)>> \in Seq(S)
      /\ <<ProfileSpec("name_description_schema", seed)>> \in Seq(S)
  BY <1>1, <1>3 DEF BaselineModes
<1>7. /\ Pair("name_only", n) \in Seq(S) /\ Pair("description_only", d) \in Seq(S)
      /\ Pair("schema_only", x) \in Seq(S)
  BY <1>2, <1>4, <1>5 DEF BaselineModes
<1> HIDE DEF Pair
<1>8. specs \in Seq(S)
  BY <1>4, <1>6, <1>7
<1>9. specs[k] \in S
  BY <1>8
<1> QED BY <1>9 DEF S

(* Canonical names its tool.                                               *)
LEMMA CanonicalIs ==
  ASSUME Parameters, NEW i \in DOMAIN Tools
  PROVE  Canonical(Tools[i].canonical_name) = Tools[i]
<1>1. Tools[i] \in ToSet(Tools)
  BY DEF ToSet
<1>2. \A t, u \in ToSet(Tools) : t.canonical_name = u.canonical_name => t = u
  BY DEF Parameters
<1> QED BY <1>1, <1>2 DEF Canonical

LEMMA BaselineAgrees ==
  ASSUME Parameters, NEW spec, spec.mode \in BaselineModes, spec.seed \in 0..LastSeed
  PROVE  ViewsAgree(Profile(ProfileId(spec)))
<1> DEFINE profile == Profile(ProfileId(spec))
<1>1. ASSUME DOMAIN profile.tools = DOMAIN Tools,
             \A i \in DOMAIN Tools : \E name, description, candidate :
                profile.tools[i] = View(i, name, description, candidate),
             profile = [profile_id |-> profile.profile_id, mode |-> profile.mode,
                        tools |-> profile.tools, adapters |-> profile.adapters]
      PROVE  ViewsAgree(profile)
  <2> HIDE DEF profile
  <2> SUFFICES ASSUME NEW i \in DOMAIN Tools
               PROVE  LET v == profile.tools[i]
                      IN  /\ v = [canonical_name |-> v.canonical_name, exposed_name |-> v.exposed_name,
                                  description |-> v.description, freeform |-> v.freeform,
                                  schema |-> v.schema, adapter |-> v.adapter,
                                  schema_variant_category |-> v.schema_variant_category]
                          /\ v.freeform = Canonical(v.canonical_name).freeform
    BY <1>1 DEF ViewsAgree
  <2>1. PICK name, description, candidate : profile.tools[i] = View(i, name, description, candidate)
    BY <1>1
  <2>2. /\ profile.tools[i].canonical_name = Tools[i].canonical_name
        /\ profile.tools[i].freeform = Tools[i].freeform
    BY <2>1 DEF View
  <2>3. profile.tools[i].freeform = Canonical(profile.tools[i].canonical_name).freeform
    BY <2>2, CanonicalIs
  <2> QED BY <2>1, <2>3 DEF View
<1>2. CASE spec.mode = "base"
  <2> DEFINE views == [i \in DOMAIN Tools |->
                         View(i, Tools[i].canonical_name, "native", BaseCandidate(i))]
  <2>1. profile = NativeProfile(<<"schema_following_base", spec.seed>>)
    BY <1>2 DEF ProfileId, Profile, BaseProfiles
  <2>2. profile = [profile_id |-> <<"schema_following_base", spec.seed>>,
                   mode |-> "native_family_base", tools |-> views, adapters |-> AdaptersOf(views)]
    BY <2>1 DEF NativeProfile
  <2>3. \A i \in DOMAIN Tools : \E name, description, candidate :
           views[i] = View(i, name, description, candidate)
    OBVIOUS
  <2>4. DOMAIN views = DOMAIN Tools
    OBVIOUS
  <2> HIDE DEF views, profile
  <2>5. profile.tools = views /\ profile = [profile_id |-> profile.profile_id, mode |-> profile.mode,
                        tools |-> profile.tools, adapters |-> profile.adapters]
    BY <2>2
  <2>10. /\ DOMAIN profile.tools = DOMAIN Tools
         /\ \A i \in DOMAIN Tools : \E name, description, candidate :
               profile.tools[i] = View(i, name, description, candidate)
    BY <2>3, <2>4, <2>5
  <2>12. ViewsAgree(profile)
    BY <1>1, <2>10, <2>5
  <2> QED BY <2>12 DEF profile
<1>3. CASE spec.mode # "base"
  <2> DEFINE views == [i \in DOMAIN Tools |-> SelectToolVariant(i, spec.mode, spec.seed)]
  <2>1. spec.mode \in Modes /\ spec.mode # "tool_reorder" /\ spec.mode # "schema_following_base"
    BY <1>3 DEF BaselineModes, Modes
  <2>2. ProfileId(spec) = <<spec.mode, spec.seed>>
    BY <1>3 DEF ProfileId
  <2>3. profile = Profiles[<<spec.mode, spec.seed>>]
    BY <2>1, <2>2 DEF Profile
  <2>4. profile = Sample(spec.mode, spec.seed)
    BY <2>1, <2>3 DEF Profiles
  <2>5. ~ModeSpec(spec.mode).reorder
    BY <2>1 DEF ModeSpec
  <2>6. profile = [profile_id |-> <<spec.mode, spec.seed>>, mode |-> spec.mode,
                   tools |-> views, adapters |-> AdaptersOf(views)]
    BY <2>4, <2>5 DEF Sample
  <2>7. \A i \in DOMAIN Tools : \E name, description, candidate :
           views[i] = View(i, name, description, candidate)
    <3> TAKE i \in DOMAIN Tools
    <3>1. \E name, description, candidate :
            SelectToolVariant(i, spec.mode, spec.seed) = View(i, name, description, candidate)
      BY Zenon DEF SelectToolVariant
    <3> QED BY <3>1
  <2>8. DOMAIN views = DOMAIN Tools
    OBVIOUS
  <2> HIDE DEF views, profile
  <2>9. profile.tools = views /\ profile = [profile_id |-> profile.profile_id, mode |-> profile.mode,
                        tools |-> profile.tools, adapters |-> profile.adapters]
    BY <2>6
  <2>11. /\ DOMAIN profile.tools = DOMAIN Tools
         /\ \A i \in DOMAIN Tools : \E name, description, candidate :
               profile.tools[i] = View(i, name, description, candidate)
    BY <2>7, <2>8, <2>9
  <2>12. ViewsAgree(profile)
    BY <1>1, <2>11, <2>9
  <2> QED BY <2>12 DEF profile
<1> QED BY <1>2, <1>3

LEMMA VerdictFollows ==
  ASSUME Parameters, SchemaInvariant
  PROVE  VerdictIsRuntime
<1> SUFFICES ASSUME NEW e \in Evaluated, ~e.sample.freeform, NEW call \in Answers(e.sample, e.profile),
                    call.payload.input_text = NoText
             PROVE  LET score == EvaluateSample(e.sample, {call}, e.profile)
                    IN  /\ score.canonical_intent_ok
                             <=> InspectCall(Profile(e.sample.profile_id),
                                                    call.name, call.payload)
                                   = {e.sample.intent}
                        /\ score.stale => ~score.canonical_intent_ok
                        /\ call = e.sample.target => score.error = NoError
  BY DEF VerdictIsRuntime
<1> DEFINE s == e.sample
           profile == Profile(s.profile_id)
<1>1. \/ e.profile = profile /\ s \in train
      \/ /\ e.profile = BaselineEntry(profile)
         /\ \E specs \in ProfileSpecs : s \in BaselineSamples(specs, report.intents)
  <2>1. CASE report.kind = "observed evaluation"
    <3>1. PICK x \in train : e = [sample |-> x, profile |-> Profile(x.profile_id)]
      BY <2>1 DEF Evaluated
    <3> QED BY <3>1
  <2>2. CASE report.kind = "baseline evaluation"
    <3>1. PICK specs \in ProfileSpecs :
            e \in {[sample |-> x, profile |-> BaselineEntry(Profile(x.profile_id))] :
                     x \in BaselineSamples(specs, report.intents)}
      BY <2>2 DEF Evaluated
    <3> QED BY <3>1
  <2> QED BY <2>1, <2>2 DEF Evaluated
<1>2. CASE e.profile = profile /\ s \in train
  <2> DEFINE own == runs[s.run].calls[s.step]
  <2>1. /\ s.profile_id \in ProfileIds /\ IsCall(own)
        /\ s.intent \in MapCallPayload(profile, own.name, own.payload)
        /\ s.target = [name |-> own.name, payload |-> own.payload]
        /\ s.target \in ProjectCanonicalPayload(profile, s.intent)
    BY <1>2, LineIs
  <2>2. s.intent \in MapCallPayload(profile, s.target.name, s.target.payload)
    <3>1. s.target.name = own.name /\ s.target.payload = own.payload
      <4>1. s.target = [name |-> own.name, payload |-> own.payload]
        BY <2>1
      <4> HIDE DEF own, profile, s
      <4> QED BY <4>1
    <3>2. s.intent \in MapCallPayload(profile, own.name, own.payload)
      BY <2>1
    <3> HIDE DEF own, profile
    <3> QED BY <3>1, <3>2
  <2>3. PICK mode \in Modes, at \in 0..LastSeed : s.profile_id = <<mode, at>>
    <3>1. s.profile_id \in ProfileIds
      BY <2>1
    <3> QED BY <3>1 DEF ProfileIds
  <2>4. \A c \in Predictions(profile) : IsCall(c)
    BY <2>3 DEF Parameters
  <2>5. call.payload = Payload(call.payload.arguments, call.payload.input_text)
    <3>1. s.target.payload = Payload(s.target.payload.arguments, s.target.payload.input_text)
      <4>1. s.target \in ProjectCanonicalPayload(profile, s.intent)
        BY <2>1
      <4> HIDE DEF own, profile, s
      <4> QED BY <4>1, TargetIs
    <3> HIDE DEF profile, s
    <3> QED BY <1>2, <2>4, <3>1, AnswerIs DEF s
  <2>6. MapCallPayload(profile, call.name, call.payload)
          = MapCallPayload(e.profile, call.name, call.payload)
    BY <1>2
  <2>7. s.target \in ProjectCanonicalPayload(profile, s.intent)
    BY <2>1
  <2> HIDE DEF own, profile, s
  <2>8. Verdict(s, profile, e.profile, call)
    BY <2>2, <2>5, <2>6, <2>7, ScoreIs DEF s
  <2> QED BY <2>8 DEF Verdict, s, profile
<1>3. CASE /\ e.profile = BaselineEntry(profile)
           /\ \E specs \in ProfileSpecs : s \in BaselineSamples(specs, report.intents)
  <2>1. PICK specs \in ProfileSpecs : s \in BaselineSamples(specs, report.intents)
    BY <1>3
  <2>2. PICK k \in DOMAIN specs, intent \in report.intents :
          \E t \in RoundTrip(Profile(ProfileId(specs[k])), intent) :
             s = BaselineSample(specs[k], intent, t)
    BY <2>1 DEF BaselineSamples
  <2>11. PICK t \in RoundTrip(Profile(ProfileId(specs[k])), intent) :
           s = BaselineSample(specs[k], intent, t)
    BY <2>2
  <2>3. specs[k].mode \in BaselineModes /\ specs[k].seed \in 0..LastSeed
    BY SpecIs DEF SchemaInvariant
  <2>4. s.profile_id = ProfileId(specs[k]) /\ s.intent = intent /\ s.target = t
    BY <2>11 DEF BaselineSample
  <2>5. /\ s.target \in ProjectCanonicalPayload(profile, s.intent)
        /\ s.intent \in MapCallPayload(profile, s.target.name, s.target.payload)
    BY <2>4 DEF RoundTrip
  <2>6. PICK mode \in Modes \cup {"schema_following_base"} :
          s.profile_id = <<mode, specs[k].seed>>
    BY <2>3, <2>4 DEF ProfileId, BaselineModes, Modes
  <2>7. \A c \in Predictions(BaselineEntry(profile)) : IsCall(c)
    BY <2>3, <2>6 DEF Parameters
  <2>8. call.payload = Payload(call.payload.arguments, call.payload.input_text)
    BY <1>3, <2>5, <2>7, TargetIs, AnswerIs
  <2>9. ViewsAgree(profile)
    BY <2>3, <2>4, BaselineAgrees
  <2>10. MapCallPayload(e.profile, call.name, call.payload)
           = MapCallPayload(profile, call.name, call.payload)
    <3>1. call.payload = Payload(call.payload.arguments, NoText)
      BY <2>8
    <3>2. PICK arguments : arguments = call.payload.arguments
      OBVIOUS
    <3>3. call.payload = Payload(arguments, NoText)
      BY <3>1, <3>2
    <3> HIDE DEF profile
    <3> QED BY <1>3, <2>9, <3>3, EntryMapsAlike
  <2> HIDE DEF profile, s
  <2>12. Verdict(s, profile, e.profile, call)
    BY <2>5, <2>8, <2>10, ScoreIs DEF s
  <2> QED BY <2>12 DEF Verdict, s, profile
<1> QED BY <1>1, <1>2, <1>3

-----------------------------------------------------------------------------
(* Every state of a generation satisfies the invariant.                    *)
THEOREM SchemaHolds ==
  SchemaSpec => []SchemaInvariant
<1>1. SchemaInit => SchemaInvariant
  BY InitOK
<1>2. SchemaInvariant /\ [SchemaNext]_schemaVars => SchemaInvariant'
  BY NextKeeps, SchemaFollowingConstants
<1> QED BY <1>1, <1>2, PTL DEF SchemaSpec

(* ExportedIsExecuted, for any family, mutation configuration, digest,     *)
(* seeds and calls: every observed sample is a call the runtime mapped.    *)
THEOREM ExportsAreExecuted ==
  SchemaSpec => []ExportedIsExecuted
<1>1. SchemaInvariant => ExportedIsExecuted
  BY ExportedFollows
<1> QED BY <1>1, SchemaHolds, PTL

(* VerdictIsRuntime: an answer is scored as the runtime would take it.     *)
THEOREM VerdictsAreRuntimes ==
  SchemaSpec => []VerdictIsRuntime
<1>1. SchemaInvariant => VerdictIsRuntime
  BY VerdictFollows, SchemaFollowingConstants
<1> QED BY <1>1, SchemaHolds, PTL

(* ReconciledIsOneCall: a sample that reconciliation passes is of one      *)
(* call, and it complains only where calls under one id can be told apart. *)
THEOREM ReconciledAreOneCall ==
  SchemaSpec => []ReconciledIsOneCall
<1>1. SchemaInvariant => ReconciledIsOneCall
  BY ReconciliationFollows
<1> QED BY <1>1, SchemaHolds, PTL
=============================================================================
