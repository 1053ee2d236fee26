---------------------------- MODULE Menu_proofs ----------------------------
(***************************************************************************)
(* Proofs about Menu, for any list of apps, any delays and sizes, any      *)
(* drives and files, and any user.                                         *)
(*                                                                         *)
(* The stack of scenes comes first: a path of UnderMessages with the       *)
(* scenes of the pending messages on top.  Then the inductive invariant    *)
(* IInv, part by part, and a lemma for each action.                        *)
(***************************************************************************)
EXTENDS Menu, SequenceTheorems, FiniteSetTheorems, WellFoundedInduction, TLAPS

-----------------------------------------------------------------------------
(***************************************************************************)
(* Sequences                                                               *)
(***************************************************************************)
\* Front and Last undo Append.
LEMMA Popped ==
    ASSUME NEW S, NEW s \in Seq(S), NEW e \in S
    PROVE  /\ Front(Append(s, e)) = s
           /\ Last(Append(s, e)) = e
           /\ Append(s, e) \in Seq(S) /\ Append(s, e) # <<>>
<1> DEFINE t == Append(s, e)
           f == SubSeq(t, 1, Len(s))
<1>1. /\ t \in Seq(S) /\ t # <<>>
      /\ Len(t) = Len(s) + 1 /\ Len(s) \in Nat
      /\ \A i \in 1..Len(s) : t[i] = s[i]
      /\ t[Len(s) + 1] = e
    BY AppendProperties, LenProperties
<1>2. Last(t) = e /\ Front(t) = f
    BY <1>1 DEF Last, Front
<1> HIDE DEF t
<1>3. \A i \in 1..Len(s) : t[i] \in S
    BY <1>1, ElementOfSeq
<1>4. 1 \in Int /\ Len(s) \in Int
    BY <1>1
<1>5. /\ f \in Seq(S)
      /\ Len(f) = IF 1 <= Len(s) THEN (Len(s) - 1) + 1 ELSE 0
      /\ \A i \in 1..((Len(s) - 1) + 1) : f[i] = t[(1 + i) - 1]
    BY <1>3, <1>4, SubSeqProperties
<1> HIDE DEF f
<1>6. Len(f) = Len(s) /\ \A i \in 1..Len(s) : f[i] = s[i]
    BY <1>1, <1>5
<1>7. f = s
    BY <1>5, <1>6, SeqEqual
<1> QED BY <1>1, <1>2, <1>7 DEF t

\* What Front leaves.
LEMMA FrontFacts ==
    ASSUME NEW S, NEW s \in Seq(S), s # <<>>
    PROVE  /\ Front(s) \in Seq(S) /\ Len(Front(s)) = Len(s) - 1
           /\ Len(s) \in Nat \ {0}
           /\ \A i \in 1..(Len(s) - 1) : Front(s)[i] = s[i]
<1>1. PICK t \in Seq(S), e \in S : s = Append(t, e)
    BY SequenceEmptyOrAppend
<1>2. Front(s) = t
    BY <1>1, Popped
<1>3. Len(s) = Len(t) + 1 /\ Len(t) \in Nat /\ \A i \in 1..Len(t) : s[i] = t[i]
    BY <1>1, AppendProperties, LenProperties
<1> QED BY <1>2, <1>3

\* The same for a sequence that is known to be one longer.
LEMMA PoppedFrom ==
    ASSUME NEW S, NEW s \in Seq(S), NEW e \in S, NEW t, t = Append(s, e)
    PROVE  Front(t) = s /\ Last(t) = e
BY Popped

\* A longer sequence holds one element more.
LEMMA ContainsAppend ==
    ASSUME NEW S, NEW s \in Seq(S), NEW e \in S, NEW x
    PROVE  Contains(Append(s, e), x) <=> Contains(s, x) \/ x = e
<1>1. /\ Len(Append(s, e)) = Len(s) + 1 /\ Len(s) \in Nat
      /\ \A i \in 1..Len(s) : Append(s, e)[i] = s[i]
      /\ Append(s, e)[Len(s) + 1] = e
    BY AppendProperties, LenProperties
<1> DEFINE t == Append(s, e)
<1> HIDE DEF t
<1>2. Contains(t, x) <=> Contains(s, x) \/ x = e
    BY <1>1 DEF Contains, t
<1> QED BY <1>2 DEF t

\* Removing the last element is Front.
LEMMA RemoveLast ==
    ASSUME NEW S, NEW s \in Seq(S), s # <<>>
    PROVE  RemoveAt(s, Len(s)) = Front(s)
<1>1. Len(s) \in Nat \ {0}
    BY FrontFacts
<1>2. SubSeq(s, Len(s) + 1, Len(s)) = <<>>
    <2>1. Len(s) + 1 \in Int /\ Len(s) \in Int /\ Len(s) < Len(s) + 1
        BY <1>1
    <2> QED BY <2>1, SubSeqEmpty
<1>3. Front(s) \in Seq(S)
    BY FrontFacts
<1>4. RemoveAt(s, Len(s)) = Front(s) \o <<>>
    BY <1>2 DEF RemoveAt, Front
<1> QED BY <1>3, <1>4, ConcatEmptySeq

\* The tuples that the scenes of the menu form, as a stack grows.
LEMMA Tuples ==
    /\ \A a : <<a>> = Append(<<>>, a)
    /\ \A a, b : <<a, b>> = Append(<<a>>, b)
    /\ \A a, b, c : <<a, b, c>> = Append(<<a, b>>, c)
    /\ \A a, b, c, d : <<a, b, c, d>> = Append(<<a, b, c>>, d)
OBVIOUS

\* Tuples are sequences.
LEMMA TuplesAreSeqs ==
    ASSUME NEW S, NEW a \in S, NEW b \in S, NEW c \in S, NEW d \in S
    PROVE  {<<>>, <<a>>, <<a, b>>, <<a, b, c>>, <<a, b, c, d>>} \subseteq Seq(S)
OBVIOUS
-----------------------------------------------------------------------------
(***************************************************************************)
(* The stack of scenes                                                     *)
(***************************************************************************)
Scenes == ListScenes \cup UpdateScenes \cup {"init", "message"}

SettingsPath == <<"boot_list", "settings">>
AboutPath    == <<"boot_list", "settings", "about">>

\* The scenes of pending messages
Notes(m) == [i \in DOMAIN m |-> "message"]

\* The paths, as tuples.
LEMMA Paths ==
    UnderMessages =
        {<<"init">>, <<"boot_list">>, <<"boot_list", "boot_options">>,
         SettingsPath, AboutPath}
        \cup {<<"boot_list", "settings", "about", s>> : s \in UpdateScenes}
BY DEF UnderMessages, AboutPath, SettingsPath

\* How a path grows.
LEMMA PathSteps ==
    /\ SettingsPath = Append(<<"boot_list">>, "settings")
    /\ AboutPath = Append(SettingsPath, "about")
    /\ \A s : <<"boot_list", "settings", "about", s>> = Append(AboutPath, s)
BY Tuples DEF SettingsPath, AboutPath

\* What is on top of a path, below it and in it.
LEMMA PathView ==
    /\ <<"init">> \in Seq(Scenes) /\ <<"boot_list">> \in Seq(Scenes)
    /\ Front(<<"init">>) = <<>> /\ Last(<<"init">>) = "init"
    /\ Front(<<"boot_list">>) = <<>> /\ Last(<<"boot_list">>) = "boot_list"
    /\ <<"boot_list", "boot_options">> \in Seq(Scenes)
    /\ Front(<<"boot_list", "boot_options">>) = <<"boot_list">>
    /\ Last(<<"boot_list", "boot_options">>) = "boot_options"
    /\ SettingsPath \in Seq(Scenes)
    /\ Front(SettingsPath) = <<"boot_list">> /\ Last(SettingsPath) = "settings"
    /\ AboutPath \in Seq(Scenes)
    /\ Front(AboutPath) = SettingsPath /\ Last(AboutPath) = "about"
    /\ \A s \in UpdateScenes :
          /\ Append(AboutPath, s) \in Seq(Scenes)
          /\ Front(Append(AboutPath, s)) = AboutPath
          /\ Last(Append(AboutPath, s)) = s
<1>1. /\ "boot_list" \in Scenes /\ "boot_options" \in Scenes /\ "settings" \in Scenes
      /\ "about" \in Scenes /\ "init" \in Scenes
    BY DEF Scenes, ListScenes
<1>2. /\ <<>> \in Seq(Scenes) /\ <<"boot_list">> \in Seq(Scenes)
      /\ <<"init">> \in Seq(Scenes) /\ SettingsPath \in Seq(Scenes)
      /\ AboutPath \in Seq(Scenes)
      /\ <<"boot_list", "boot_options">> \in Seq(Scenes)
    BY <1>1, TuplesAreSeqs DEF SettingsPath, AboutPath
<1>3. /\ <<"init">> = Append(<<>>, "init") /\ <<"boot_list">> = Append(<<>>, "boot_list")
      /\ <<"boot_list", "boot_options">> = Append(<<"boot_list">>, "boot_options")
      /\ SettingsPath = Append(<<"boot_list">>, "settings")
      /\ AboutPath = Append(SettingsPath, "about")
    BY Tuples DEF SettingsPath, AboutPath
<1>4. ASSUME NEW x \in Scenes
      PROVE  Front(<<x>>) = <<>> /\ Last(<<x>>) = x
    <2>1. <<x>> = Append(<<>>, x)
        OBVIOUS
    <2> QED BY <2>1, <1>2, PoppedFrom
<1>5. /\ Front(<<"boot_list", "boot_options">>) = <<"boot_list">>
      /\ Last(<<"boot_list", "boot_options">>) = "boot_options"
    <2> DEFINE t == <<"boot_list", "boot_options">>
    <2>1. t = Append(<<"boot_list">>, "boot_options")
        OBVIOUS
    <2> HIDE DEF t
    <2>2. Front(t) = <<"boot_list">> /\ Last(t) = "boot_options"
        BY <2>1, <1>1, <1>2, PoppedFrom
    <2> QED BY <2>2 DEF t
<1>6. Front(SettingsPath) = <<"boot_list">> /\ Last(SettingsPath) = "settings"
    BY <1>1, <1>2, <1>3, PoppedFrom
<1>7. Front(AboutPath) = SettingsPath /\ Last(AboutPath) = "about"
    <2>1. AboutPath = Append(SettingsPath, "about") /\ SettingsPath \in Seq(Scenes)
        BY <1>2, <1>3
    <2>2. "about" \in Scenes
        BY <1>1
    <2> QED BY <2>1, <2>2, PoppedFrom
<1>8. ASSUME NEW s \in UpdateScenes
      PROVE  /\ Append(AboutPath, s) \in Seq(Scenes)
             /\ Front(Append(AboutPath, s)) = AboutPath
             /\ Last(Append(AboutPath, s)) = s
    BY <1>2, Popped DEF Scenes
<1>9. /\ Front(<<"init">>) = <<>> /\ Last(<<"init">>) = "init"
      /\ Front(<<"boot_list">>) = <<>> /\ Last(<<"boot_list">>) = "boot_list"
    BY <1>1, <1>4, Zenon
<1> QED BY <1>2, <1>5, <1>6, <1>7, <1>8, <1>9

\* Which of the two scenes that an invariant is about are in a path.
LEMMA PathContains ==
    \A x \in {"boot_options", "writing"} :
          /\ ~Contains(<<>>, x) /\ ~Contains(<<"init">>, x) /\ ~Contains(<<"boot_list">>, x)
          /\ Contains(<<"boot_list", "boot_options">>, x) <=> x = "boot_options"
          /\ ~Contains(SettingsPath, x) /\ ~Contains(AboutPath, x)
          /\ \A s \in UpdateScenes : Contains(Append(AboutPath, s), x) <=> x = s
<1> SUFFICES ASSUME NEW x \in {"boot_options", "writing"}
             PROVE  /\ ~Contains(<<>>, x) /\ ~Contains(<<"init">>, x)
                    /\ ~Contains(<<"boot_list">>, x)
                    /\ Contains(<<"boot_list", "boot_options">>, x) <=> x = "boot_options"
                    /\ ~Contains(SettingsPath, x) /\ ~Contains(AboutPath, x)
                    /\ \A s \in UpdateScenes :
                          Contains(Append(AboutPath, s), x) <=> x = s
    BY Zenon
<1>1. ~Contains(<<>>, x) /\ ~Contains(<<"init">>, x) /\ ~Contains(<<"boot_list">>, x)
    BY DEF Contains
<1>2. Contains(<<"boot_list", "boot_options">>, x) <=> x = "boot_options"
    <2> DEFINE t == <<"boot_list", "boot_options">>
    <2>1. Len(t) = 2 /\ t[1] = "boot_list" /\ t[2] = "boot_options"
        OBVIOUS
    <2> HIDE DEF t
    <2>2. Contains(t, x) <=> x = "boot_options"
        BY <2>1 DEF Contains
    <2> QED BY <2>2 DEF t
<1>3. ~Contains(SettingsPath, x)
    <2>1. Len(SettingsPath) = 2 /\ SettingsPath[1] = "boot_list" /\ SettingsPath[2] = "settings"
        BY DEF SettingsPath
    <2> QED BY <2>1 DEF Contains
<1>4. ~Contains(AboutPath, x)
    <2>1. /\ Len(AboutPath) = 3 /\ AboutPath[1] = "boot_list"
          /\ AboutPath[2] = "settings" /\ AboutPath[3] = "about"
        BY DEF AboutPath
    <2> QED BY <2>1 DEF Contains
<1>5. ASSUME NEW s \in UpdateScenes
      PROVE  Contains(Append(AboutPath, s), x) <=> x = s
    <2>1. s \in Scenes /\ AboutPath \in Seq(Scenes)
        BY PathView DEF Scenes
    <2> QED BY <2>1, <1>4, ContainsAppend
<1> QED BY <1>1, <1>2, <1>3, <1>4, <1>5

\* What every path is.
LEMMA PathFacts ==
    ASSUME NEW p \in UnderMessages
    PROVE  /\ p \in Seq(Scenes) /\ p # <<>>
           /\ Last(p) \in Scenes \ {"message"}
           /\ p[1] = (IF p = <<"init">> THEN "init" ELSE "boot_list")
<1>1. \A s : <<"boot_list", "settings", "about", s>> = Append(AboutPath, s)
    BY DEF AboutPath
<1>2. CASE p = <<"init">>
    BY <1>2, PathView DEF Scenes
<1>6. CASE p = <<"boot_list">>
    BY <1>6, PathView DEF Scenes, ListScenes
<1>3. CASE p = <<"boot_list", "boot_options">>
    <2>1. p # <<"init">> /\ p[1] = "boot_list" /\ p # <<>>
        BY <1>3
    <2> QED BY <2>1, <1>3, PathView DEF Scenes, ListScenes
<1>4. CASE p \in {SettingsPath, AboutPath}
    <2>1. p # <<"init">> /\ p[1] = "boot_list" /\ p # <<>>
        BY <1>4 DEF SettingsPath, AboutPath
    <2> QED BY <2>1, <1>4, PathView DEF Scenes, ListScenes
<1>5. ASSUME NEW s \in UpdateScenes, p = <<"boot_list", "settings", "about", s>>
      PROVE  /\ p \in Seq(Scenes) /\ p # <<>>
             /\ Last(p) \in Scenes \ {"message"}
             /\ p[1] = (IF p = <<"init">> THEN "init" ELSE "boot_list")
    <2>1. p # <<"init">> /\ p[1] = "boot_list" /\ p # <<>>
        BY <1>5
    <2>2. p = Append(AboutPath, s) /\ s # "message"
        BY <1>1, <1>5 DEF UpdateScenes
    <2>3. p \in Seq(Scenes) /\ Last(p) = s
        BY <2>2, PathView
    <2> QED BY <2>1, <2>2, <2>3 DEF Scenes
<1> QED BY <1>2, <1>3, <1>4, <1>5, <1>6, Paths

\* The path is known by the scene on top of it.
LEMMA PathByTop ==
    ASSUME NEW p \in UnderMessages
    PROVE  /\ Last(p) = "init" => p = <<"init">>
           /\ Last(p) = "boot_list" => p = <<"boot_list">>
           /\ Last(p) = "boot_options" => p = <<"boot_list", "boot_options">>
           /\ Last(p) = "settings" => p = SettingsPath
           /\ Last(p) = "about" => p = AboutPath
           /\ Last(p) \in UpdateScenes => p = Append(AboutPath, Last(p))
<1>1. \A s : <<"boot_list", "settings", "about", s>> = Append(AboutPath, s)
    BY DEF AboutPath
<1>2. CASE p \in {<<"init">>, <<"boot_list">>, <<"boot_list", "boot_options">>,
                  SettingsPath, AboutPath}
    BY <1>2, PathView DEF UpdateScenes
<1>3. ASSUME NEW s \in UpdateScenes, p = <<"boot_list", "settings", "about", s>>
      PROVE  Last(p) \in UpdateScenes /\ p = Append(AboutPath, Last(p))
    BY <1>1, <1>3, PathView
<1>4. UpdateScenes \cap {"init", "boot_list", "boot_options", "settings", "about"} = {}
    BY DEF UpdateScenes
<1> QED BY <1>2, <1>3, <1>4, Paths

\* Messages come and go on top of any path.
LEMMA NotesFacts ==
    ASSUME NEW m \in Seq(Texts)
    PROVE  /\ Notes(m) \in Seq(Scenes)
           /\ m = <<>> => Notes(m) = <<>>
           /\ \A t \in Texts : Notes(Append(m, t)) = Append(Notes(m), "message")
<1>1. "message" \in Scenes
    BY DEF Scenes
<1>2. ASSUME NEW n \in Seq(Texts)
      PROVE  Notes(n) \in Seq(Scenes) /\ Len(Notes(n)) = Len(n)
             /\ \A i \in 1..Len(n) : Notes(n)[i] = "message"
    BY <1>1 DEF Notes
<1>3. ASSUME NEW t \in Texts
      PROVE  Notes(Append(m, t)) = Append(Notes(m), "message")
    <2> DEFINE a == Notes(Append(m, t))
               b == Append(Notes(m), "message")
    <2>1. Append(m, t) \in Seq(Texts) /\ Len(Append(m, t)) = Len(m) + 1 /\ Len(m) \in Nat
        BY AppendProperties, LenProperties
    <2>2. a \in Seq(Scenes) /\ Len(a) = Len(m) + 1
          /\ \A i \in 1..(Len(m) + 1) : a[i] = "message"
        BY <2>1, <1>2
    <2>3. /\ b \in Seq(Scenes) /\ Len(b) = Len(m) + 1
          /\ \A i \in 1..Len(m) : b[i] = Notes(m)[i]
          /\ b[Len(m) + 1] = "message"
        BY <1>1, <1>2, AppendProperties
    <2>6. \A i \in 1..Len(m) : Notes(m)[i] = "message"
        BY <1>2
    <2> HIDE DEF a, b
    <2>7. \A i \in 1..(Len(m) + 1) : b[i] = "message"
        BY <2>1, <2>3, <2>6
    <2>4. \A i \in 1..Len(a) : a[i] = b[i]
        BY <2>2, <2>7
    <2>5. a = b
        BY <2>2, <2>3, <2>4, SeqEqual
    <2> QED BY <2>5 DEF a, b
<1>4. m = <<>> => Notes(m) = <<>>
    BY DEF Notes
<1> QED BY <1>2, <1>3, <1>4

\* A stack is a path with messages on top.
Stack(p, m) == p \o Notes(m)

LEMMA StackFacts ==
    ASSUME NEW p \in UnderMessages, NEW m \in Seq(Texts)
    PROVE  /\ Stack(p, m) \in Seq(Scenes) /\ Stack(p, m) # <<>>
           /\ Stack(p, m)[1] = p[1]
           /\ m = <<>> => Stack(p, m) = p
           /\ \A t \in Texts :
                 Append(Stack(p, m), "message") = Stack(p, Append(m, t))
<1>1. p \in Seq(Scenes) /\ Notes(m) \in Seq(Scenes) /\ p # <<>>
    BY PathFacts, NotesFacts
<1>2. Len(p) \in Nat \ {0}
    BY <1>1, FrontFacts
<1>3. /\ p \o Notes(m) \in Seq(Scenes)
      /\ Len(p \o Notes(m)) = Len(p) + Len(Notes(m))
      /\ \A i \in 1..(Len(p) + Len(Notes(m))) :
            (p \o Notes(m))[i] = IF i <= Len(p) THEN p[i] ELSE Notes(m)[i - Len(p)]
    BY <1>1, ConcatProperties
<1>4. Len(Notes(m)) \in Nat
    BY <1>1, LenProperties
<1>5. Stack(p, m)[1] = p[1]
    BY <1>2, <1>3, <1>4 DEF Stack
<1>6. Stack(p, m) # <<>>
    <2> DEFINE s == p \o Notes(m)
    <2>1. Len(s) # 0
        BY <1>2, <1>3, <1>4
    <2> HIDE DEF s
    <2>2. s # <<>>
        BY <2>1
    <2> QED BY <2>2 DEF s, Stack
<1>7. m = <<>> => Stack(p, m) = p
    BY <1>1, NotesFacts, ConcatEmptySeq DEF Stack
<1>8. ASSUME NEW t \in Texts
      PROVE  Append(Stack(p, m), "message") = Stack(p, Append(m, t))
    <2>1. "message" \in Scenes /\ <<"message">> \in Seq(Scenes)
        BY DEF Scenes
    <2>2. Append(p \o Notes(m), "message") = (p \o Notes(m)) \o <<"message">>
        BY <2>1, <1>3, AppendIsConcat
    <2>3. (p \o Notes(m)) \o <<"message">> = p \o (Notes(m) \o <<"message">>)
        BY <2>1, <1>1, ConcatAssociative
    <2>4. Notes(m) \o <<"message">> = Append(Notes(m), "message")
        BY <2>1, <1>1, AppendIsConcat
    <2>5. Append(Notes(m), "message") = Notes(Append(m, t))
        BY NotesFacts
    <2> QED BY <2>2, <2>3, <2>4, <2>5 DEF Stack
<1> QED BY <1>3, <1>5, <1>6, <1>7, <1>8 DEF Stack

\* Without messages the top is that of the path; else it is a message, and
\* popping it leaves the path alone.
LEMMA StackTop ==
    ASSUME NEW p \in UnderMessages, NEW m \in Seq(Texts)
    PROVE  /\ m = <<>> => Last(Stack(p, m)) = Last(p)
           /\ m # <<>> => /\ Last(Stack(p, m)) = "message"
                          /\ Front(m) \in Seq(Texts)
                          /\ Front(Stack(p, m)) = Stack(p, Front(m))
<1>1. m = <<>> => Last(Stack(p, m)) = Last(p)
    BY StackFacts
<1>2. ASSUME m # <<>>
      PROVE  /\ Last(Stack(p, m)) = "message"
             /\ Front(m) \in Seq(Texts)
             /\ Front(Stack(p, m)) = Stack(p, Front(m))
    <2>1. PICK n \in Seq(Texts), t \in Texts : m = Append(n, t)
        BY <1>2, SequenceEmptyOrAppend
    <2>2. Front(m) = n
        BY <2>1, PoppedFrom
    <2>3. Stack(p, m) = Append(Stack(p, n), "message") /\ Stack(p, n) \in Seq(Scenes)
        BY <2>1, StackFacts
    <2>4. "message" \in Scenes
        BY DEF Scenes
    <2>5. Last(Stack(p, m)) = "message" /\ Front(Stack(p, m)) = Stack(p, n)
        BY <2>3, <2>4, PoppedFrom
    <2> QED BY <2>2, <2>5
<1> QED BY <1>1, <1>2

\* Messages do not count when a scene is looked for.
LEMMA StackContains ==
    ASSUME NEW p \in UnderMessages, NEW m \in Seq(Texts),
           NEW x \in {"boot_options", "writing"}
    PROVE  Contains(Stack(p, m), x) <=> Contains(p, x)
<1>1. p \in Seq(Scenes) /\ Notes(m) \in Seq(Scenes)
    BY PathFacts, NotesFacts
<1>2. Len(p) \in Nat /\ Len(Notes(m)) \in Nat
    BY <1>1, LenProperties
<1>3. \A i \in 1..Len(Notes(m)) : Notes(m)[i] # x
    BY DEF Notes
<1> DEFINE s == p \o Notes(m)
<1>4. /\ Len(s) = Len(p) + Len(Notes(m))
      /\ \A i \in 1..(Len(p) + Len(Notes(m))) :
            s[i] = IF i <= Len(p) THEN p[i] ELSE Notes(m)[i - Len(p)]
    BY <1>1, ConcatProperties
<1> HIDE DEF s
<1>5. Contains(s, x) <=> Contains(p, x)
    BY <1>2, <1>3, <1>4 DEF Contains
<1> QED BY <1>5 DEF s, Stack
-----------------------------------------------------------------------------
(***************************************************************************)
(* Numbers: remainders, and the delays                                     *)
(***************************************************************************)
LEMMA DivMod ==
    ASSUME NEW A \in Nat, A # 0, NEW x \in Int
    PROVE  x % A \in 0..(A - 1) /\ x \div A \in Int /\ x = A * (x \div A) + (x % A)
OBVIOUS

\* Quotient and remainder are unique.
LEMMA ModUnique ==
    ASSUME NEW A \in Nat, A # 0, NEW q \in Int, NEW p \in Int,
           NEW r \in 0..(A - 1), NEW s \in 0..(A - 1), A * q + r = A * p + s
    PROVE  r = s
<1>1. CASE q = p
    BY <1>1
<1>2. CASE q > p
    <2>1. A * (q - p) >= A /\ A * (q - p) = (A * q) - (A * p)
        BY <1>2
    <2> QED BY <2>1
<1>3. CASE q < p
    <2>1. A * (p - q) >= A /\ A * (p - q) = (A * p) - (A * q)
        BY <1>3
    <2> QED BY <2>1
<1> QED BY <1>1, <1>2, <1>3

\* A remainder can be taken before adding or after.
LEMMA ModAdd ==
    ASSUME NEW A \in Nat, A # 0, NEW x \in Int, NEW b \in Int
    PROVE  ((x % A) + b) % A = (x + b) % A
<1> DEFINE r  == x % A
           u  == (r + b) % A
           v  == (x + b) % A
           q  == x \div A
           p  == (r + b) \div A
           t  == (x + b) \div A
           Aq == A * q
           Ap == A * p
           At == A * t
           As == A * (p + q)
<1>1. r \in 0..(A - 1) /\ q \in Int /\ x = Aq + r
    BY DivMod
<1>2. u \in 0..(A - 1) /\ p \in Int /\ r + b = Ap + u
    BY <1>1, DivMod
<1>3. v \in 0..(A - 1) /\ t \in Int /\ x + b = At + v
    <2>1. x + b \in Int
        OBVIOUS
    <2> QED BY <2>1, DivMod
<1>4. As = Ap + Aq /\ As \in Int /\ Aq \in Int /\ Ap \in Int /\ At \in Int
    BY <1>1, <1>2, <1>3
<1> HIDE DEF u, v, r, Aq, Ap, At, As
<1>5. As + u = At + v
    BY <1>1, <1>2, <1>3, <1>4
<1> HIDE DEF p, q, t
<1>6. A * (p + q) + u = A * t + v /\ p + q \in Int
    BY <1>1, <1>2, <1>5 DEF As, At
<1>7. u = v
    BY <1>2, <1>3, <1>6, ModUnique
<1> QED BY <1>7 DEF u, v, r

LEMMA ModSmall ==
    ASSUME NEW A \in Nat, A # 0, NEW x \in 0..(A - 1)
    PROVE  x % A = x
<1>1. x % A \in 0..(A - 1) /\ x \div A \in Int /\ x = A * (x \div A) + (x % A)
    BY DivMod
<1>2. A * 0 + x = A * (x \div A) + (x % A)
    BY <1>1
<1> DEFINE q == x \div A
           r == x % A
<1> HIDE DEF q, r
<1>3. x = r
    <2>1. A * 0 + x = A * q + r /\ q \in Int /\ r \in 0..(A - 1)
        BY <1>1, <1>2 DEF q, r
    <2> QED BY <2>1, ModUnique
<1> QED BY <1>3 DEF r

LEMMA ConstantTypes ==
    /\ DelayMin \in Nat \ {0} /\ DelayMax \in Nat /\ WordSize \in Nat \ {0}
    /\ StepSmall \in Nat \ {0} /\ StepBig \in Nat \ {0} /\ StepSmall <= StepBig
    /\ DelayMin < DelayMax /\ DelayMax + StepBig < WordSize
    /\ DefaultDelay \in Delays /\ Delays \subseteq Nat
    /\ AppAttr \in Seq(SUBSET {"DISABLE", "OSDSYS"}) /\ NumApps \in Nat
BY MenuAssumption DEF Delays, NumApps

\* Adjusting keeps a delay in its range, although it wraps (settings.c:110-164).
LEMMA AdjustedInRange ==
    ASSUME NEW d \in Delays, NEW step \in {StepSmall, StepBig}
    PROVE  More(d, step) \in Delays /\ Less(d, step) \in Delays
<1>1. d \in Nat /\ DelayMin <= d /\ d <= DelayMax /\ step \in Nat \ {0}
      /\ d + step \in 0..(WordSize - 1)
    BY ConstantTypes DEF Delays
<1>2. (d + step) % WordSize = d + step
    BY <1>1, ConstantTypes, ModSmall
<1>3. More(d, step) \in Delays
    BY <1>1, <1>2, ConstantTypes DEF More, Delays
<1> DEFINE n == (d + WordSize - step) % WordSize
<1>4. n \in Int
    <2>1. d + WordSize - step \in Int
        BY <1>1, ConstantTypes
    <2> QED BY <2>1, ConstantTypes, DivMod
<1> HIDE DEF n
<1>5. Clamp(IF n < DelayMin THEN DelayMax ELSE n) \in Delays
    BY <1>4, ConstantTypes DEF Clamp, Delays
<1> QED BY <1>3, <1>5 DEF Less, n
-----------------------------------------------------------------------------
(***************************************************************************)
(* What a file that has passed the checks is (checking.c:25-190).          *)
(***************************************************************************)
\* A set of numbers that is not empty has a least one.
LEMMA LeastNumber ==
    ASSUME NEW S, S \subseteq Nat, S # {}
    PROVE  \E n \in S : \A m \in S : n <= m
<1> DEFINE Less2 == {ss \in Nat \X Nat : ss[1] < ss[2]}
<1>1. IsWellFoundedOn(Less2, Nat)
    BY NatLessThanWellFounded, Zenon DEF OpToRel
<1>2. \A i, j \in Nat : i < j => <<i, j>> \in Less2
    OBVIOUS
<1> HIDE DEF Less2
<1>3. PICK n \in S : \A m \in S : ~(<<m, n>> \in Less2)
    BY <1>1, WFMin
<1>4. ASSUME NEW m \in S
      PROVE  n <= m
    <2>1. ~(m < n) /\ m \in Nat /\ n \in Nat
        BY <1>2, <1>3
    <2> QED BY <2>1
<1> QED BY <1>4

\* The test of each block against the one before it puts every block in its
\* place, unless one of them is at address zero.
LEMMA LinearInPlace ==
    ASSUME NEW blocks \in Seq(Blocks), Linear(blocks),
           \A i \in DOMAIN blocks : blocks[i].addr # 0
    PROVE  InPlace(blocks)
<1> DEFINE place(i) == (blocks[1].addr + (i - 1) * BlockSize) % AddrSpace
           Astray == {i \in DOMAIN blocks : blocks[i].addr # place(i)}
<1>0. AddrSpace \in Nat /\ AddrSpace # 0 /\ BlockSize \in Nat
    BY UpdateFileAssumption
<1>1. DOMAIN blocks = 1..Len(blocks) /\ Len(blocks) \in Nat
    BY LenProperties
<1>2. ASSUME NEW i \in 1..Len(blocks)
      PROVE  blocks[i].addr \in 0..(AddrSpace - 1)
    <2>1. blocks[i] \in Blocks
        BY ElementOfSeq
    <2> QED BY <2>1 DEF Blocks
<1>3. ASSUME Astray # {}
      PROVE  FALSE
    <2>1. Astray \subseteq Nat
        BY <1>1
    <2> HIDE DEF Astray
    <2>2. PICK n \in Astray : \A m \in Astray : n <= m
        BY <1>3, <2>1, LeastNumber
    <2> USE DEF Astray
    <2>3. n \in 1..Len(blocks) /\ blocks[n].addr # place(n)
        BY <1>1
    <2>4. CASE n = 1
        <3>1. place(1) = blocks[1].addr % AddrSpace
            BY <1>0, <1>2, <2>3, <2>4
        <3>2. blocks[1].addr % AddrSpace = blocks[1].addr
            BY <1>0, <1>2, <2>3, <2>4, ModSmall
        <3> QED BY <2>3, <2>4, <3>1, <3>2
    <2>5. CASE n # 1
        <3>1. n - 1 \in 1..Len(blocks) /\ n \in 2..Len(blocks) /\ ~(n <= n - 1)
            BY <1>1, <2>3, <2>5
        <3>2. n - 1 \notin Astray
            <4> HIDE DEF Astray
            <4> QED BY <2>2, <3>1
        <3>3. blocks[n - 1].addr = place(n - 1)
            BY <1>1, <3>1, <3>2
        <3>4. blocks[n].addr = (blocks[n - 1].addr + BlockSize) % AddrSpace
            BY <1>1, <3>1 DEF Linear
        <3> DEFINE a == blocks[1].addr
                   x == a + (n - 2) * BlockSize
        <3>5. a \in Int /\ x \in Int
            BY <1>0, <1>2, <2>3, <3>1
        <3>6. blocks[n - 1].addr = x % AddrSpace
            <4>1. (n - 1) - 1 = n - 2
                BY <3>1
            <4> QED BY <3>3, <4>1
        <3>7. x + BlockSize = a + (n - 1) * BlockSize
            <4> DEFINE k == n - 2
            <4>1. k \in Int /\ n - 1 = k + 1
                BY <3>1
            <4>2. (k + 1) * BlockSize = k * BlockSize + BlockSize /\ k * BlockSize \in Int
                BY <1>0, <4>1
            <4> HIDE DEF k, a
            <4>3. (a + k * BlockSize) + BlockSize = a + (k + 1) * BlockSize
                BY <1>0, <3>5, <4>2
            <4> QED BY <4>1, <4>3 DEF k
        <3> HIDE DEF x
        <3>8. ((x % AddrSpace) + BlockSize) % AddrSpace = (x + BlockSize) % AddrSpace
            <4>1. AddrSpace \in Nat /\ AddrSpace # 0 /\ x \in Int /\ BlockSize \in Int
                BY <1>0, <3>5
            <4> QED BY <4>1, ModAdd
        <3> QED BY <2>3, <3>4, <3>6, <3>7, <3>8
    <2> QED BY <2>4, <2>5
<1> QED BY <1>3 DEF InPlace

\* The pins of an image are those of the board, if they are all known and do
\* not differ.
LEMMA PinsAgree ==
    ASSUME NEW pins \in [PinGroups -> SUBSET Nat], ~PinsDiffer(BoardPins, pins)
    PROVE  \/ \E g \in PinGroups : pins[g] = {}
           \/ UNION Range(pins) = UNION Range(BoardPins)
<1>1. Range(pins) = {pins[g] : g \in PinGroups}
    BY DEF Range
<1>2. Range(BoardPins) = {BoardPins[g] : g \in PinGroups}
    BY MenuAssumption DEF Range
<1> QED BY <1>1, <1>2 DEF PinsDiffer

\* All that CheckPassed asks for makes the upload one that is Checked.
LEMMA PassedIsChecked ==
    ASSUME NEW type \in {"fw", "apps"}, NEW file \in UpdateFiles,
           NEW unread \in SUBSET {"FW", "FW_UPDATE"},
           ReadsWell(file),
           Fits(type, UpdateSize(file),
                Restrict(PartitionSize, DOMAIN PartitionSize \ unread)),
           type = "fw" => ~PinsDiffer(BoardPins, file.pins)
    PROVE  LET blocks == file.blocks
               size   == Len(blocks) * BlockSize
           IN  /\ \A i \in DOMAIN blocks : blocks[i].family \in {"none", "rp2040"}
               /\ (\A i \in DOMAIN blocks : blocks[i].addr # 0) => InPlace(blocks)
               /\ type = "apps" => size <= PartitionSize["APPS"]
               /\ type = "fw" /\ unread = {} =>
                     size <= PartitionSize["FW"] /\ size <= PartitionSize["FW_UPDATE"]
               /\ type = "fw" =>
                     \/ \E g \in PinGroups : file.pins[g] = {}
                     \/ UNION Range(file.pins) = UNION Range(BoardPins)
<1> DEFINE blocks == file.blocks
           size   == Len(blocks) * BlockSize
           sizes  == Restrict(PartitionSize, DOMAIN PartitionSize \ unread)
<1>1. blocks \in Seq(Blocks) /\ file.pins \in [PinGroups -> SUBSET Nat]
    BY DEF UpdateFiles
<1>2. ASSUME NEW i \in DOMAIN blocks
      PROVE  blocks[i].family \in {"none", "rp2040"}
    <2>1. BlockValid(blocks[i]) /\ blocks[i] \in Blocks
        BY <1>1, LenProperties, ElementOfSeq DEF ReadsWell
    <2> QED BY <2>1 DEF BlockValid, Blocks
<1>3. (\A i \in DOMAIN blocks : blocks[i].addr # 0) => InPlace(blocks)
    BY <1>1, LinearInPlace DEF ReadsWell
<1>4. UpdateSize(file) = size
    BY <1>1, LenProperties, UpdateFileAssumption DEF UpdateSize
<1>5. DOMAIN PartitionSize = {"FW", "FW_UPDATE", "APPS"}
    BY MenuAssumption
<1>6. /\ DOMAIN sizes = {"FW", "FW_UPDATE", "APPS"} \ unread
      /\ \A p \in DOMAIN sizes : sizes[p] = PartitionSize[p]
    BY <1>5 DEF Restrict
<1>7. \A p \in Targets(type) : p \notin unread => size <= PartitionSize[p]
    <2>1. Targets(type) \subseteq {"FW", "FW_UPDATE", "APPS"}
        BY DEF Targets
    <2> HIDE DEF size
    <2> QED BY <1>4, <1>6, <2>1 DEF Fits
<1>8. type = "apps" => size <= PartitionSize["APPS"]
    <2> HIDE DEF size
    <2> QED BY <1>7 DEF Targets
<1>9. type = "fw" /\ unread = {} =>
          size <= PartitionSize["FW"] /\ size <= PartitionSize["FW_UPDATE"]
    <2> HIDE DEF size
    <2> QED BY <1>7 DEF Targets
<1>10. type = "fw" => \/ \E g \in PinGroups : file.pins[g] = {}
                      \/ UNION Range(file.pins) = UNION Range(BoardPins)
    BY <1>1, PinsAgree
<1> QED BY <1>2, <1>3, <1>8, <1>9, <1>10
-----------------------------------------------------------------------------
(***************************************************************************)
(* The inductive invariant                                                 *)
(***************************************************************************)
\* The environment: what is left of the bounds, and the drive.
User == [stored : SUBSET Settings, drives : SUBSET Drives, changes : Nat,
         faults : Nat, presses : Nat, buttons : SUBSET STRING]

Outside == user \in User /\ drive \in Drives

\* Before the boot list is there, nothing has touched what it will show.
Before ==
    /\ phase \in {"main", "start"} => scenes = <<>> /\ messages = <<>>
    /\ phase = "main" => unasked /\ osdsys = {}
    /\ ~Registered =>
          /\ items = <<>> /\ attrs = <<>> /\ rescue_item_idx = 0
          /\ hilites = [s \in ListScenes |-> 0]
          /\ ~mass_event_received /\ ~touched /\ ~countdown.active
          /\ "item" \notin lost
          /\ autoboot.on => stored.on
          /\ events = 0 /\ ~missed => ~drive.rescue

AppsListed ==
    \A i \in 1..NumApps : i + 1 \in DOMAIN items /\ items[i + 1] = App(i)

NoAppListed == \A i \in DOMAIN items : items[i] \in {OSDSYS, RESCUE}

\* The list: ListConsistent without the hilites.  The rescue item that the
\* index names is the last one, and either all apps are there or none.
ListInv ==
    /\ Len(attrs) = Len(items)
    /\ \A i \in DOMAIN items :
          /\ items[i] = RESCUE => attrs[i] = {"DISABLE"}
          /\ items[i] # RESCUE => items[i] = (IF i = 1 THEN OSDSYS ELSE App(i - 1))
    /\ rescue_item_idx # 0 =>
          rescue_item_idx + 1 = Len(items) /\ items[Len(items)] = RESCUE
    /\ Registered =>
          /\ Len(items) > 0 /\ items[1] = OSDSYS
          /\ attrs[1] = {"DISABLE", "OSDSYS"}
          /\ AppsListed \/ NoAppListed

HilitesInv == Registered => \A s \in ListScenes : hilites[s] < list_len(s)

\* RescueListed, and what is known in the middle of add_or_remove_rescue_elf.
RescueInv ==
    /\ RescueListed
    /\ phase \in {"add", "remove"} => Top = "boot_list"
    /\ phase = "add" /\ events = 0 /\ ~missed => drive.rescue
    /\ phase = "remove" /\ events = 0 /\ ~missed => ~drive.rescue

\* What the countdown would launch is what has been saved.
CountdownInv ==
    countdown.active =>
        /\ scenes = <<"boot_list">> /\ ~touched /\ stored.on /\ AppsListed
        /\ hilites["boot_list"] = IF "item" \notin lost /\ stored.item \in 1..NumApps
                                  THEN stored.item ELSE 0

\* SavedIsShown; the options that were there when their scene was opened are
\* the ones that are stored.
SavedInv ==
    /\ SavedIsShown
    /\ adjusting.dirty => adjusting.on
    /\ Contains(scenes, "boot_options") => ~unasked
    /\ Contains(scenes, "boot_options") /\ "options" \notin lost =>
          opened = stored.options

\* The upload stays as it was checked while the scene is on the stack.
CheckedInv == Contains(scenes, "writing") => Checked

HookInv == running = MENU /\ hook => returned

IInv ==
    /\ TypeOK
    /\ Outside
    /\ Before
    /\ ListInv
    /\ HilitesInv
    /\ StackShape
    /\ RescueInv
    /\ CountdownInv
    /\ SavedInv
    /\ CheckedInv
    /\ HookInv
-----------------------------------------------------------------------------
(***************************************************************************)
(* The stack, step by step                                                 *)
(***************************************************************************)
StackNow ==
    messages \in Seq(Texts) /\ \E p \in UnderMessages : scenes = Stack(p, messages)

LEMMA StackNowIs ==
    ASSUME TypeOK, StackShape, phase \notin {"main", "start"}
    PROVE  StackNow
BY DEF TypeOK, StackShape, StackNow, Stack, Notes

\* What a stack says of itself.
LEMMA StackTypes ==
    ASSUME StackNow
    PROVE  /\ scenes \in Seq(Scenes) /\ scenes # <<>> /\ messages \in Seq(Texts)
           /\ scenes[1] \in {"init", "boot_list"}
<1>1. PICK p \in UnderMessages : scenes = Stack(p, messages)
    BY DEF StackNow
<1> QED BY <1>1, StackFacts, PathFacts DEF StackNow

\* The scene on top says what is below it.
LEMMA TopView ==
    ASSUME StackNow
    PROVE  /\ Top \in Scenes
           /\ Top # "message" => messages = <<>>
           /\ Top = "message" =>
                 /\ messages # <<>> /\ Front(messages) \in Seq(Texts)
                 /\ \E p \in UnderMessages :
                       scenes = Stack(p, messages) /\ Covered = Stack(p, Front(messages))
           /\ Top = "init" => scenes = <<"init">> /\ Covered = <<>> /\ ~Registered
           /\ Top = "boot_list" => scenes = <<"boot_list">> /\ Covered = <<>>
           /\ Top = "boot_options" =>
                 /\ scenes = <<"boot_list", "boot_options">>
                 /\ Covered = <<"boot_list">>
           /\ Top = "settings" => scenes = SettingsPath /\ Covered = <<"boot_list">>
           /\ Top = "about" => scenes = AboutPath /\ Covered = SettingsPath
           /\ Top \in UpdateScenes =>
                 scenes = Append(AboutPath, Top) /\ Covered = AboutPath
           /\ Top \notin {"init", "message"} => Registered
<1>1. PICK p \in UnderMessages : scenes = Stack(p, messages)
    BY DEF StackNow
<1>2. messages \in Seq(Texts)
    BY DEF StackNow
<1>3. Last(p) \in Scenes \ {"message"} /\ p[1] = (IF p = <<"init">> THEN "init" ELSE "boot_list")
    BY PathFacts
<1>4. scenes[1] = p[1] /\ scenes # <<>>
    BY <1>1, <1>2, StackFacts
<1>5. CASE messages # <<>>
    <2>1. Top = "message"
        BY <1>1, <1>2, <1>5, StackTop DEF Top
    <2>2. Front(messages) \in Seq(Texts) /\ Covered = Stack(p, Front(messages))
        BY <1>1, <1>2, <1>5, StackTop DEF Covered
    <2>3. "message" \notin UpdateScenes /\ "message" \in Scenes
        BY DEF UpdateScenes, Scenes
    <2> QED BY <1>1, <1>5, <2>1, <2>2, <2>3
<1>6. CASE messages = <<>>
    <2>1. scenes = p /\ Top = Last(p)
        BY <1>1, <1>2, <1>6, StackFacts, StackTop DEF Top
    <2>2. Covered = Front(p)
        BY <2>1 DEF Covered
    <2>3. Top = "init" => scenes = <<"init">> /\ Covered = <<>> /\ ~Registered
        BY <2>1, <2>2, <1>3, PathByTop, PathView DEF Registered
    <2>4. /\ Top = "boot_list" => scenes = <<"boot_list">> /\ Covered = <<>>
          /\ Top = "boot_options" =>
                scenes = <<"boot_list", "boot_options">> /\ Covered = <<"boot_list">>
          /\ Top = "settings" => scenes = SettingsPath /\ Covered = <<"boot_list">>
          /\ Top = "about" => scenes = AboutPath /\ Covered = SettingsPath
        BY <2>1, <2>2, PathByTop, PathView
    <2>5. Top \in UpdateScenes => scenes = Append(AboutPath, Top) /\ Covered = AboutPath
        BY <2>1, <2>2, PathByTop, PathView
    <2>6. Top # "init" => Registered
        BY <2>1, <1>3, <1>4, PathView DEF Registered
    <2> QED BY <1>3, <1>6, <2>1, <2>3, <2>4, <2>5, <2>6
<1> QED BY <1>5, <1>6

\* The paths without a scene that an invariant is about
PlainPaths ==
    {<<"boot_list">>, SettingsPath, AboutPath}
    \cup {Append(AboutPath, s) : s \in UpdateScenes \ {"writing"}}

LEMMA PlainPathFacts ==
    ASSUME NEW p \in PlainPaths
    PROVE  /\ p \in UnderMessages /\ p[1] = "boot_list"
           /\ ~Contains(p, "boot_options") /\ ~Contains(p, "writing")
<1>1. \A s : <<"boot_list", "settings", "about", s>> = Append(AboutPath, s)
    BY DEF AboutPath
<1>2. p \in UnderMessages
    BY <1>1, Paths DEF PlainPaths
<1>3. p # <<"init">>
    <2>1. ASSUME NEW s \in UpdateScenes
          PROVE  Append(AboutPath, s) # <<"init">>
        BY DEF AboutPath
    <2> QED BY <2>1 DEF PlainPaths, SettingsPath, AboutPath
<1>4. ~Contains(p, "boot_options") /\ ~Contains(p, "writing")
    <2>1. "boot_options" \notin UpdateScenes
        BY DEF UpdateScenes
    <2> QED BY <2>1, PathContains DEF PlainPaths
<1> QED BY <1>2, <1>3, <1>4, PathFacts

\* What almost every step leaves of the stack.
StackMoves ==
    /\ StackNow'
    /\ Registered' = Registered
    /\ Contains(scenes', "boot_options") <=> Contains(scenes, "boot_options")
    /\ Contains(scenes', "writing") => Contains(scenes, "writing")

LEMMA StaysPut ==
    ASSUME StackNow, UNCHANGED <<scenes, messages>>
    PROVE  StackMoves
BY DEF StackMoves, StackNow, Registered

\* A path gives way to another, with messages or not.
LEMMA PathChanges ==
    ASSUME NEW q \in PlainPaths, messages' \in Seq(Texts),
           scenes' = Stack(q, messages'),
           scenes \in PlainPaths \cup {Append(AboutPath, "writing")}
    PROVE  StackMoves /\ ~Contains(scenes', "writing")
<1>1. q \in UnderMessages /\ q[1] = "boot_list"
      /\ ~Contains(q, "boot_options") /\ ~Contains(q, "writing")
    BY PlainPathFacts
<1>2. PICK m : m = messages' /\ m \in Seq(Texts)
    OBVIOUS
<1>3. scenes' = Stack(q, m)
    BY <1>2
<1>4. StackNow'
    BY <1>1, <1>2, <1>3 DEF StackNow
<1>5. scenes'[1] = "boot_list" /\ scenes' # <<>>
    BY <1>1, <1>2, <1>3, StackFacts
<1>6. ~Contains(scenes', "boot_options") /\ ~Contains(scenes', "writing")
    BY <1>1, <1>2, <1>3, StackContains
<1>7. scenes[1] = "boot_list" /\ scenes # <<>> /\ ~Contains(scenes, "boot_options")
    <2>1. CASE scenes \in PlainPaths
        BY <2>1, PlainPathFacts, PathFacts
    <2>2. CASE scenes = Append(AboutPath, "writing")
        <3>1. scenes[1] = "boot_list" /\ scenes # <<>>
            BY <2>2 DEF AboutPath
        <3>2. "writing" \in UpdateScenes
            BY DEF UpdateScenes
        <3> QED BY <2>2, <3>1, <3>2, PathContains
    <2> QED BY <2>1, <2>2
<1>8. Registered /\ Registered'
    BY <1>5, <1>7 DEF Registered
<1> QED BY <1>4, <1>6, <1>7, <1>8 DEF StackMoves

\* A bare path is a stack.
LEMMA BarePath ==
    ASSUME NEW q \in UnderMessages, scenes' = q, messages' = <<>>
    PROVE  scenes' = Stack(q, messages') /\ messages' \in Seq(Texts) /\ StackNow'
<1>1. <<>> \in Seq(Texts)
    OBVIOUS
<1>2. Stack(q, <<>>) = q
    BY <1>1, StackFacts
<1> QED BY <1>1, <1>2 DEF StackNow

\* A message comes on top of the stack.
LEMMA MessageMoves ==
    ASSUME StackNow, NEW text \in Texts, Message(scenes, text)
    PROVE  StackMoves
<1>1. PICK p \in UnderMessages : scenes = Stack(p, messages)
    BY DEF StackNow
<1>2. messages \in Seq(Texts) /\ messages' = Append(messages, text)
    BY DEF StackNow, Message
<1>3. PICK m : m = Append(messages, text) /\ m \in Seq(Texts)
    BY <1>2, AppendProperties
<1>4. scenes' = Stack(p, m) /\ messages' = m
    BY <1>1, <1>2, <1>3, StackFacts DEF Message
<1>5. StackNow'
    BY <1>3, <1>4 DEF StackNow
<1>6. /\ scenes'[1] = scenes[1] /\ scenes # <<>> /\ scenes' # <<>>
    BY <1>1, <1>2, <1>3, <1>4, StackFacts
<1>7. \A x \in {"boot_options", "writing"} :
          Contains(Stack(p, m), x) <=> Contains(Stack(p, messages), x)
    <2>1. m \in Seq(Texts) /\ messages \in Seq(Texts)
        BY <1>2, <1>3
    <2> QED BY <2>1, StackContains
<1>8. Registered' = Registered
    BY <1>6 DEF Registered
<1> QED BY <1>1, <1>4, <1>5, <1>7, <1>8 DEF StackMoves

\* The message on top goes.
LEMMA MessageGoes ==
    ASSUME StackNow, Top = "message", scenes' = Covered, messages' = Front(messages)
    PROVE  StackMoves
<1>1. messages # <<>> /\ Front(messages) \in Seq(Texts) /\ messages \in Seq(Texts)
    BY TopView DEF StackNow
<1>2. PICK p \in UnderMessages :
          scenes = Stack(p, messages) /\ Covered = Stack(p, Front(messages))
    BY TopView
<1>3. PICK m : m = Front(messages) /\ m \in Seq(Texts)
    BY <1>1
<1>4. scenes' = Stack(p, m) /\ messages' = m
    BY <1>2, <1>3
<1>5. StackNow'
    BY <1>3, <1>4 DEF StackNow
<1>6. /\ scenes'[1] = scenes[1] /\ scenes # <<>> /\ scenes' # <<>>
    BY <1>1, <1>2, <1>3, <1>4, StackFacts
<1>7. \A x \in {"boot_options", "writing"} :
          /\ Contains(scenes', x) <=> Contains(p, x)
          /\ Contains(scenes, x) <=> Contains(p, x)
    BY <1>1, <1>2, <1>3, <1>4, StackContains
<1>8. Registered' = Registered
    BY <1>6 DEF Registered
<1> QED BY <1>5, <1>7, <1>8 DEF StackMoves

\* The About scene comes, with a message for each version that is not known.
LEMMA AboutComes ==
    ASSUME SwitchToAbout(SettingsPath), messages = <<>>,
           scenes \in PlainPaths \cup {Append(AboutPath, "writing")}
    PROVE  StackMoves
<1>1. PICK texts \in {<<>>, <<"fw version">>, <<"bootloader version">>,
                      <<"fw version", "bootloader version">>} :
          /\ scenes' = SettingsPath \o <<"about">> \o [i \in DOMAIN texts |-> "message"]
          /\ messages' = messages \o texts
    BY DEF SwitchToAbout
<1>2. texts \in Seq(Texts)
    <2>1. "fw version" \in Texts /\ "bootloader version" \in Texts
        BY DEF Texts
    <2>2. /\ <<>> \in Seq(Texts) /\ <<"fw version">> \in Seq(Texts)
          /\ <<"bootloader version">> \in Seq(Texts)
          /\ <<"fw version", "bootloader version">> \in Seq(Texts)
        BY <2>1, TuplesAreSeqs
    <2> QED BY <2>2
<1>3. messages' = texts
    BY <1>1, <1>2, ConcatEmptySeq
<1>4. SettingsPath \o <<"about">> = AboutPath
    <2>1. SettingsPath \in Seq(Scenes) /\ "about" \in Scenes
        BY PathView DEF Scenes, ListScenes
    <2>2. SettingsPath \o <<"about">> = Append(SettingsPath, "about")
        BY <2>1, AppendIsConcat
    <2> QED BY <2>2, PathSteps
<1>5. scenes' = Stack(AboutPath, texts)
    BY <1>1, <1>4 DEF Stack, Notes
<1>6. AboutPath \in PlainPaths
    BY DEF PlainPaths
<1> QED BY <1>2, <1>3, <1>5, <1>6, PathChanges
-----------------------------------------------------------------------------
(***************************************************************************)
(* Input handlers, part by part of the invariant                           *)
(***************************************************************************)
LEMMA InputStack ==
    ASSUME StackNow, NEW b, Handle(b)
    PROVE  \/ StackMoves
           \/ /\ BootListTriangle(b) /\ messages' = messages
              /\ scenes = <<"boot_list">> /\ scenes' = <<"boot_list", "boot_options">>
           \/ /\ OptionsCircle(b) /\ messages' = messages
              /\ scenes = <<"boot_list", "boot_options">> /\ scenes' = <<"boot_list">>
<1>1. CASE \/ Navigate(b) \/ BootListCross(b) \/ OptionsCross(b) \/ SettingsAdjust(b)
           \/ SettingsStartAdjusting(b) \/ OtherInput(b)
    <2>1. UNCHANGED <<scenes, messages>>
        BY <1>1 DEF Navigate, BootListCross, OptionsCross, SettingsAdjust,
            SettingsStartAdjusting, OtherInput, ui
    <2> QED BY <2>1, StaysPut
<1>2. CASE BootListSquare(b) \/ SettingsToggle(b)
    <2>1. \/ UNCHANGED <<scenes, messages>>
          \/ Message(scenes, "autoboot item") \/ Message(scenes, "settings")
        BY <1>2 DEF BootListSquare, SettingsToggle, SaveOrTell
    <2>2. "autoboot item" \in Texts /\ "settings" \in Texts
        BY DEF Texts
    <2> QED BY <2>1, <2>2, StaysPut, MessageMoves
<1>3. CASE BootListTriangle(b)
    <2>1. Top = "boot_list" /\ scenes' = Append(scenes, "boot_options") /\ messages' = messages
        BY <1>3 DEF BootListTriangle
    <2>2. scenes = <<"boot_list">>
        BY <2>1, TopView
    <2>3. \A a, c : Append(<<a>>, c) = <<a, c>>
        BY Tuples
    <2>4. scenes' = Append(<<"boot_list">>, "boot_options")
        BY <2>1, <2>2
    <2>5. scenes' = <<"boot_list", "boot_options">>
        BY <2>3, <2>4, Zenon
    <2> QED BY <1>3, <2>1, <2>2, <2>5
<1>4. CASE BootListStart(b)
    <2>1. Top = "boot_list" /\ scenes' = Append(scenes, "settings") /\ messages' = messages
        BY <1>4 DEF BootListStart
    <2>2. scenes = <<"boot_list">> /\ messages = <<>>
        BY <2>1, TopView
    <2>3. scenes' = SettingsPath
        BY <2>1, <2>2, PathSteps
    <2>4. SettingsPath \in PlainPaths /\ scenes \in PlainPaths
        BY <2>2 DEF PlainPaths
    <2>5. SettingsPath \in UnderMessages
        BY <2>4, PlainPathFacts
    <2> QED BY <2>1, <2>2, <2>3, <2>4, <2>5, BarePath, PathChanges
<1>5. CASE OptionsCircle(b)
    <2>1. Top = "boot_options" /\ scenes' = Covered /\ messages' = messages
        BY <1>5 DEF OptionsCircle
    <2> QED BY <1>5, <2>1, TopView
<1>6. CASE SettingsCircle(b)
    <2>1. /\ Top = "settings"
          /\ \/ UNCHANGED <<scenes, messages>>
             \/ Message(scenes, "settings")
             \/ scenes' = Covered /\ messages' = messages
        BY <1>6 DEF SettingsCircle, SaveOrTell
    <2>2. "settings" \in Texts
        BY DEF Texts
    <2>3. CASE scenes' = Covered /\ messages' = messages
        <3>1. scenes = SettingsPath /\ messages = <<>> /\ Covered = <<"boot_list">>
            BY <2>1, TopView
        <3>2. SettingsPath \in PlainPaths /\ <<"boot_list">> \in PlainPaths
            BY DEF PlainPaths
        <3>3. <<"boot_list">> \in UnderMessages
            BY <3>2, PlainPathFacts
        <3> QED BY <2>3, <3>1, <3>2, <3>3, BarePath, PathChanges
    <2> QED BY <2>1, <2>2, <2>3, StaysPut, MessageMoves
<1>7. CASE SettingsAbout(b)
    <2>1. Top = "settings" /\ SwitchToAbout(scenes)
        BY <1>7 DEF SettingsAbout
    <2>2. scenes = SettingsPath /\ messages = <<>>
        BY <2>1, TopView
    <2>3. SwitchToAbout(SettingsPath)
        BY <2>1, <2>2
    <2>4. scenes \in PlainPaths
        BY <2>2 DEF PlainPaths
    <2> QED BY <2>2, <2>3, <2>4, AboutComes
<1>8. CASE AboutCircle(b)
    <2>1. Top = "about" /\ scenes' = Covered /\ messages' = messages
        BY <1>8 DEF AboutCircle
    <2>2. scenes = AboutPath /\ messages = <<>> /\ Covered = SettingsPath
        BY <2>1, TopView
    <2>3. SettingsPath \in PlainPaths /\ scenes \in PlainPaths
        BY <2>2 DEF PlainPaths
    <2>4. SettingsPath \in UnderMessages
        BY <2>3, PlainPathFacts
    <2> QED BY <2>1, <2>2, <2>3, <2>4, BarePath, PathChanges
<1>9. CASE AboutCross(b)
    <2>1. Top = "about" /\ scenes' = Append(scenes, "scanning") /\ messages' = messages
        BY <1>9 DEF AboutCross
    <2>2. scenes = AboutPath /\ messages = <<>>
        BY <2>1, TopView
    <2>3. Append(AboutPath, "scanning") \in PlainPaths /\ scenes \in PlainPaths
        BY <2>2 DEF PlainPaths, UpdateScenes
    <2>4. Append(AboutPath, "scanning") \in UnderMessages
        BY <2>3, PlainPathFacts
    <2> QED BY <2>1, <2>2, <2>3, <2>4, BarePath, PathChanges
<1>10. CASE NotFoundInput(b) \/ FoundInput(b)
    <2>1. /\ Top \in UpdateScenes \ {"writing"} /\ messages' = messages
          /\ \/ scenes' = Covered
             \/ scenes' = Append(Covered, "scanning")
             \/ scenes' = Append(Covered, "checking")
        BY <1>10 DEF NotFoundInput, FoundInput, UpdateScenes
    <2>2. scenes = Append(AboutPath, Top) /\ messages = <<>> /\ Covered = AboutPath
        BY <2>1, TopView DEF UpdateScenes
    <2>3. /\ AboutPath \in PlainPaths /\ Append(AboutPath, "scanning") \in PlainPaths
          /\ Append(AboutPath, "checking") \in PlainPaths /\ scenes \in PlainPaths
        BY <2>1, <2>2 DEF PlainPaths, UpdateScenes
    <2>4. PICK q \in PlainPaths : scenes' = q
        BY <2>1, <2>2, <2>3
    <2>5. q \in UnderMessages /\ messages' = <<>>
        BY <2>1, <2>2, PlainPathFacts
    <2> QED BY <2>3, <2>4, <2>5, BarePath, PathChanges
<1>11. CASE CompleteCircle(b)
    <2>1. Top = "complete" /\ SwitchToAbout(BelowComplete)
        BY <1>11 DEF CompleteCircle
    <2>2. /\ scenes = Append(AboutPath, "complete") /\ messages = <<>>
          /\ Covered = AboutPath
        BY <2>1, TopView DEF UpdateScenes
    <2>3. BelowComplete = SettingsPath
        BY <2>2, PathView DEF BelowComplete
    <2>4. scenes \in PlainPaths
        BY <2>2 DEF PlainPaths, UpdateScenes
    <2> QED BY <2>1, <2>2, <2>3, <2>4, AboutComes
<1>12. CASE MessageCircle(b)
    <2>1. Top = "message" /\ scenes' = Covered /\ messages' = Front(messages)
        BY <1>12 DEF MessageCircle
    <2> QED BY <2>1, MessageGoes
<1> QED BY <1>1, <1>2, <1>3, <1>4, <1>5, <1>6, <1>7, <1>8, <1>9, <1>10, <1>11,
        <1>12 DEF Handle

\* The two steps that the rest of the stack's invariant leaves out.
LEMMA InputStackKept ==
    ASSUME StackNow, NEW b, Handle(b)
    PROVE  /\ StackNow' /\ Registered' = Registered
           /\ Contains(scenes', "writing") => Contains(scenes, "writing")
           /\ ~Contains(scenes', "boot_options") =>
                 ~Contains(scenes, "boot_options") \/ OptionsCircle(b)
           /\ Contains(scenes', "boot_options") =>
                 Contains(scenes, "boot_options") \/ BootListTriangle(b)
<1>1. CASE StackMoves
    BY <1>1 DEF StackMoves
<1> DEFINE opts == <<"boot_list", "boot_options">>
           list0 == <<"boot_list">>
<1>2. opts \in UnderMessages /\ list0 \in UnderMessages
    BY Paths
<1>3. /\ opts # <<>> /\ opts[1] = "boot_list" /\ list0 # <<>> /\ list0[1] = "boot_list"
      /\ ~Contains(opts, "writing") /\ ~Contains(list0, "writing")
      /\ Contains(opts, "boot_options") /\ ~Contains(list0, "boot_options")
    BY PathContains
<1> HIDE DEF opts, list0
<1>4. CASE /\ BootListTriangle(b) /\ messages' = messages
           /\ scenes = list0 /\ scenes' = opts
    <2>1. messages = <<>>
        BY <1>4, TopView DEF BootListTriangle
    <2>2. StackNow'
        BY <1>2, <1>4, <2>1, BarePath
    <2>3. Registered' = Registered
        BY <1>3, <1>4 DEF Registered
    <2> QED BY <1>3, <1>4, <2>2, <2>3
<1>5. CASE /\ OptionsCircle(b) /\ messages' = messages
           /\ scenes = opts /\ scenes' = list0
    <2>1. messages = <<>>
        BY <1>5, TopView DEF OptionsCircle
    <2>2. StackNow'
        BY <1>2, <1>5, <2>1, BarePath
    <2>3. Registered' = Registered
        BY <1>3, <1>5 DEF Registered
    <2> QED BY <1>3, <1>5, <2>2, <2>3
<1> QED BY <1>1, <1>4, <1>5, InputStack DEF opts, list0
-----------------------------------------------------------------------------
\* Commands that fail use up the bound on faults.
LEMMA FaultsKept ==
    ASSUME user \in User, NEW n \in Nat, Faults(n)
    PROVE  user' \in User
BY DEF User, Faults

\* A setting that is written is one of the settings, whatever becomes of the
\* command.
LEMMA SettingKept ==
    ASSUME user \in User, stored \in Settings, lost \subseteq Keys, NEW key, NEW value,
           \/ key = "on" /\ value \in BOOLEAN
           \/ key = "delay" /\ value \in Delays
           \/ key = "item" /\ value \in Nat
           \/ key = "options" /\ value \in SUBSET Range(OptionItems),
           SettingStored(key, value) \/ SettingFailed(key, value)
    PROVE  stored' \in Settings /\ lost' \subseteq Keys /\ user' \in User
<1>1. key \in Keys
    BY DEF Keys
<1>2. [stored EXCEPT ![key] = value] \in Settings
    BY DEF Settings
<1>3. user' \in User
    BY FaultsKept DEF SettingStored, SettingFailed
<1> QED BY <1>1, <1>2, <1>3 DEF SettingStored, SettingFailed

\* No input changes the list, or what is being written.
LEMMA HandleFrame ==
    ASSUME NEW b, Handle(b)
    PROVE  UNCHANGED <<items, attrs, rescue_item_idx, upload>>
BY DEF Handle, Navigate, BootListCross, BootListSquare, BootListTriangle,
    BootListStart, OptionsCross, OptionsCircle, SettingsAdjust, SettingsCircle,
    SettingsToggle, SettingsStartAdjusting, SettingsAbout, AboutCircle,
    AboutCross, NotFoundInput, FoundInput, CompleteCircle, MessageCircle,
    OtherInput, list, update

\* The types of what an input may change.
Typed ==
    /\ autoboot \in [on : BOOLEAN, item : Nat, delay : Delays]
    /\ osdsys \subseteq Range(OptionItems) /\ opened \subseteq Range(OptionItems)
    /\ unasked \in BOOLEAN
    /\ adjusting \in [on : BOOLEAN, dirty : BOOLEAN]
    /\ update_type \in {"fw", "apps"}
    /\ stored \in Settings /\ lost \subseteq Keys /\ user \in User
    /\ running \in {MENU, OSDSYS, RESCUE} \cup {App(i) : i \in 1..NumApps}
    /\ hook \in BOOLEAN /\ returned \in BOOLEAN /\ repaint \in BOOLEAN

Items == {OSDSYS, RESCUE} \cup {App(i) : i \in 1..NumApps}

LEMMA BootTypes ==
    ASSUME user \in User, BootHilitedItem, hook \in BOOLEAN, returned \in BOOLEAN,
           running \in {MENU, OSDSYS, RESCUE} \cup {App(i) : i \in 1..NumApps},
           hilites["boot_list"] \in Nat
    PROVE  /\ user' \in User /\ hook' \in BOOLEAN /\ returned' \in BOOLEAN
           /\ running' \in {MENU, OSDSYS, RESCUE} \cup {App(i) : i \in 1..NumApps}
<1> DEFINE i == hilites["boot_list"]
<1>1. PICK commandFails \in BOOLEAN, loadFails \in BOOLEAN :
          /\ Faults((IF commandFails THEN 1 ELSE 0) + (IF loadFails THEN 1 ELSE 0))
          /\ hook' \in IF commandFails THEN {hook, TRUE} ELSE {hook \/ Asks(i)}
          /\ IF Exists(ItemAt(i)) /\ ~loadFails
             THEN running' = ItemAt(i) /\ UNCHANGED returned
             ELSE returned' = TRUE /\ UNCHANGED running
    BY DEF BootHilitedItem
<1>2. user' \in User
    BY <1>1, FaultsKept
<1>3. hook' \in BOOLEAN
    BY <1>1 DEF Asks
<1>4. Exists(ItemAt(i)) => ItemAt(i) \in {OSDSYS, RESCUE} \cup {App(j) : j \in 1..NumApps}
    <2>1. CASE i = 0 \/ i = rescue_item_idx
        BY <2>1 DEF ItemAt
    <2>2. CASE i # 0 /\ i # rescue_item_idx
        <3>1. ItemAt(i) = App(i)
            BY <2>2 DEF ItemAt
        <3>2. App(i) # OSDSYS /\ App(i) # RESCUE /\ App(i)[2] = i
            BY DEF App, OSDSYS, RESCUE
        <3>3. Exists(App(i)) => i <= NumApps
            BY <3>2 DEF Exists
        <3> QED BY <2>2, <3>1, <3>3
    <2> QED BY <2>1, <2>2
<1> QED BY <1>1, <1>2, <1>3, <1>4

LEMMA HandleTypes ==
    ASSUME Typed, Top \in Scenes, NEW b, Handle(b), hilites \in [ListScenes -> Nat],
           Top = "boot_options" => hilites["boot_options"] < Len(OptionItems)
    PROVE  Typed'
<1> DEFINE Rest == UNCHANGED <<autoboot, osdsys, opened, unasked, adjusting, update_type,
                               stored, lost, user, running, hook, returned>>
<1> USE DEF Typed
<1>1. CASE \/ Navigate(b) \/ BootListStart(b) \/ AboutCircle(b) \/ NotFoundInput(b)
           \/ FoundInput(b) \/ MessageCircle(b) \/ OtherInput(b)
    <2>1. Rest /\ repaint' \in BOOLEAN
        BY <1>1 DEF Navigate, BootListStart, AboutCircle, NotFoundInput, FoundInput,
            MessageCircle, OtherInput, options, update, chip, launch
    <2> QED BY <2>1
<1>2. CASE BootListCross(b)
    <2>1. UNCHANGED <<autoboot, osdsys, opened, unasked, adjusting, update_type, stored, lost>>
          /\ BootHilitedItem /\ repaint' = TRUE
        BY <1>2 DEF BootListCross, options, update
    <2>2. hilites["boot_list"] \in Nat
        BY DEF ListScenes
    <2> QED BY <2>1, <2>2, BootTypes
<1>3. CASE BootListSquare(b)
    <2> DEFINE i == hilites["boot_list"]
    <2>1. /\ UNCHANGED <<osdsys, opened, unasked, adjusting, update_type, running, hook, returned>>
          /\ SettingStored("item", i) \/ SettingFailed("item", i)
          /\ autoboot' \in {autoboot, [autoboot EXCEPT !.item = i]}
          /\ repaint' = TRUE
        BY <1>3 DEF BootListSquare, SaveOrTell, options, update, launch
    <2>2. i \in Nat
        BY DEF ListScenes
    <2>3. stored' \in Settings /\ lost' \subseteq Keys /\ user' \in User
        BY <2>1, <2>2, SettingKept
    <2> QED BY <2>1, <2>2, <2>3
<1>4. CASE BootListTriangle(b)
    <2>1. /\ UNCHANGED <<autoboot, adjusting, update_type, stored, running, hook, returned>>
          /\ \/ osdsys' = stored.options /\ lost' = lost \ {"options"} /\ UNCHANGED user
             \/ /\ Faults(1)
                /\ lost' = lost \cup {"options"}
                /\ osdsys' \in {osdsys, Range(OptionItems)}
          /\ opened' = osdsys' /\ unasked' = FALSE /\ repaint' = TRUE
        BY <1>4 DEF BootListTriangle, update, launch
    <2>2. user' \in User
        BY <2>1, FaultsKept
    <2>3. osdsys' \subseteq Range(OptionItems)
        BY <2>1 DEF Settings
    <2>4. lost' \subseteq Keys
        BY <2>1 DEF Keys
    <2> QED BY <2>1, <2>2, <2>3, <2>4
<1>5. CASE OptionsCross(b)
    <2> DEFINE o == OptionItems[hilites["boot_options"] + 1]
    <2>1. /\ UNCHANGED <<autoboot, opened, unasked, adjusting, update_type, stored, lost, user,
                         running, hook, returned>>
          /\ osdsys' = Toggled(o) /\ repaint' = TRUE /\ Top = "boot_options"
        BY <1>5 DEF OptionsCross, update, launch, chip
    <2>2. hilites["boot_options"] \in Nat
        BY DEF ListScenes
    <2>3. o \in Range(OptionItems)
        BY <2>1, <2>2 DEF OptionItems, Range
    <2>4. Toggled(o) \subseteq Range(OptionItems)
        BY <2>3 DEF Toggled
    <2> QED BY <2>1, <2>4
<1>6. CASE OptionsCircle(b)
    <2>1. /\ UNCHANGED <<autoboot, osdsys, unasked, adjusting, update_type, running, hook, returned>>
          /\ opened' = {} /\ repaint' = TRUE
          /\ \/ UNCHANGED <<stored, lost, user>>
             \/ SettingStored("options", osdsys) \/ SettingFailed("options", osdsys)
        BY <1>6 DEF OptionsCircle, update, launch, ToSave
    <2>2. stored' \in Settings /\ lost' \subseteq Keys /\ user' \in User
        BY <2>1, SettingKept
    <2> QED BY <2>1, <2>2
<1>7. CASE SettingsAdjust(b)
    <2>1. /\ UNCHANGED <<osdsys, opened, unasked, update_type, stored, lost, user, running,
                         hook, returned>>
          /\ adjusting' = [on |-> TRUE, dirty |-> TRUE] /\ repaint' = TRUE
        BY <1>7 DEF SettingsAdjust, update, launch, chip, options
    <2>2. \E d \in {More(autoboot.delay, StepSmall), More(autoboot.delay, StepBig),
                    Less(autoboot.delay, StepSmall), Less(autoboot.delay, StepBig)} :
              autoboot' = [autoboot EXCEPT !.delay = d]
        BY <1>7 DEF SettingsAdjust
    <2>3. autoboot' \in [on : BOOLEAN, item : Nat, delay : Delays]
        BY <2>2, AdjustedInRange
    <2> QED BY <2>1, <2>3
<1>8. CASE SettingsCircle(b)
    <2>1. /\ UNCHANGED <<autoboot, osdsys, opened, unasked, update_type, running, hook, returned>>
          /\ adjusting' = [on |-> FALSE, dirty |-> FALSE] /\ repaint' = TRUE
          /\ \/ UNCHANGED <<stored, lost, user>>
             \/ SettingStored("delay", autoboot.delay)
             \/ SettingFailed("delay", autoboot.delay)
        BY <1>8 DEF SettingsCircle, SaveOrTell, update, launch, options
    <2>2. stored' \in Settings /\ lost' \subseteq Keys /\ user' \in User
        BY <2>1, SettingKept
    <2> QED BY <2>1, <2>2
<1>9. CASE SettingsToggle(b)
    <2>1. /\ UNCHANGED <<osdsys, opened, unasked, adjusting, update_type, running, hook, returned>>
          /\ autoboot' = [autoboot EXCEPT !.on = ~autoboot.on] /\ repaint' = TRUE
          /\ SettingStored("on", ~autoboot.on) \/ SettingFailed("on", ~autoboot.on)
        BY <1>9 DEF SettingsToggle, SaveOrTell, update, launch, options
    <2>2. stored' \in Settings /\ lost' \subseteq Keys /\ user' \in User
        BY <2>1, SettingKept
    <2> QED BY <2>1, <2>2
<1>10. CASE SettingsStartAdjusting(b)
    <2>1. /\ UNCHANGED <<autoboot, osdsys, opened, unasked, update_type, stored, lost, user,
                         running, hook, returned>>
          /\ adjusting' = [adjusting EXCEPT !.on = TRUE] /\ repaint' = TRUE
        BY <1>10 DEF SettingsStartAdjusting, update, launch, chip, options
    <2> QED BY <2>1
<1>11. CASE SettingsAbout(b) \/ CompleteCircle(b)
    <2>1. /\ UNCHANGED <<autoboot, osdsys, opened, unasked, adjusting, update_type, stored, lost,
                         running, hook, returned>>
          /\ repaint' = TRUE
          /\ SwitchToAbout(scenes) \/ SwitchToAbout(BelowComplete)
        BY <1>11 DEF SettingsAbout, CompleteCircle, update, launch, chip, options
    <2>2. \E texts \in {<<>>, <<"fw version">>, <<"bootloader version">>,
                        <<"fw version", "bootloader version">>} : Faults(Len(texts))
        BY <2>1 DEF SwitchToAbout
    <2>3. user' \in User
        BY <2>2, FaultsKept
    <2> QED BY <2>1, <2>3
<1>12. CASE AboutCross(b)
    <2>1. /\ UNCHANGED <<autoboot, osdsys, opened, unasked, adjusting, stored, lost, user,
                         running, hook, returned>>
          /\ update_type' \in {"fw", "apps"} /\ repaint' = TRUE
        BY <1>12 DEF AboutCross, launch, chip, options
    <2> QED BY <2>1
<1> QED BY <1>1, <1>2, <1>3, <1>4, <1>5, <1>6, <1>7, <1>8, <1>9, <1>10, <1>11,
        <1>12 DEF Handle
\* Every hilite stays an item of its list.
LEMMA HandleHilites ==
    ASSUME hilites \in [ListScenes -> Nat], items \in Seq(Items), Len(items) > 0,
           \A s \in ListScenes : hilites[s] < list_len(s), NEW b, Handle(b)
    PROVE  hilites' \in [ListScenes -> Nat]
           /\ \A s \in ListScenes : hilites'[s] < list_len(s)
<1>1. \A s \in ListScenes : list_len(s) \in Nat \ {0} /\ hilites[s] \in Nat
    BY DEF list_len, ListScenes, OptionItems, SettingsItems, AboutItems, FoundItems
<1>2. \E s \in ListScenes, n \in Nat :
          n < list_len(s) /\ hilites' \in {hilites, [hilites EXCEPT ![s] = n]}
    <2>1. CASE Navigate(b)
        <3> DEFINE n == Moved(hilites[Top], list_len(Top), b)
        <3>1. Top \in ListScenes /\ hilites' = [hilites EXCEPT ![Top] = n]
            BY <2>1 DEF Navigate
        <3>2. n \in Nat /\ n < list_len(Top)
            BY <1>1, <3>1 DEF Moved
        <3> QED BY <3>1, <3>2
    <2>2. CASE ~Navigate(b)
        <3>1. \/ UNCHANGED hilites
              \/ \E s \in ListScenes : hilites' = [hilites EXCEPT ![s] = 0]
            BY <2>2 DEF Handle, BootListCross, BootListSquare, BootListTriangle,
                BootListStart, OptionsCross, OptionsCircle, SettingsAdjust,
                SettingsCircle, SettingsToggle, SettingsStartAdjusting, SettingsAbout,
                AboutCircle, AboutCross, NotFoundInput, FoundInput, CompleteCircle,
                MessageCircle, OtherInput, ui, ListScenes
        <3>2. "about" \in ListScenes
            BY DEF ListScenes
        <3> QED BY <1>1, <3>1, <3>2
    <2> QED BY <2>1, <2>2
<1> QED BY <1>1, <1>2

\* Before the boot list is there, an input moves nothing.
LEMMA HandleBefore ==
    ASSUME StackNow, ~Registered, NEW b, Handle(b)
    PROVE  UNCHANGED <<hilites, autoboot, stored, lost>>
<1>1. Top \in {"init", "message"}
    BY TopView DEF Scenes
<1> QED BY <1>1 DEF Handle, Navigate, BootListCross, BootListSquare, BootListTriangle,
    BootListStart, OptionsCross, OptionsCircle, SettingsAdjust, SettingsCircle,
    SettingsToggle, SettingsStartAdjusting, SettingsAbout, AboutCircle,
    AboutCross, NotFoundInput, FoundInput, CompleteCircle, MessageCircle,
    OtherInput, list, ui, chip, ListScenes, UpdateScenes

\* SavedIsShown, one setting at a time.
SavedNow ==
    /\ "on" \notin lost => autoboot.on = stored.on
    /\ "delay" \notin lost /\ ~adjusting.dirty => autoboot.delay = stored.delay
    /\ "item" \notin lost /\ Registered => autoboot.item = stored.item
    /\ "options" \notin lost /\ ~unasked /\ ~Contains(scenes, "boot_options") =>
          osdsys = stored.options
    /\ unasked => osdsys = {}

LEMMA SavedByKey ==
    /\ SavedIsShown <=> (phase # "main" => SavedNow)
    /\ SavedIsShown' <=> (phase' # "main" => SavedNow')
<1> DEFINE has == Contains(scenes, "boot_options")
<1>1. SavedIsShown <=> (phase # "main" => SavedNow)
    <2>1. SavedNow <=>
              /\ \A key \in Keys \ (lost \cup Edited) :
                    (key = "options" /\ unasked) \/ Shown(key) = stored[key]
              /\ unasked => osdsys = {}
        <3> HIDE DEF has
        <3> QED BY DEF SavedNow, Keys, Edited, Shown, has
    <2> QED BY <2>1 DEF SavedIsShown
<1>2. SavedIsShown' <=> (phase' # "main" => SavedNow')
    <2>1. SavedNow' <=>
              /\ \A key \in Keys \ (lost' \cup Edited') :
                    (key = "options" /\ unasked') \/ Shown(key)' = stored'[key]
              /\ unasked' => osdsys' = {}
        BY DEF SavedNow, Keys, Edited, Shown
    <2> QED BY <2>1 DEF SavedIsShown
<1> QED BY <1>1, <1>2

LEMMA HandleSaved ==
    ASSUME SavedInv, phase # "main", StackNow, NEW b, Handle(b), stored \in Settings,
           autoboot \in [on : BOOLEAN, item : Nat, delay : Delays],
           adjusting \in [on : BOOLEAN, dirty : BOOLEAN],
           UNCHANGED <<phase>> \/ phase' = "paint"
    PROVE  SavedInv'
<1> DEFINE has   == Contains(scenes, "boot_options")
           hasp  == Contains(scenes', "boot_options")
           rest  == \/ Navigate(b) \/ BootListCross(b) \/ BootListStart(b)
                    \/ SettingsStartAdjusting(b) \/ SettingsAbout(b) \/ AboutCircle(b)
                    \/ AboutCross(b) \/ NotFoundInput(b) \/ FoundInput(b)
                    \/ CompleteCircle(b) \/ MessageCircle(b) \/ OtherInput(b)
<1>1. /\ "on" \notin lost => autoboot.on = stored.on
      /\ "delay" \notin lost /\ ~adjusting.dirty => autoboot.delay = stored.delay
      /\ "item" \notin lost /\ Registered => autoboot.item = stored.item
      /\ "options" \notin lost /\ ~unasked /\ ~has => osdsys = stored.options
      /\ (unasked => osdsys = {}) /\ (has => ~unasked)
      /\ adjusting.dirty => adjusting.on
      /\ has /\ "options" \notin lost => opened = stored.options
    BY SavedByKey DEF SavedInv, SavedNow
<1>2. /\ Registered' = Registered
      /\ ~hasp => ~has \/ OptionsCircle(b)
      /\ hasp => has \/ BootListTriangle(b)
    BY InputStackKept
<1> SUFFICES /\ "on" \notin lost' => autoboot'.on = stored'.on
             /\ "delay" \notin lost' /\ ~adjusting'.dirty => autoboot'.delay = stored'.delay
             /\ "item" \notin lost' /\ Registered' => autoboot'.item = stored'.item
             /\ "options" \notin lost' /\ ~unasked' /\ ~hasp => osdsys' = stored'.options
             /\ (unasked' => osdsys' = {}) /\ (hasp => ~unasked')
             /\ adjusting'.dirty => adjusting'.on
             /\ hasp /\ "options" \notin lost' => opened' = stored'.options
    BY SavedByKey DEF SavedInv, SavedNow
<1>3. Top = "boot_options" => has
    <2>1. Top = "boot_options" => scenes = <<"boot_list", "boot_options">>
        BY TopView
    <2> QED BY <2>1, PathContains
<1> HIDE DEF has, hasp
<1>4. CASE /\ rest /\ ~OptionsCircle(b) /\ ~BootListTriangle(b)
    <2>1. UNCHANGED <<autoboot, osdsys, opened, unasked, stored, lost>>
          /\ adjusting' \in {adjusting, [adjusting EXCEPT !.on = TRUE]}
        BY <1>4 DEF Navigate, BootListCross, BootListStart,
            SettingsStartAdjusting, SettingsAbout, AboutCircle, AboutCross,
            NotFoundInput, FoundInput, CompleteCircle, MessageCircle, OtherInput,
            options, chip
    <2> QED BY <1>1, <1>2, <1>4, <2>1
<1>5. CASE BootListSquare(b)
    <2> DEFINE i == hilites["boot_list"]
    <2>1. /\ UNCHANGED <<osdsys, opened, unasked, adjusting>>
          /\ autoboot' = IF scenes' = scenes THEN [autoboot EXCEPT !.item = i] ELSE autoboot
          /\ \/ /\ stored' = [stored EXCEPT !["item"] = i] /\ lost' = lost \ {"item"}
                /\ scenes' = scenes
             \/ /\ stored' \in {stored, [stored EXCEPT !["item"] = i]}
                /\ lost' = lost \cup {"item"}
        BY <1>5 DEF BootListSquare, SaveOrTell, SettingStored, SettingFailed, options
    <2>2. Top = "boot_list"
        BY <1>5 DEF BootListSquare
    <2>3. ~OptionsCircle(b) /\ ~BootListTriangle(b)
        BY <1>5 DEF BootListSquare, OptionsCircle, BootListTriangle
    <2>4. stored' \in {stored, [stored EXCEPT !["item"] = i]}
          /\ autoboot' \in {autoboot, [autoboot EXCEPT !.item = i]}
        BY <2>1
    <2>5. /\ stored'.on = stored.on /\ stored'.delay = stored.delay
          /\ stored'.options = stored.options
          /\ autoboot'.on = autoboot.on /\ autoboot'.delay = autoboot.delay
        BY <2>4 DEF Settings
    <2>6. "item" \notin lost' => autoboot'.item = stored'.item
        BY <2>1 DEF Settings
    <2>7. \A k \in {"on", "delay", "options"} : k \in lost' <=> k \in lost
        BY <2>1
    <2> QED BY <1>1, <1>2, <2>1, <2>3, <2>5, <2>6, <2>7
<1>6. CASE BootListTriangle(b)
    <2>1. /\ UNCHANGED <<autoboot, adjusting, stored>>
          /\ opened' = osdsys' /\ unasked' = FALSE
          /\ \/ osdsys' = stored.options /\ lost' = lost \ {"options"}
             \/ lost' = lost \cup {"options"}
          /\ Top = "boot_list"
        BY <1>6 DEF BootListTriangle
    <2>2. ~OptionsCircle(b)
        BY <2>1 DEF OptionsCircle
    <2> QED BY <1>1, <1>2, <2>1, <2>2
<1>7. CASE OptionsCross(b)
    <2>1. UNCHANGED <<autoboot, adjusting, stored, lost, opened, unasked>> /\ Top = "boot_options"
          /\ b = "CROSS"
        BY <1>7 DEF OptionsCross, chip
    <2>2. ~OptionsCircle(b)
        BY <2>1 DEF OptionsCircle
    <2> QED BY <1>1, <1>2, <1>3, <2>1, <2>2
<1>8. CASE OptionsCircle(b)
    <2>1. /\ UNCHANGED <<autoboot, adjusting, osdsys, unasked>>
          /\ \/ opened = osdsys /\ UNCHANGED <<stored, lost>>
             \/ stored' = [stored EXCEPT !["options"] = osdsys] /\ lost' = lost \ {"options"}
             \/ /\ stored' \in {stored, [stored EXCEPT !["options"] = osdsys]}
                /\ lost' = lost \cup {"options"}
          /\ Top = "boot_options"
        BY <1>8 DEF OptionsCircle, SettingStored, SettingFailed, ToSave
    <2>2. ~hasp
        <3>1. scenes' = <<"boot_list">>
            BY <1>8, TopView DEF OptionsCircle
        <3> QED BY <3>1, PathContains DEF hasp
    <2>3. stored' \in {stored, [stored EXCEPT !["options"] = osdsys]}
        BY <2>1
    <2>4. stored'.on = stored.on /\ stored'.delay = stored.delay /\ stored'.item = stored.item
        BY <2>3 DEF Settings
    <2>5. "options" \notin lost' => osdsys' = stored'.options
        BY <1>1, <1>3, <2>1 DEF Settings
    <2>6. \A k \in {"on", "delay", "item"} : k \in lost' <=> k \in lost
        BY <2>1
    <2> QED BY <1>1, <1>2, <2>1, <2>2, <2>4, <2>5, <2>6
<1>9. CASE SettingsAdjust(b)
    <2>1. /\ UNCHANGED <<stored, lost, osdsys, opened, unasked>>
          /\ adjusting' = [on |-> TRUE, dirty |-> TRUE]
          /\ Top = "settings"
        BY <1>9 DEF SettingsAdjust, chip, options
    <2>2. autoboot'.on = autoboot.on /\ autoboot'.item = autoboot.item
        BY <1>9 DEF SettingsAdjust
    <2>3. ~OptionsCircle(b) /\ ~BootListTriangle(b)
        BY <2>1 DEF OptionsCircle, BootListTriangle
    <2> QED BY <1>1, <1>2, <2>1, <2>2, <2>3
<1>10. CASE SettingsCircle(b)
    <2> DEFINE d == autoboot.delay
    <2>1. /\ UNCHANGED <<autoboot, osdsys, opened, unasked>>
          /\ adjusting' = [on |-> FALSE, dirty |-> FALSE]
          /\ \/ ~adjusting.on /\ UNCHANGED <<stored, lost>>
             \/ ~adjusting.dirty /\ UNCHANGED <<stored, lost>>
             \/ stored' = [stored EXCEPT !["delay"] = d] /\ lost' = lost \ {"delay"}
             \/ /\ stored' \in {stored, [stored EXCEPT !["delay"] = d]}
                /\ lost' = lost \cup {"delay"}
          /\ Top = "settings"
        BY <1>10 DEF SettingsCircle, SaveOrTell, SettingStored, SettingFailed, options
    <2>2. stored' \in {stored, [stored EXCEPT !["delay"] = d]}
        BY <2>1
    <2>3. stored'.on = stored.on /\ stored'.options = stored.options /\ stored'.item = stored.item
        BY <2>2 DEF Settings
    <2>4. "delay" \notin lost' => autoboot'.delay = stored'.delay
        BY <1>1, <2>1 DEF Settings
    <2>5. \A k \in {"on", "options", "item"} : k \in lost' <=> k \in lost
        BY <2>1
    <2>6. ~OptionsCircle(b) /\ ~BootListTriangle(b)
        BY <2>1 DEF OptionsCircle, BootListTriangle
    <2> QED BY <1>1, <1>2, <2>1, <2>3, <2>4, <2>5, <2>6
<1>11. CASE SettingsToggle(b)
    <2> DEFINE v == ~autoboot.on
    <2>1. /\ UNCHANGED <<osdsys, opened, unasked, adjusting>>
          /\ autoboot' = [autoboot EXCEPT !.on = v]
          /\ \/ stored' = [stored EXCEPT !["on"] = v] /\ lost' = lost \ {"on"}
             \/ stored' \in {stored, [stored EXCEPT !["on"] = v]} /\ lost' = lost \cup {"on"}
          /\ Top = "settings"
        BY <1>11 DEF SettingsToggle, SaveOrTell, SettingStored, SettingFailed, options
    <2>2. stored' \in {stored, [stored EXCEPT !["on"] = v]}
        BY <2>1
    <2>3. /\ stored'.delay = stored.delay /\ stored'.options = stored.options
          /\ stored'.item = stored.item
          /\ autoboot'.delay = autoboot.delay /\ autoboot'.item = autoboot.item
        BY <2>1, <2>2 DEF Settings
    <2>4. "on" \notin lost' => autoboot'.on = stored'.on
        BY <2>1 DEF Settings
    <2>5. \A k \in {"delay", "options", "item"} : k \in lost' <=> k \in lost
        BY <2>1
    <2>6. ~OptionsCircle(b) /\ ~BootListTriangle(b)
        BY <2>1 DEF OptionsCircle, BootListTriangle
    <2> QED BY <1>1, <1>2, <2>1, <2>3, <2>4, <2>5, <2>6
<1> QED BY <1>4, <1>5, <1>6, <1>7, <1>8, <1>9, <1>10, <1>11 DEF Handle

\* What was checked is what is written: no input reaches it.
LEMMA HandleChecked ==
    ASSUME StackNow, CheckedInv, NEW b, Handle(b)
    PROVE  CheckedInv'
<1>1. Contains(scenes', "writing") => Contains(scenes, "writing")
    BY InputStackKept
<1>2. CASE AboutCross(b)
    <2>1. scenes = AboutPath
        BY <1>2, TopView DEF AboutCross
    <2>2. ~Contains(scenes, "writing")
        BY <2>1, PathContains
    <2> QED BY <1>1, <2>2 DEF CheckedInv
<1>3. CASE ~AboutCross(b)
    <2>1. UNCHANGED <<upload, update_type>>
        BY <1>3 DEF Handle, Navigate, BootListCross, BootListSquare, BootListTriangle,
            BootListStart, OptionsCross, OptionsCircle, SettingsAdjust, SettingsCircle,
            SettingsToggle, SettingsStartAdjusting, SettingsAbout, AboutCircle,
            NotFoundInput, FoundInput, CompleteCircle, MessageCircle, OtherInput, update
    <2>2. Checked' = Checked
        BY <2>1 DEF Checked
    <2> QED BY <1>1, <2>2 DEF CheckedInv
<1> QED BY <1>2, <1>3

\* A launch that comes back leaves the menu where it was.
LEMMA BootReturns ==
    ASSUME BootHilitedItem
    PROVE  running' = MENU => returned'
BY DEF BootHilitedItem, ItemAt, App, MENU, OSDSYS, RESCUE

LEMMA HandleHook ==
    ASSUME HookInv, running = MENU, NEW b, Handle(b)
    PROVE  HookInv'
<1>1. CASE BootListCross(b)
    BY <1>1, BootReturns DEF BootListCross, HookInv
<1>2. CASE ~BootListCross(b)
    <2>1. UNCHANGED <<hook, running, returned>>
        BY <1>2 DEF Handle, Navigate, BootListSquare, BootListTriangle,
            BootListStart, OptionsCross, OptionsCircle, SettingsAdjust, SettingsCircle,
            SettingsToggle, SettingsStartAdjusting, SettingsAbout, AboutCircle, AboutCross,
            NotFoundInput, FoundInput, CompleteCircle, MessageCircle, OtherInput,
            chip, launch
    <2> QED BY <2>1 DEF HookInv
<1> QED BY <1>1, <1>2
-----------------------------------------------------------------------------
(***************************************************************************)
(* Every step keeps the invariant                                          *)
(***************************************************************************)
\* The types, from what the lemmas above are about.
LEMMA TypedNow ==
    ASSUME TypeOK, Outside, phase # "main"
    PROVE  Typed
BY DEF TypeOK, Outside, Typed

LEMMA TypesNext ==
    ASSUME Typed', scenes' \in Seq(Scenes), messages' \in Seq(Texts),
           hilites' \in [ListScenes -> Nat], items' \in Seq(Items),
           attrs' \in Seq(SUBSET {"DISABLE", "OSDSYS"}), rescue_item_idx' \in Nat,
           {mass_event_received', touched', missed'} \subseteq BOOLEAN,
           phase' \in {"main", "start", "tick", "add", "remove", "input", "paint"},
           countdown' \in [active : BOOLEAN, sec : Nat, armed : BOOLEAN],
           countdown'.sec <= DelayMax, events' \in Nat, presses' \in Nat
    PROVE  TypeOK'
<1>1. Delays \subseteq Nat
    BY ConstantTypes
<1>2. user'.changes \in Nat /\ user'.faults \in Nat
    BY DEF Typed, User
<1>3. autoboot' \in [on : BOOLEAN, item : Nat, delay : Nat] /\ autoboot'.delay \in Delays
    BY <1>1 DEF Typed
<1> QED BY <1>2, <1>3 DEF Typed, TypeOK, Scenes, Items

\* An unchanged list stays in order.
LEMMA ListKept ==
    ASSUME ListInv, UNCHANGED <<items, attrs, rescue_item_idx>>, Registered' = Registered
    PROVE  ListInv' /\ (AppsListed' <=> AppsListed)
BY DEF ListInv, AppsListed, NoAppListed

LEMMA SavedKept ==
    ASSUME SavedInv, phase = "main" => phase' = "main",
           UNCHANGED <<autoboot, osdsys, opened, unasked, adjusting, stored, lost>>,
           Registered' = Registered,
           Contains(scenes', "boot_options") <=> Contains(scenes, "boot_options")
    PROVE  SavedInv'
<1>1. SavedNow' <=> SavedNow
    BY DEF SavedNow
<1> QED BY <1>1, SavedByKey DEF SavedInv

\* A stack is there once the first scene is.
LEMMA ShapeNext ==
    ASSUME StackNow'
    PROVE  StackShape'
BY DEF StackShape, StackNow, Stack, Notes

\* Steps that only the drive, the phase, the countdown or a launch takes part in
LEMMA QuietStep ==
    ASSUME IInv,
           UNCHANGED <<ui, list, options, update, stored, lost, autoboot, adjusting, inputs>>,
           \/ phase' = phase
           \/ /\ phase \notin {"main", "start"}
              /\ phase' \in {"tick", "add", "remove", "input", "paint"},
           countdown' \in [active : BOOLEAN, sec : Nat, armed : BOOLEAN],
           countdown'.sec <= DelayMax, countdown'.active = countdown.active,
           {mass_event_received', repaint', hook', returned', missed'} \subseteq BOOLEAN,
           running' \in {MENU, OSDSYS, RESCUE} \cup {App(i) : i \in 1..NumApps},
           events' \in Nat, Outside', RescueInv', HookInv',
           ~Registered => /\ ~mass_event_received'
                          /\ events' = 0 /\ ~missed' => ~drive'.rescue
    PROVE  IInv'
<1>1. UNCHANGED <<scenes, messages, hilites, items, attrs, rescue_item_idx, osdsys,
                  opened, unasked, update_type, upload, stored, lost, autoboot, adjusting,
                  touched, presses>>
    BY DEF ui, list, options, update, inputs
<1>2. Registered' = Registered
    BY <1>1 DEF Registered
<1>3. TypeOK'
    <2>1. user'.changes \in Nat /\ user'.faults \in Nat
        BY DEF Outside, User
    <2>2. phase' # "main" => autoboot'.delay \in Delays
        BY <1>1 DEF IInv, TypeOK
    <2>3. phase' \in {"main", "start", "tick", "add", "remove", "input", "paint"}
        BY DEF IInv, TypeOK
    <2> QED BY <1>1, <2>1, <2>2, <2>3 DEF IInv, TypeOK
<1>4. Before'
    BY <1>1, <1>2 DEF IInv, Before
<1>5. ListInv' /\ (AppsListed' <=> AppsListed)
    BY <1>1, <1>2, ListKept DEF IInv
<1>6. HilitesInv'
    BY <1>1, <1>2 DEF IInv, HilitesInv, list_len
<1>7. StackShape'
    BY <1>1 DEF IInv, StackShape
<1>8. CountdownInv'
    BY <1>1, <1>5 DEF IInv, CountdownInv
<1>9. SavedInv'
    <2>1. phase = "main" => phase' = "main"
        OBVIOUS
    <2> QED BY <1>1, <1>2, <2>1, SavedKept DEF IInv
<1>10. CheckedInv'
    <2>1. Checked' = Checked
        BY <1>1 DEF Checked
    <2> QED BY <1>1, <2>1 DEF IInv, CheckedInv
<1> QED BY <1>3, <1>4, <1>5, <1>6, <1>7, <1>8, <1>9, <1>10 DEF IInv

\* Without the list and the drive being looked at, the rescue item stays right.
LEMMA RescueKept ==
    ASSUME RescueInv, UNCHANGED <<rescue_item_idx, events, mass_event_received, missed, drive>>,
           Registered' = Registered, phase \notin {"add", "remove"},
           phase' \notin {"add", "remove"}
    PROVE  RescueInv'
BY DEF RescueInv, RescueListed

LEMMA InputStep ==
    ASSUME IInv, running = MENU, NEW b, Input(b)
    PROVE  IInv'
<1>1. /\ phase = "input" /\ phase' = "paint" /\ Handle(b)
      /\ presses \in Nat /\ presses > 0 /\ presses' = presses - 1
      /\ IF Top = "boot_list" THEN countdown' = EndCountdown /\ touched' = TRUE
         ELSE UNCHANGED <<countdown, touched>>
      /\ UNCHANGED <<drive, events, missed, mass_event_received>>
    BY DEF Input, outside, IInv, TypeOK
<1>2. StackNow /\ Typed
    BY <1>1, StackNowIs, TypedNow DEF IInv
<1>3. /\ StackNow' /\ Registered' = Registered
    BY <1>1, <1>2, InputStackKept
<1>4. UNCHANGED <<items, attrs, rescue_item_idx, upload>>
    BY <1>1, HandleFrame
<1>5. hilites' \in [ListScenes -> Nat] /\ HilitesInv'
    <2>1. CASE Registered
        <3>1. /\ hilites \in [ListScenes -> Nat] /\ items \in Seq(Items) /\ Len(items) > 0
              /\ \A s \in ListScenes : hilites[s] < list_len(s)
            BY <2>1 DEF IInv, TypeOK, Items, HilitesInv, ListInv
        <3>2. hilites' \in [ListScenes -> Nat] /\ \A s \in ListScenes : hilites'[s] < list_len(s)
            BY <1>1, <3>1, HandleHilites
        <3> QED BY <1>4, <3>2 DEF HilitesInv, list_len
    <2>2. CASE ~Registered
        BY <1>1, <1>2, <1>3, <2>2, HandleBefore DEF HilitesInv, IInv, TypeOK
    <2> QED BY <2>1, <2>2
<1>6. Typed'
    <2>1. Top \in Scenes
        BY <1>2, TopView
    <2>2. Top = "boot_options" => hilites["boot_options"] < Len(OptionItems)
        <3>1. Top = "boot_options" => Registered
            BY <1>2, TopView
        <3> QED BY <3>1 DEF IInv, HilitesInv, list_len, ListScenes
    <2>3. hilites \in [ListScenes -> Nat]
        BY DEF IInv, TypeOK
    <2> QED BY <1>1, <1>2, <2>1, <2>2, <2>3, HandleTypes
<1>7. TypeOK'
    <2>1. scenes' \in Seq(Scenes) /\ messages' \in Seq(Texts)
        <3>1. PICK m : m = messages' /\ m \in Seq(Texts)
            BY <1>3 DEF StackNow
        <3>2. PICK p \in UnderMessages : scenes' = Stack(p, m)
            BY <1>3, <3>1 DEF StackNow
        <3> QED BY <3>1, <3>2, StackFacts
    <2>2. /\ countdown' \in [active : BOOLEAN, sec : Nat, armed : BOOLEAN]
          /\ countdown'.sec <= DelayMax /\ touched' \in BOOLEAN
        BY <1>1 DEF EndCountdown, IInv, TypeOK
    <2>3. /\ items' \in Seq(Items) /\ attrs' \in Seq(SUBSET {"DISABLE", "OSDSYS"})
          /\ rescue_item_idx' \in Nat
        BY <1>4 DEF IInv, TypeOK, Items
    <2>4. /\ mass_event_received' \in BOOLEAN /\ missed' \in BOOLEAN
          /\ events' \in Nat /\ presses' \in Nat
        BY <1>1 DEF IInv, TypeOK
    <2> QED BY <1>1, <1>5, <1>6, <2>1, <2>2, <2>3, <2>4, TypesNext
<1>8. Outside'
    BY <1>1, <1>6 DEF Typed, Outside, IInv
<1>9. Before'
    <2>1. ASSUME ~Registered
          PROVE  UNCHANGED <<hilites, autoboot, stored, lost, countdown, touched>>
        <3>1. UNCHANGED <<hilites, autoboot, stored, lost>>
            BY <1>1, <1>2, <2>1, HandleBefore
        <3>2. Top # "boot_list"
            BY <1>2, <2>1, TopView
        <3> QED BY <1>1, <3>1, <3>2
    <2> QED BY <1>1, <1>3, <1>4, <2>1 DEF Before, IInv
<1>10. ListInv'
    BY <1>3, <1>4, ListKept DEF IInv
<1>11. StackShape'
    BY <1>3, ShapeNext
<1>12. RescueInv'
    BY <1>1, <1>3, <1>4, RescueKept DEF IInv
<1>13. CountdownInv'
    <2>1. countdown.active => Top = "boot_list"
        BY PathView DEF IInv, CountdownInv, Top
    <2>2. ~countdown'.active
        BY <1>1, <2>1 DEF EndCountdown, IInv, TypeOK
    <2> QED BY <2>2 DEF CountdownInv
<1>14. SavedInv'
    BY <1>1, <1>2, HandleSaved DEF IInv, Typed
<1>15. CheckedInv'
    BY <1>1, <1>2, HandleChecked DEF IInv
<1>16. HookInv'
    BY <1>1, HandleHook DEF IInv
<1> QED BY <1>5, <1>7, <1>8, <1>9, <1>10, <1>11, <1>12, <1>13, <1>14, <1>15, <1>16
        DEF IInv
\* The loop moves on with nothing to do, the alarm goes off, the scene is
\* painted, the list is about to look for the rescue item.
LEMMA IdleStep ==
    ASSUME IInv,
           UNCHANGED <<ui, list, options, update, chip, launch, outside, autoboot,
                       adjusting, user, inputs>>,
           \/ phase' = phase
           \/ /\ phase \notin {"main", "start", "add", "remove"}
              /\ phase' \in {"tick", "input", "paint"},
           repaint' \in BOOLEAN,
           countdown' \in [active : BOOLEAN, sec : Nat, armed : BOOLEAN],
           countdown'.sec <= DelayMax, countdown'.active = countdown.active
    PROVE  IInv'
<1>1. UNCHANGED <<scenes, rescue_item_idx, events, mass_event_received, missed, drive, user,
                  hook, running, returned>>
    BY DEF ui, list, outside, chip, launch
<1>2. RescueInv'
    <2>1. Registered' = Registered /\ Top' = Top
        BY <1>1 DEF Registered, Top
    <2> QED BY <1>1, <2>1 DEF IInv, RescueInv, RescueListed
<1>3. HookInv' /\ Outside'
    BY <1>1 DEF IInv, HookInv, Outside
<1>4. /\ {mass_event_received', repaint', hook', returned', missed'} \subseteq BOOLEAN
      /\ running' \in {MENU, OSDSYS, RESCUE} \cup {App(i) : i \in 1..NumApps}
      /\ events' \in Nat
    BY <1>1 DEF IInv, TypeOK
<1>5. ~Registered => /\ ~mass_event_received'
                     /\ events' = 0 /\ ~missed' => ~drive'.rescue
    BY <1>1 DEF IInv, Before
<1>6. UNCHANGED <<ui, list, options, update, stored, lost, autoboot, adjusting, inputs>>
    BY DEF chip
<1>7. \/ phase' = phase
      \/ /\ phase \notin {"main", "start"}
         /\ phase' \in {"tick", "add", "remove", "input", "paint"}
    OBVIOUS
<1> QED BY <1>2, <1>3, <1>4, <1>5, <1>6, <1>7, QuietStep

LEMMA CountdownTypes ==
    ASSUME IInv
    PROVE  /\ countdown \in [active : BOOLEAN, sec : Nat, armed : BOOLEAN]
           /\ countdown.sec <= DelayMax /\ repaint \in BOOLEAN
BY DEF IInv, TypeOK

LEMMA Stutter ==
    ASSUME IInv, UNCHANGED vars
    PROVE  IInv'
<1>1. UNCHANGED <<ui, list, options, update, chip, launch, outside, autoboot,
                  adjusting, user, inputs, phase, repaint, countdown>>
    BY DEF vars
<1> QED BY <1>1, IdleStep, CountdownTypes

LEMMA NoInputStep ==
    ASSUME IInv, NoInput
    PROVE  IInv'
BY IdleStep, CountdownTypes DEF NoInput

LEMMA AlarmStep ==
    ASSUME IInv, Alarm
    PROVE  IInv'
<1> DEFINE sec == IF countdown.sec # 0 THEN countdown.sec - 1 ELSE 0
<1>1. /\ countdown' = [countdown EXCEPT !.sec = sec, !.armed = Rearm(sec)]
      /\ repaint' = TRUE /\ phase' = phase
      /\ UNCHANGED <<ui, list, options, update, chip, launch, outside, autoboot,
                     adjusting, user, inputs>>
    BY DEF Alarm
<1>2. sec \in Nat /\ sec <= DelayMax
    BY CountdownTypes, ConstantTypes
<1>3. Rearm(sec) \in BOOLEAN
    BY DEF Rearm
<1>4. /\ countdown' \in [active : BOOLEAN, sec : Nat, armed : BOOLEAN]
      /\ countdown'.sec <= DelayMax /\ countdown'.active = countdown.active
    <2> HIDE DEF sec
    <2> QED BY <1>1, <1>2, <1>3, CountdownTypes
<1> QED BY <1>1, <1>4, IdleStep

LEMMA RefreshOpenStep ==
    ASSUME IInv, RefreshOpen
    PROVE  IInv'
<1>1. /\ phase = "tick" /\ Top = "boot_list" /\ missed' = FALSE
      /\ phase' = IF drive.rescue THEN "add" ELSE "remove"
      /\ UNCHANGED <<scenes, rescue_item_idx, events, mass_event_received, drive, user,
                     hook, running, returned, countdown, repaint>>
      /\ UNCHANGED <<ui, list, options, update, stored, lost, autoboot, adjusting, inputs>>
    BY DEF RefreshOpen, ui, list, outside, chip, launch
<1>2. RescueInv'
    <2>1. Registered' = Registered /\ Top' = Top
        BY <1>1 DEF Registered, Top
    <2> QED BY <1>1, <2>1 DEF RescueInv, RescueListed
<1>3. HookInv' /\ Outside'
    BY <1>1 DEF IInv, HookInv, Outside
<1>4. /\ {mass_event_received', repaint', hook', returned', missed'} \subseteq BOOLEAN
      /\ running' \in {MENU, OSDSYS, RESCUE} \cup {App(i) : i \in 1..NumApps}
      /\ events' \in Nat
    BY <1>1 DEF IInv, TypeOK
<1>5. Registered
    BY <1>1, StackNowIs, TopView DEF IInv
<1>6. /\ phase \notin {"main", "start"}
      /\ phase' \in {"tick", "add", "remove", "input", "paint"}
    BY <1>1
<1> QED BY <1>1, <1>2, <1>3, <1>4, <1>5, <1>6, CountdownTypes, QuietStep

\* An event sets the flag, or is known to be missed.
LEMMA MountEventStep ==
    ASSUME IInv, MountEvent
    PROVE  IInv'
<1>1. /\ events \in Nat /\ events > 0 /\ events' = events - 1
      /\ IF Registered
         THEN /\ mass_event_received' = TRUE
              /\ missed' = (missed \/ phase \in {"add", "remove"})
         ELSE missed' = TRUE /\ UNCHANGED mass_event_received
      /\ UNCHANGED <<scenes, rescue_item_idx, drive, user, hook, running, returned,
                     countdown, repaint, phase>>
      /\ UNCHANGED <<ui, list, options, update, stored, lost, autoboot, adjusting, inputs>>
    BY DEF MountEvent, ui, list, outside, chip, launch, IInv, TypeOK
<1>2. RescueInv'
    <2>1. Registered' = Registered /\ Top' = Top
        BY <1>1 DEF Registered, Top
    <2>2. phase \in {"add", "remove"} => missed'
        BY <1>1
    <2>3. phase \in {"add", "remove"} => Top = "boot_list"
        BY DEF IInv, RescueInv
    <2> QED BY <1>1, <2>1, <2>2, <2>3 DEF RescueInv, RescueListed
<1>3. HookInv' /\ Outside'
    BY <1>1 DEF IInv, HookInv, Outside
<1>4. /\ {mass_event_received', repaint', hook', returned', missed'} \subseteq BOOLEAN
      /\ running' \in {MENU, OSDSYS, RESCUE} \cup {App(i) : i \in 1..NumApps}
      /\ events' \in Nat
    <2>1. mass_event_received' \in BOOLEAN /\ missed' \in BOOLEAN
        <3>1. missed \in BOOLEAN /\ mass_event_received \in BOOLEAN
            BY DEF IInv, TypeOK
        <3>2. missed' \in {TRUE, missed \/ phase \in {"add", "remove"}}
            BY <1>1, Zenon
        <3>3. mass_event_received' \in {TRUE, mass_event_received}
            BY <1>1, Zenon
        <3> QED BY <3>1, <3>2, <3>3
    <2>2. repaint' \in BOOLEAN /\ hook' \in BOOLEAN /\ returned' \in BOOLEAN
        BY <1>1 DEF IInv, TypeOK
    <2>3. running' \in {MENU, OSDSYS, RESCUE} \cup {App(i) : i \in 1..NumApps}
        BY <1>1 DEF IInv, TypeOK
    <2>4. events' \in Nat
        BY <1>1
    <2> QED BY <2>1, <2>2, <2>3, <2>4
<1>5. ~Registered => /\ ~mass_event_received'
                     /\ events' = 0 /\ ~missed' => ~drive'.rescue
    BY <1>1 DEF IInv, Before
<1> QED BY <1>1, <1>2, <1>3, <1>4, <1>5, CountdownTypes, QuietStep

LEMMA NoDriveIsDrive == NoDrive \in Drives
<1>1. <<>> \in [{} -> UpdateFiles]
    OBVIOUS
<1> QED BY <1>1 DEF NoDrive, Drives

\* The event of a change is on its way.
LEMMA ChangeDriveStep ==
    ASSUME IInv, ChangeDrive
    PROVE  IInv'
<1>1. /\ events \in Nat /\ events' = events + 1
      /\ user.changes > 0 /\ user' = [user EXCEPT !.changes = @ - 1]
      /\ drive' \in IF drive = NoDrive THEN user.drives ELSE {NoDrive}
      /\ UNCHANGED <<scenes, rescue_item_idx, hook, running, returned, missed,
                     mass_event_received, countdown, repaint, phase>>
      /\ UNCHANGED <<ui, list, options, update, stored, lost, autoboot, adjusting, inputs>>
    BY DEF ChangeDrive, ui, list, chip, launch, IInv, TypeOK
<1>2. RescueInv'
    <2>1. Registered' = Registered /\ Top' = Top
        BY <1>1 DEF Registered, Top
    <2>2. events' # 0
        BY <1>1
    <2>3. phase \in {"add", "remove"} => Top = "boot_list"
        BY DEF IInv, RescueInv
    <2> QED BY <1>1, <2>1, <2>2, <2>3 DEF RescueInv, RescueListed
<1>3. HookInv'
    BY <1>1 DEF IInv, HookInv
<1>4. Outside'
    <2>1. user \in User /\ user' \in User
        BY <1>1 DEF IInv, Outside, User
    <2>2. drive' \in Drives
        BY <1>1, <2>1, NoDriveIsDrive DEF User
    <2> QED BY <2>1, <2>2 DEF Outside
<1>5. /\ {mass_event_received', repaint', hook', returned', missed'} \subseteq BOOLEAN
      /\ running' \in {MENU, OSDSYS, RESCUE} \cup {App(i) : i \in 1..NumApps}
      /\ events' \in Nat
    BY <1>1 DEF IInv, TypeOK
<1>6. ~Registered => /\ ~mass_event_received'
                     /\ events' = 0 /\ ~missed' => ~drive'.rescue
    BY <1>1 DEF IInv, Before
<1> QED BY <1>1, <1>2, <1>3, <1>4, <1>5, <1>6, CountdownTypes, QuietStep

\* The countdown has come to its end: the item is launched, or it is not.
LEMMA PaintBootListStep ==
    ASSUME IInv, PaintBootList, phase = "paint", phase' = "tick",
           UNCHANGED <<outside, inputs>>
    PROVE  IInv'
<1>1. /\ BootHilitedItem /\ repaint' = FALSE
      /\ UNCHANGED <<scenes, rescue_item_idx, events, missed, drive,
                     mass_event_received, countdown>>
      /\ UNCHANGED <<ui, list, options, update, stored, lost, autoboot, adjusting, inputs>>
    BY DEF PaintBootList, ui, list, outside
<1>2. RescueInv'
    <2>1. Registered' = Registered
        BY <1>1 DEF Registered
    <2> QED BY <1>1, <2>1, RescueKept DEF IInv
<1>3. HookInv'
    BY <1>1, BootReturns DEF HookInv
<1>4. /\ user' \in User /\ hook' \in BOOLEAN /\ returned' \in BOOLEAN
      /\ running' \in {MENU, OSDSYS, RESCUE} \cup {App(i) : i \in 1..NumApps}
    <2>1. /\ user \in User /\ hook \in BOOLEAN /\ returned \in BOOLEAN
          /\ running \in {MENU, OSDSYS, RESCUE} \cup {App(i) : i \in 1..NumApps}
          /\ hilites["boot_list"] \in Nat
        BY DEF IInv, TypeOK, Outside, ListScenes
    <2> QED BY <1>1, <2>1, BootTypes
<1>5. Outside'
    BY <1>1, <1>4 DEF IInv, Outside
<1>6. /\ {mass_event_received', repaint', hook', returned', missed'} \subseteq BOOLEAN
      /\ events' \in Nat
    BY <1>1, <1>4 DEF IInv, TypeOK
<1>7. ~Registered => /\ ~mass_event_received'
                     /\ events' = 0 /\ ~missed' => ~drive'.rescue
    BY <1>1 DEF IInv, Before
<1>8. /\ phase \notin {"main", "start"}
      /\ phase' \in {"tick", "add", "remove", "input", "paint"}
    OBVIOUS
<1> QED BY <1>1, <1>2, <1>3, <1>4, <1>5, <1>6, <1>7, <1>8, CountdownTypes, QuietStep
-----------------------------------------------------------------------------
\* Scenes of an update follow each other above the About scene.
LEMMA TickStack ==
    ASSUME StackNow, UpdateTick
    PROVE  /\ StackNow' /\ Registered /\ Registered' = Registered
           /\ Contains(scenes', "boot_options") <=> Contains(scenes, "boot_options")
           /\ Contains(scenes', "writing") => Top = "checking" /\ CheckPassed
<1> DEFINE after == {"found", "not_found", "rebooting", "complete"}
<1>1. Top \in UpdateScenes
    BY DEF UpdateTick, ScanningTick, CheckingTick, WritingTick, RebootingTick, UpdateScenes
<1>2. /\ scenes = Append(AboutPath, Top) /\ Covered = AboutPath /\ messages = <<>>
      /\ Registered
    BY <1>1, TopView DEF UpdateScenes
<1>3. scenes \in PlainPaths \cup {Append(AboutPath, "writing")}
    BY <1>1, <1>2 DEF PlainPaths
<1>4. ASSUME NEW s \in after, scenes' = Append(Covered, s), messages' = messages
      PROVE  StackMoves /\ ~Contains(scenes', "writing")
    <2>1. Append(AboutPath, s) \in PlainPaths
        BY DEF PlainPaths, UpdateScenes
    <2>2. Append(AboutPath, s) \in UnderMessages
        BY <2>1, PlainPathFacts
    <2>3. scenes' = Append(AboutPath, s) /\ messages' = <<>>
        BY <1>2, <1>4
    <2> QED BY <1>3, <2>1, <2>2, <2>3, BarePath, PathChanges
<1>5. ASSUME NEW text \in Texts, Message(Covered, text)
      PROVE  StackMoves /\ ~Contains(scenes', "writing")
    <2>1. PICK m : m = <<text>> /\ m \in Seq(Texts)
        BY <1>5, TuplesAreSeqs
    <2>2. m = Append(<<>>, text) /\ <<>> \in Seq(Texts)
        BY <2>1
    <2>3. AboutPath \in PlainPaths
        BY DEF PlainPaths
    <2>4. AboutPath \in UnderMessages
        BY <2>3, PlainPathFacts
    <2>5. Append(Stack(AboutPath, <<>>), "message") = Stack(AboutPath, m)
          /\ Stack(AboutPath, <<>>) = AboutPath
        BY <1>5, <2>2, <2>4, StackFacts
    <2>6. scenes' = Stack(AboutPath, m) /\ messages' = m
        BY <1>2, <1>5, <2>2, <2>5 DEF Message
    <2> QED BY <1>3, <2>1, <2>3, <2>6, PathChanges
<1>6. CASE ScanningTick
    <2>1. messages' = messages /\ \E s \in after : scenes' = Append(Covered, s)
        BY <1>6 DEF ScanningTick
    <2> QED BY <1>2, <1>4, <2>1 DEF StackMoves
<1>7. CASE CheckingTick /\ CheckPassed
    <2>1. scenes' = Append(AboutPath, "writing") /\ messages' = <<>> /\ Top = "checking"
        BY <1>2, <1>7 DEF CheckingTick, CheckPassed
    <2>2. "writing" \in UpdateScenes /\ "boot_options" # "writing"
        BY DEF UpdateScenes
    <2>3. Append(AboutPath, "writing") \in UnderMessages
        BY <2>2, Paths, PathSteps
    <2>4. StackNow'
        BY <2>1, <2>3, BarePath
    <2>5. scenes'[1] = "boot_list" /\ scenes' # <<>>
        BY <2>1 DEF AboutPath
    <2>6. ~Contains(scenes', "boot_options")
        BY <2>1, <2>2, PathContains
    <2>7. ~Contains(scenes, "boot_options")
        <3>1. Top # "boot_options"
            BY <2>1
        <3> QED BY <1>1, <1>2, <3>1, PathContains
    <2> QED BY <1>2, <1>7, <2>1, <2>4, <2>5, <2>6, <2>7 DEF Registered
<1>8. CASE CheckingTick /\ CheckFailed
    <2>1. Message(Covered, "update file") /\ "update file" \in Texts
        BY <1>8 DEF CheckFailed, GiveUp, Texts
    <2> QED BY <1>2, <1>5, <2>1 DEF StackMoves
<1>9. CASE WritingTick \/ RebootingTick
    <2>1. \/ messages' = messages /\ \E s \in after : scenes' = Append(Covered, s)
          \/ \E text \in Texts : Message(Covered, text)
        BY <1>9 DEF WritingTick, RebootingTick, GiveUp, Texts
    <2> QED BY <1>2, <1>4, <1>5, <2>1 DEF StackMoves
<1> QED BY <1>6, <1>7, <1>8, <1>9 DEF UpdateTick, CheckingTick

LEMMA UpdateTickTypes ==
    ASSUME UpdateTick, user \in User, hilites \in [ListScenes -> Nat]
    PROVE  /\ user' \in User
           /\ hilites' \in {hilites, [hilites EXCEPT !["found"] = 0]}
           /\ update_type' = update_type
<1>1. update_type' = update_type
    BY DEF UpdateTick, ScanningTick, CheckingTick, WritingTick, RebootingTick, update
<1>2. hilites' \in {hilites, [hilites EXCEPT !["found"] = 0]}
    BY DEF UpdateTick, ScanningTick, CheckingTick, CheckPassed, CheckFailed, WritingTick,
        RebootingTick, GiveUp
<1>3. user' \in User
    <2>1. UNCHANGED user \/ \E n \in Nat : Faults(n)
        <3>1. CASE CheckingTick /\ CheckPassed
            <4>1. PICK unread \in SUBSET {"FW", "FW_UPDATE"} : Faults(Cardinality(unread))
                BY <3>1 DEF CheckPassed
            <4>2. IsFiniteSet({"FW", "FW_UPDATE"})
                <5>1. IsFiniteSet({"FW"} \cup {"FW_UPDATE"})
                    <6>1. IsFiniteSet({"FW"})
                        BY FS_Singleton
                    <6> QED BY <6>1, FS_AddElement
                <5>2. {"FW"} \cup {"FW_UPDATE"} = {"FW", "FW_UPDATE"}
                    OBVIOUS
                <5> QED BY <5>1, <5>2
            <4>3. Cardinality(unread) \in Nat
                BY <4>2, FS_Subset, FS_CardinalityType
            <4> QED BY <4>1, <4>3
        <3>2. CASE ~(CheckingTick /\ CheckPassed)
            BY <3>2 DEF UpdateTick, ScanningTick, CheckingTick, CheckFailed, WritingTick,
                RebootingTick
        <3> QED BY <3>1, <3>2
    <2> QED BY <2>1, FaultsKept
<1> QED BY <1>1, <1>2, <1>3

\* What goes on to be written has been checked, with the drive as it is now.
LEMMA CheckPasses ==
    ASSUME CheckPassed, update_type' = update_type, update_type \in {"fw", "apps"},
           drive \in Drives
    PROVE  Checked'
<1> DEFINE file == drive.files[update_type]
<1>1. PICK unread \in SUBSET {"FW", "FW_UPDATE"} :
          /\ FitsPartitions(unread)
          /\ upload' = [type |-> update_type, file |-> file, guessed |-> unread # {}]
    BY DEF CheckPassed
<1>2. file \in UpdateFiles
    <2>1. update_type \in DOMAIN drive.files
        BY DEF CheckPassed
    <2>2. drive.files \in [{} -> UpdateFiles] \cup [{"fw"} -> UpdateFiles]
              \cup [{"apps"} -> UpdateFiles] \cup [{"fw", "apps"} -> UpdateFiles]
        BY DEF Drives
    <2> QED BY <2>1, <2>2
<1>3. ReadsWell(file) /\ (update_type = "fw" => ~PinsDiffer(BoardPins, file.pins))
    BY DEF CheckPassed
<1>4. Fits(update_type, UpdateSize(file),
           Restrict(PartitionSize, DOMAIN PartitionSize \ unread))
    BY <1>1 DEF FitsPartitions
<1> HIDE DEF file
<1> DEFINE blocks == file.blocks
           size   == Len(blocks) * BlockSize
<1>5. /\ \A i \in DOMAIN blocks : blocks[i].family \in {"none", "rp2040"}
      /\ (\A i \in DOMAIN blocks : blocks[i].addr # 0) => InPlace(blocks)
      /\ update_type = "apps" => size <= PartitionSize["APPS"]
      /\ update_type = "fw" /\ unread = {} =>
            size <= PartitionSize["FW"] /\ size <= PartitionSize["FW_UPDATE"]
      /\ update_type = "fw" =>
            \/ \E g \in PinGroups : file.pins[g] = {}
            \/ UNION Range(file.pins) = UNION Range(BoardPins)
    BY <1>2, <1>3, <1>4, PassedIsChecked
<1>6. /\ upload'.type = update_type /\ upload'.file = file
      /\ ~upload'.guessed => unread = {}
    BY <1>1
<1>7. /\ upload'.file.blocks = blocks /\ upload'.file.pins = file.pins
      /\ Len(upload'.file.blocks) * BlockSize = size
    BY <1>6
<1> HIDE DEF blocks, size
<1> QED BY <1>5, <1>6, <1>7, Zenon DEF Checked

LEMMA UpdateTickStep ==
    ASSUME IInv, UpdateTick, phase = "tick", phase' = "input", repaint' = TRUE,
           UNCHANGED <<list, options, chip, launch, outside, autoboot, countdown,
                       adjusting, inputs>>
    PROVE  IInv'
<1>1. UNCHANGED <<items, attrs, rescue_item_idx, osdsys, opened, unasked, stored, hook, lost,
                  running, returned, drive, events, missed, mass_event_received,
                  autoboot, countdown, adjusting, touched, presses>>
    BY DEF list, options, chip, launch, outside, inputs
<1>2. StackNow /\ Typed
    BY StackNowIs, TypedNow DEF IInv
<1>3. /\ StackNow' /\ Registered /\ Registered' = Registered
      /\ Contains(scenes', "boot_options") <=> Contains(scenes, "boot_options")
      /\ Contains(scenes', "writing") => Top = "checking" /\ CheckPassed
    BY <1>2, TickStack
<1>4. /\ user' \in User /\ update_type' = update_type
      /\ hilites' \in {hilites, [hilites EXCEPT !["found"] = 0]}
      /\ hilites \in [ListScenes -> Nat] /\ "found" \in ListScenes
    BY <1>2, UpdateTickTypes DEF Typed, IInv, TypeOK, ListScenes
<1>5. TypeOK'
    <2>1. Typed'
        BY <1>1, <1>2, <1>4 DEF Typed
    <2>2. scenes' \in Seq(Scenes) /\ messages' \in Seq(Texts)
        <3>1. PICK m : m = messages' /\ m \in Seq(Texts)
            BY <1>3 DEF StackNow
        <3>2. PICK p \in UnderMessages : scenes' = Stack(p, m)
            BY <1>3, <3>1 DEF StackNow
        <3> QED BY <3>1, <3>2, StackFacts
    <2>3. hilites' \in [ListScenes -> Nat]
        BY <1>4
    <2> QED BY <1>1, <2>1, <2>2, <2>3, TypesNext DEF IInv, TypeOK, Items
<1>6. Outside'
    BY <1>1, <1>4 DEF IInv, Outside
<1>7. Before'
    BY <1>3 DEF Before
<1>8. ListInv'
    BY <1>1, <1>3, ListKept DEF IInv
<1>9. HilitesInv'
    <2>1. \A s \in ListScenes : hilites[s] < list_len(s)
        BY <1>3 DEF IInv, HilitesInv
    <2>2. \A s \in ListScenes : hilites'[s] = hilites[s] \/ (s = "found" /\ hilites'[s] = 0)
        BY <1>4
    <2>3. list_len("found") = 2
        BY DEF list_len, FoundItems
    <2>4. \A s \in ListScenes : hilites'[s] < list_len(s)
        BY <2>1, <2>2, <2>3
    <2> QED BY <1>1, <2>4 DEF HilitesInv, list_len
<1>10. StackShape'
    BY <1>3, ShapeNext
<1>11. RescueInv'
    BY <1>1, <1>3, RescueKept DEF IInv
<1>12. CountdownInv'
    <2>1. countdown.active => Top = "boot_list"
        BY PathView DEF IInv, CountdownInv, Top
    <2>2. Top # "boot_list"
        BY DEF UpdateTick, ScanningTick, CheckingTick, WritingTick, RebootingTick
    <2> QED BY <1>1, <2>1, <2>2 DEF CountdownInv
<1>13. SavedInv'
    BY <1>1, <1>3, SavedKept DEF IInv
<1>14. CheckedInv'
    BY <1>3, <1>4, CheckPasses DEF CheckedInv, IInv, Outside, TypeOK
<1>15. HookInv'
    BY <1>1 DEF IInv, HookInv
<1> QED BY <1>5, <1>6, <1>7, <1>8, <1>9, <1>10, <1>11, <1>12, <1>13, <1>14, <1>15
        DEF IInv

LEMMA TickStep ==
    ASSUME IInv, Tick
    PROVE  IInv'
<1>1. CASE UpdateTick /\ repaint' = TRUE
    BY <1>1, UpdateTickStep DEF Tick
<1>2. CASE UNCHANGED <<ui, update, user, repaint>>
    BY <1>2, IdleStep, CountdownTypes DEF Tick
<1> QED BY <1>1, <1>2 DEF Tick
-----------------------------------------------------------------------------
\* The rescue item comes last, or goes from there; the hilite stays.
LEMMA RefreshedList ==
    ASSUME IInv, RefreshFinish, Registered, Registered' = Registered
    PROVE  /\ ListInv' /\ HilitesInv' /\ (AppsListed => AppsListed')
           /\ items' \in Seq(Items) /\ attrs' \in Seq(SUBSET {"DISABLE", "OSDSYS"})
           /\ rescue_item_idx' \in Nat /\ hilites' \in [ListScenes -> Nat]
           /\ AppsListed /\ hilites["boot_list"] <= NumApps =>
                 hilites'["boot_list"] = hilites["boot_list"]
           /\ (rescue_item_idx' # 0) = (phase = "add")
<1> DEFINE Attrs == SUBSET {"DISABLE", "OSDSYS"}
           n     == Len(items)
<1>1. /\ items \in Seq(Items) /\ attrs \in Seq(Attrs) /\ n \in Nat \ {0}
      /\ Len(attrs) = n /\ items[1] = OSDSYS /\ attrs[1] = {"DISABLE", "OSDSYS"}
      /\ rescue_item_idx \in Nat
      /\ rescue_item_idx # 0 => rescue_item_idx + 1 = n /\ items[n] = RESCUE
      /\ hilites \in [ListScenes -> Nat] /\ "boot_list" \in ListScenes
      /\ \A s \in ListScenes : hilites[s] < list_len(s)
      /\ hilites["boot_list"] < n
      /\ NumApps \in Nat
    <2>1. /\ items \in Seq(Items) /\ attrs \in Seq(Attrs)
          /\ rescue_item_idx \in Nat /\ hilites \in [ListScenes -> Nat]
        BY DEF IInv, TypeOK, Items
    <2>2. /\ Len(attrs) = n /\ n > 0 /\ items[1] = OSDSYS
          /\ attrs[1] = {"DISABLE", "OSDSYS"}
          /\ rescue_item_idx # 0 => rescue_item_idx + 1 = n /\ items[n] = RESCUE
        BY DEF IInv, ListInv
    <2>3. /\ "boot_list" \in ListScenes /\ list_len("boot_list") = n
          /\ \A s \in ListScenes : hilites[s] < list_len(s)
        BY DEF IInv, HilitesInv, ListScenes, list_len
    <2>4. n \in Nat
        BY <2>1, LenProperties
    <2>5. hilites["boot_list"] < n
        BY <2>3
    <2> HIDE DEF n
    <2> QED BY <2>1, <2>2, <2>3, <2>4, <2>5, ConstantTypes
<1>2. /\ DOMAIN items = 1..n
      /\ \A i \in 1..n :
            /\ items[i] = RESCUE => attrs[i] = {"DISABLE"}
            /\ items[i] # RESCUE => items[i] = (IF i = 1 THEN OSDSYS ELSE App(i - 1))
    BY <1>1, LenProperties DEF IInv, ListInv
<1>3. AppsListed \/ NoAppListed
    BY DEF IInv, ListInv
<1>4. OSDSYS # RESCUE /\ \A i : App(i) # RESCUE
    BY DEF OSDSYS, RESCUE, App
<1>5. CASE phase = "add" /\ AddItem
    <2>1. /\ items' = Append(items, RESCUE) /\ attrs' = Append(attrs, {"DISABLE"})
          /\ rescue_item_idx' = n /\ hilites' = hilites
        BY <1>5 DEF AddItem
    <2>2. /\ items' \in Seq(Items) /\ Len(items') = n + 1 /\ items'[n + 1] = RESCUE
          /\ \A i \in 1..n : items'[i] = items[i]
        <3>1. RESCUE \in Items
            BY DEF Items
        <3> QED BY <1>1, <2>1, <3>1, AppendProperties
    <2>3. /\ attrs' \in Seq(Attrs) /\ Len(attrs') = n + 1 /\ attrs'[n + 1] = {"DISABLE"}
          /\ \A i \in 1..n : attrs'[i] = attrs[i]
        BY <1>1, <2>1, AppendProperties
    <2>4. DOMAIN items' = 1..(n + 1)
        BY <2>2, LenProperties
    <2> HIDE DEF n
    <2>5. AppsListed => AppsListed'
        BY <1>1, <1>2, <2>2, <2>4 DEF AppsListed
    <2>6. NoAppListed => NoAppListed'
        BY <1>1, <1>2, <2>2, <2>4 DEF NoAppListed
    <2>7. \A i \in 1..(n + 1) :
              /\ items'[i] = RESCUE => attrs'[i] = {"DISABLE"}
              /\ items'[i] # RESCUE => items'[i] = (IF i = 1 THEN OSDSYS ELSE App(i - 1))
        BY <1>1, <1>2, <2>2, <2>3
    <2>8. ListInv'
        BY <1>1, <1>3, <2>1, <2>2, <2>3, <2>4, <2>5, <2>6, <2>7 DEF ListInv
    <2>9. HilitesInv'
        <3>1. ASSUME NEW s \in ListScenes
              PROVE  hilites'[s] < list_len(s)'
            <4>1. CASE s = "boot_list"
                BY <1>1, <2>1, <2>2, <4>1 DEF list_len
            <4>2. CASE s # "boot_list"
                <5>1. hilites[s] < list_len(s) /\ list_len(s)' = list_len(s)
                    BY <1>1, <4>2 DEF list_len, ListScenes
                <5> QED BY <2>1, <5>1
            <4> QED BY <4>1, <4>2
        <3> QED BY <3>1 DEF HilitesInv
    <2> QED BY <1>1, <1>5, <2>1, <2>2, <2>3, <2>5, <2>8, <2>9
<1>6. CASE phase = "remove" /\ rescue_item_idx # 0 /\ RemoveItem(rescue_item_idx)
           /\ rescue_item_idx' = 0
    <2>1. n = rescue_item_idx + 1 /\ items[n] = RESCUE /\ n > 1
        BY <1>1, <1>4, <1>6
    <2>2. /\ items' = Front(items) /\ attrs' = Front(attrs)
          /\ hilites' = [hilites EXCEPT !["boot_list"] =
                            IF @ >= n - 1 THEN n - 2 ELSE @]
        <3>1. RemoveAt(items, Len(items)) = Front(items)
            BY <1>1, RemoveLast
        <3>2. RemoveAt(attrs, Len(attrs)) = Front(attrs)
            BY <1>1, RemoveLast
        <3> QED BY <1>1, <1>6, <2>1, <3>1, <3>2 DEF RemoveItem
    <2>3. /\ items' \in Seq(Items) /\ Len(items') = n - 1
          /\ \A i \in 1..(n - 1) : items'[i] = items[i]
        BY <1>1, <2>2, FrontFacts
    <2>4. /\ attrs' \in Seq(Attrs) /\ Len(attrs') = n - 1
          /\ \A i \in 1..(n - 1) : attrs'[i] = attrs[i]
        BY <1>1, <2>2, FrontFacts
    <2>5. DOMAIN items' = 1..(n - 1)
        BY <2>3, LenProperties
    <2> HIDE DEF n
    <2>6. AppsListed => AppsListed'
        BY <1>1, <1>2, <1>4, <2>1, <2>3, <2>5 DEF AppsListed
    <2>7. NoAppListed => NoAppListed'
        BY <1>1, <1>2, <2>3, <2>5 DEF NoAppListed
    <2>8. \A i \in 1..(n - 1) :
              /\ items'[i] = RESCUE => attrs'[i] = {"DISABLE"}
              /\ items'[i] # RESCUE => items'[i] = (IF i = 1 THEN OSDSYS ELSE App(i - 1))
        BY <1>1, <1>2, <2>3, <2>4
    <2>9. ListInv'
        BY <1>1, <1>3, <1>6, <2>1, <2>3, <2>4, <2>5, <2>6, <2>7, <2>8 DEF ListInv
    <2>10. /\ hilites' \in [ListScenes -> Nat] /\ hilites'["boot_list"] < n - 1
           /\ \A s \in ListScenes \ {"boot_list"} : hilites'[s] = hilites[s]
           /\ hilites["boot_list"] < n - 1 => hilites'["boot_list"] = hilites["boot_list"]
        BY <1>1, <2>1, <2>2
    <2>11. HilitesInv'
        <3>1. ASSUME NEW s \in ListScenes \ {"boot_list"}
              PROVE  hilites[s] < list_len(s) /\ list_len(s)' = list_len(s)
            BY <1>1 DEF list_len, ListScenes
        <3>2. list_len("boot_list")' = n - 1
            BY <2>3 DEF list_len
        <3>3. ASSUME NEW s \in ListScenes
              PROVE  hilites'[s] < list_len(s)'
            <4>1. CASE s = "boot_list"
                BY <2>10, <3>2, <4>1
            <4>2. CASE s # "boot_list"
                BY <2>10, <3>1, <4>2
            <4> QED BY <4>1, <4>2
        <3> QED BY <3>3 DEF HilitesInv
    <2>12. AppsListed => NumApps < n - 1
        <3>1. CASE NumApps = 0
            BY <1>1, <2>1, <3>1
        <3>2. ASSUME NumApps # 0, AppsListed
              PROVE  NumApps < n - 1
            <4>1. NumApps + 1 \in 1..n /\ items[NumApps + 1] = App(NumApps)
                BY <1>1, <1>2, <3>2 DEF AppsListed
            <4> QED BY <1>1, <1>4, <2>1, <4>1
        <3> QED BY <3>1, <3>2
    <2>13. AppsListed /\ hilites["boot_list"] <= NumApps =>
              hilites'["boot_list"] = hilites["boot_list"]
        BY <1>1, <2>10, <2>12
    <2> QED BY <1>6, <2>3, <2>4, <2>6, <2>9, <2>10, <2>11, <2>13
<1>7. CASE phase = "remove" /\ rescue_item_idx = 0 /\ UNCHANGED <<list, hilites>>
    <2>1. UNCHANGED <<items, attrs, rescue_item_idx, hilites>>
        BY <1>7 DEF list
    <2>2. ListInv' /\ (AppsListed' <=> AppsListed)
        BY <2>1, ListKept DEF IInv
    <2>3. HilitesInv'
        BY <1>1, <2>1 DEF HilitesInv, list_len
    <2> QED BY <1>1, <1>7, <2>1, <2>2, <2>3
<1> QED BY <1>5, <1>6, <1>7 DEF RefreshFinish

LEMMA RefreshFinishStep ==
    ASSUME IInv, RefreshFinish
    PROVE  IInv'
<1>1. /\ phase \in {"add", "remove"} /\ phase' = "input" /\ repaint' = TRUE
      /\ mass_event_received' = FALSE
      /\ UNCHANGED <<scenes, messages, osdsys, opened, unasked, update_type, upload, stored, hook,
                     lost, running, returned, drive, events, missed, autoboot, countdown,
                     adjusting, user, touched, presses>>
    BY DEF RefreshFinish, options, update, chip, launch, inputs
<1>2. StackNow /\ Typed
    BY <1>1, StackNowIs, TypedNow DEF IInv
<1>3. Top = "boot_list" /\ Registered /\ Registered' = Registered
    <2>1. Top = "boot_list"
        BY <1>1 DEF IInv, RescueInv
    <2> QED BY <1>1, <1>2, <2>1, TopView DEF Registered
<1>4. /\ ListInv' /\ HilitesInv' /\ (AppsListed => AppsListed')
      /\ items' \in Seq(Items) /\ attrs' \in Seq(SUBSET {"DISABLE", "OSDSYS"})
      /\ rescue_item_idx' \in Nat /\ hilites' \in [ListScenes -> Nat]
      /\ AppsListed /\ hilites["boot_list"] <= NumApps =>
            hilites'["boot_list"] = hilites["boot_list"]
      /\ (rescue_item_idx' # 0) = (phase = "add")
    BY <1>3, RefreshedList
<1>5. TypeOK'
    <2>1. Typed'
        BY <1>1, <1>2 DEF Typed
    <2>2. scenes' \in Seq(Scenes) /\ messages' \in Seq(Texts)
        BY <1>1, <1>2, StackTypes
    <2> QED BY <1>1, <1>4, <2>1, <2>2, TypesNext DEF IInv, TypeOK
<1>6. Outside'
    BY <1>1 DEF IInv, Outside
<1>7. Before'
    BY <1>1, <1>3 DEF Before
<1>8. StackShape'
    BY <1>1, <1>2, ShapeNext DEF StackNow
<1>9. RescueInv'
    <2>1. phase = "add" /\ events = 0 /\ ~missed => drive.rescue
        BY DEF IInv, RescueInv
    <2>2. phase = "remove" /\ events = 0 /\ ~missed => ~drive.rescue
        BY DEF IInv, RescueInv
    <2>3. drive.rescue \in BOOLEAN
        BY DEF IInv, Outside, Drives
    <2> QED BY <1>1, <1>4, <2>1, <2>2, <2>3 DEF RescueInv, RescueListed
<1>10. CountdownInv'
    <2>1. ASSUME countdown.active
          PROVE  AppsListed /\ hilites["boot_list"] <= NumApps
        <3>1. AppsListed /\ hilites["boot_list"] =
                  (IF "item" \notin lost /\ stored.item \in 1..NumApps THEN stored.item ELSE 0)
            BY <2>1 DEF IInv, CountdownInv
        <3> QED BY <3>1, ConstantTypes
    <2> QED BY <1>1, <1>4, <2>1 DEF IInv, CountdownInv
<1>11. SavedInv'
    BY <1>1, <1>3, SavedKept DEF IInv
<1>12. CheckedInv'
    <2>1. Checked' = Checked
        BY <1>1 DEF Checked
    <2> QED BY <1>1, <2>1 DEF IInv, CheckedInv
<1>13. HookInv'
    BY <1>1 DEF IInv, HookInv
<1> QED BY <1>4, <1>5, <1>6, <1>7, <1>8, <1>9, <1>10, <1>11, <1>12, <1>13 DEF IInv
-----------------------------------------------------------------------------
\* A sequence behind one more element
Behind(e, s) == <<e>> \o s

LEMMA FirstThen ==
    ASSUME NEW S, NEW e \in S, NEW s \in Seq(S)
    PROVE  /\ Behind(e, s) \in Seq(S) /\ Len(Behind(e, s)) = Len(s) + 1
           /\ Behind(e, s)[1] = e
           /\ \A i \in 1..Len(s) : Behind(e, s)[i + 1] = s[i]
<1> DEFINE t == Behind(e, s)
<1>1. PICK u : u = <<e>>
    OBVIOUS
<1>2. u \in Seq(S) /\ Len(u) = 1 /\ u[1] = e
    BY <1>1
<1>3. t = u \o s
    BY <1>1 DEF Behind
<1> HIDE DEF t
<1>4. /\ t \in Seq(S) /\ Len(t) = 1 + Len(s)
      /\ \A i \in 1..Len(t) : t[i] = IF i <= 1 THEN u[i] ELSE s[i - 1]
    <2>1. /\ u \o s \in Seq(S) /\ Len(u \o s) = Len(u) + Len(s)
          /\ \A i \in 1..(Len(u) + Len(s)) :
                (u \o s)[i] = IF i <= Len(u) THEN u[i] ELSE s[i - Len(u)]
        BY <1>2, ConcatProperties
    <2> QED BY <1>2, <1>3, <2>1
<1>5. Len(s) \in Nat
    BY LenProperties
<1>6. t[1] = e
    BY <1>2, <1>4, <1>5
<1>7. ASSUME NEW i \in 1..Len(s)
      PROVE  t[i + 1] = s[i]
    <2>1. i + 1 \in 1..Len(t) /\ ~(i + 1 <= 1) /\ (i + 1) - 1 = i
        BY <1>4, <1>5
    <2> QED BY <1>4, <2>1
<1> QED BY <1>4, <1>5, <1>6, <1>7 DEF t

LEMMA BehindFirst ==
    ASSUME NEW S, NEW e \in S, NEW s \in Seq(S), NEW i \in 1..Len(s)
    PROVE  Behind(e, s)[i + 1] = s[i]
BY FirstThen

\* The list as apps_list_populate leaves it
LEMMA PopulatedList ==
    ASSUME NEW a \in [1..NumApps -> SUBSET {"DISABLE", "OSDSYS"}],
           items' = Behind(OSDSYS, [i \in 1..NumApps |-> App(i)]),
           attrs' = Behind({"DISABLE", "OSDSYS"}, a),
           rescue_item_idx' = 0
    PROVE  /\ items' \in Seq(Items) /\ attrs' \in Seq(SUBSET {"DISABLE", "OSDSYS"})
           /\ Len(items') = NumApps + 1
           /\ ListInv' /\ AppsListed'
<1> DEFINE Attrs == SUBSET {"DISABLE", "OSDSYS"}
           apps  == [j \in 1..NumApps |-> App(j)]
           os    == {"DISABLE", "OSDSYS"}
<1>1. NumApps \in Nat
    BY ConstantTypes
<1>2. apps \in Seq(Items) /\ Len(apps) = NumApps /\ \A i \in 1..NumApps : apps[i] = App(i)
    <2>1. apps \in [1..NumApps -> Items] /\ \A i \in 1..NumApps : apps[i] = App(i)
        BY DEF Items
    <2> HIDE DEF apps
    <2>2. apps \in Seq(Items) /\ Len(apps) = NumApps
        BY <1>1, <2>1
    <2> QED BY <2>1, <2>2
<1>3. a \in Seq(Attrs) /\ Len(a) = NumApps
    BY <1>1
<1>4. OSDSYS \in Items /\ os \in Attrs
    BY DEF Items
<1> HIDE DEF Attrs
<1>5. PICK t : t = items' /\ t = Behind(OSDSYS, apps)
    OBVIOUS
<1>6. PICK u : u = attrs' /\ u = Behind(os, a)
    OBVIOUS
<1> HIDE DEF apps, os
<1>7. /\ t \in Seq(Items) /\ Len(t) = NumApps + 1 /\ t[1] = OSDSYS
      /\ \A i \in 1..NumApps : t[i + 1] = App(i)
    <2>1. apps \in Seq(Items) /\ OSDSYS \in Items
        BY <1>2, <1>4
    <2>2. /\ Behind(OSDSYS, apps) \in Seq(Items)
          /\ Len(Behind(OSDSYS, apps)) = Len(apps) + 1
          /\ Behind(OSDSYS, apps)[1] = OSDSYS
        BY <2>1, FirstThen, Zenon
    <2>3. ASSUME NEW k \in 1..Len(apps)
          PROVE  Behind(OSDSYS, apps)[k + 1] = apps[k]
        BY <2>1, BehindFirst
    <2> QED BY <1>2, <1>5, <2>2, <2>3
<1>8. u \in Seq(Attrs) /\ Len(u) = NumApps + 1 /\ u[1] = os
    <2>1. a \in Seq(Attrs) /\ os \in Attrs
        BY <1>3, <1>4
    <2>2. /\ Behind(os, a) \in Seq(Attrs) /\ Len(Behind(os, a)) = Len(a) + 1
          /\ Behind(os, a)[1] = os
        BY <2>1, FirstThen, Zenon
    <2> QED BY <1>3, <1>6, <2>2
<1>9. DOMAIN t = 1..(NumApps + 1)
    BY <1>7, LenProperties
<1>10. ASSUME NEW i \in DOMAIN t
       PROVE  t[i] # RESCUE /\ t[i] = (IF i = 1 THEN OSDSYS ELSE App(i - 1))
    <2>1. OSDSYS # RESCUE /\ \A j : App(j) # RESCUE
        BY DEF OSDSYS, RESCUE, App
    <2>2. CASE i = 1
        BY <1>7, <2>1, <2>2
    <2>3. CASE i # 1
        <3>1. i - 1 \in 1..NumApps /\ (i - 1) + 1 = i
            BY <1>1, <1>9, <2>3
        <3>2. t[i] = App(i - 1)
            BY <1>7, <3>1
        <3> QED BY <2>1, <2>3, <3>2
    <2> QED BY <2>2, <2>3
<1>11. AppsListed'
    <2>1. \A i \in 1..NumApps : i + 1 \in DOMAIN t /\ t[i + 1] = App(i)
        BY <1>1, <1>7, <1>9
    <2> QED BY <1>5, <2>1 DEF AppsListed
<1>12. ListInv'
    <2>1. Len(items') > 0 /\ Len(attrs') = Len(items') /\ items'[1] = OSDSYS
        BY <1>1, <1>5, <1>6, <1>7, <1>8
    <2>2. attrs'[1] = {"DISABLE", "OSDSYS"}
        BY <1>6, <1>8 DEF os
    <2>3. \A i \in DOMAIN items' :
              items'[i] # RESCUE /\ items'[i] = (IF i = 1 THEN OSDSYS ELSE App(i - 1))
        BY <1>5, <1>10
    <2> QED BY <1>11, <2>1, <2>2, <2>3 DEF ListInv
<1> QED BY <1>5, <1>6, <1>7, <1>8, <1>11, <1>12 DEF Attrs

\* The list when the index of the apps cannot be read
LEMMA UnreadList ==
    ASSUME items' = <<OSDSYS>>, attrs' = <<{"DISABLE", "OSDSYS"}>>, rescue_item_idx' = 0
    PROVE  /\ items' \in Seq(Items) /\ attrs' \in Seq(SUBSET {"DISABLE", "OSDSYS"})
           /\ Len(items') = 1 /\ ListInv'
<1>1. NoAppListed'
    BY DEF NoAppListed
<1>2. OSDSYS # RESCUE
    BY DEF OSDSYS, RESCUE
<1> QED BY <1>1, <1>2 DEF ListInv, Items

ListPath == <<"boot_list">>

\* What the two ways to the boot list have in common, whether the index of the
\* apps could be read or not
FirstShown ==
    /\ items' \in Seq(Items) /\ attrs' \in Seq(SUBSET {"DISABLE", "OSDSYS"})
    /\ ListInv'
    /\ \E m \in {<<>>, <<"apps">>} : scenes' = Stack(ListPath, m) /\ messages' = m
    /\ \E h \in Nat : h < Len(items') /\ hilites' = [hilites EXCEPT !["boot_list"] = h]
    /\ autoboot' \in [on : BOOLEAN, item : Nat, delay : Delays]
    /\ autoboot'.on = autoboot.on /\ autoboot'.delay = autoboot.delay
    /\ lost' \in {lost, lost \cup {"item"}}
    /\ "item" \notin lost' => autoboot'.item = stored.item
    /\ user' \in User
    /\ countdown' \in [active : BOOLEAN, sec : Nat, armed : BOOLEAN]
    /\ countdown'.sec <= DelayMax
    /\ CountdownInv'

\* scene_switch_to_boot_list makes the boot list what the rest relies on.
LEMMA BootListShown ==
    ASSUME IInv, ~Registered, scenes = <<>> \/ scenes = <<"init">>, messages = <<>>,
           phase # "main", SwitchToBootList(<<>>), phase' = "tick",
           UNCHANGED <<outside, inputs>>
    PROVE  IInv'
<1>1. /\ items = <<>> /\ rescue_item_idx = 0 /\ hilites = [s \in ListScenes |-> 0]
      /\ ~mass_event_received /\ ~touched /\ ~countdown.active /\ "item" \notin lost
      /\ autoboot.on => stored.on
      /\ events = 0 /\ ~missed => ~drive.rescue
    BY DEF IInv, Before
<1>2. /\ repaint' = TRUE
      /\ UNCHANGED <<rescue_item_idx, stored, hook, running, returned, osdsys, opened, unasked,
                     update_type, upload, adjusting, drive, events, missed,
                     mass_event_received, touched, presses>>
    BY DEF SwitchToBootList, launch, options, update, outside, inputs
<1>3. Typed
    BY TypedNow DEF IInv
<1>4. ListPath \in UnderMessages /\ ListPath = Append(<<>>, "boot_list")
      /\ ListPath # <<>> /\ ListPath[1] = "boot_list"
      /\ ~Contains(ListPath, "boot_options") /\ ~Contains(ListPath, "writing")
    BY Paths, PathContains, Tuples DEF ListPath
<1>5. ~Contains(scenes, "boot_options")
    BY PathContains
<1>6. /\ SavedNow /\ (adjusting.dirty => adjusting.on)
    BY SavedByKey DEF IInv, SavedInv
<1>7. SUFFICES FirstShown
    <2>1. PICK m \in {<<>>, <<"apps">>} : scenes' = Stack(ListPath, m) /\ messages' = m
        BY <1>7 DEF FirstShown
    <2>2. m \in Seq(Texts)
        <3>1. "apps" \in Texts
            BY DEF Texts
        <3>2. <<>> \in Seq(Texts) /\ <<"apps">> \in Seq(Texts)
            BY <3>1, TuplesAreSeqs
        <3> QED BY <3>2
    <2>3. /\ StackNow' /\ scenes' \in Seq(Scenes) /\ messages' \in Seq(Texts)
          /\ Registered'
        <3>1. StackNow'
            BY <1>4, <2>1, <2>2 DEF StackNow
        <3>2. scenes' \in Seq(Scenes) /\ scenes' # <<>> /\ scenes'[1] = "boot_list"
            BY <1>4, <2>1, <2>2, StackFacts
        <3> QED BY <2>1, <2>2, <3>1, <3>2 DEF Registered
    <2>4. ~Contains(scenes', "boot_options") /\ ~Contains(scenes', "writing")
        BY <1>4, <2>1, <2>2, StackContains
    <2>5. PICK h \in Nat : h < Len(items') /\ hilites' = [hilites EXCEPT !["boot_list"] = h]
        BY <1>7 DEF FirstShown
    <2>6. /\ hilites' \in [ListScenes -> Nat]
          /\ \A s \in ListScenes : hilites'[s] = IF s = "boot_list" THEN h ELSE 0
        BY <1>1, <2>5 DEF ListScenes
    <2>7. TypeOK'
        <3>1. lost' \subseteq Keys
            BY <1>3, <1>7 DEF Keys, Typed, FirstShown
        <3>2. Typed'
            BY <1>2, <1>3, <1>7, <3>1 DEF Typed, FirstShown
        <3> QED BY <1>2, <1>7, <2>3, <2>6, <3>2, TypesNext
               DEF IInv, TypeOK, FirstShown
    <2>8. Outside'
        BY <1>2, <1>7 DEF IInv, Outside, FirstShown
    <2>9. Before'
        BY <2>3 DEF Before
    <2>10. HilitesInv'
        <3>1. ASSUME NEW s \in ListScenes
              PROVE  hilites'[s] < list_len(s)'
            <4>1. CASE s = "boot_list"
                BY <2>5, <2>6, <4>1 DEF list_len
            <4>2. CASE s # "boot_list"
                <5>1. hilites'[s] = 0
                    BY <2>6, <4>2
                <5>2. list_len(s)' \in Nat \ {0}
                    BY <4>2 DEF list_len, ListScenes, OptionItems, SettingsItems,
                        AboutItems, FoundItems
                <5> QED BY <5>1, <5>2
            <4> QED BY <4>1, <4>2
        <3> QED BY <3>1 DEF HilitesInv
    <2>11. StackShape'
        BY <2>3, ShapeNext
    <2>12. RescueInv'
        <3>1. drive.rescue \in BOOLEAN
            BY DEF IInv, Outside, Drives
        <3> QED BY <1>1, <1>2, <3>1 DEF RescueInv, RescueListed
    <2>13. SavedInv'
        <3>1. SavedNow'
            BY <1>2, <1>5, <1>6, <1>7 DEF SavedNow, FirstShown
        <3> QED BY <1>2, <1>6, <2>4, <3>1, SavedByKey DEF SavedInv
    <2>14. CheckedInv'
        BY <2>4 DEF CheckedInv
    <2>15. HookInv'
        BY <1>2 DEF IInv, HookInv
    <2> QED BY <1>7, <2>7, <2>8, <2>9, <2>10, <2>11, <2>12, <2>13, <2>14, <2>15
            DEF IInv, FirstShown
<1>8. ASSUME NEW bad \in SUBSET (1..NumApps), NEW itemFails \in BOOLEAN,
             Faults(Cardinality(bad) + (IF itemFails THEN 1 ELSE 0)),
             ListPopulated(bad, itemFails), scenes' = Append(<<>>, "boot_list"),
             countdown' = IF Starts(autoboot.on)
                          THEN [active |-> TRUE, sec |-> autoboot.delay, armed |-> TRUE]
                          ELSE countdown,
             messages' = messages
      PROVE  FirstShown
    <2>1. PICK a \in [1..NumApps -> SUBSET {"DISABLE", "OSDSYS"}] :
              attrs' = <<{"DISABLE", "OSDSYS"}>> \o a
        BY <1>8 DEF ListPopulated
    <2>2. /\ items' \in Seq(Items) /\ attrs' \in Seq(SUBSET {"DISABLE", "OSDSYS"})
          /\ Len(items') = NumApps + 1 /\ ListInv' /\ AppsListed'
        <3>1. /\ items' = Behind(OSDSYS, [i \in 1..NumApps |-> App(i)])
              /\ attrs' = Behind({"DISABLE", "OSDSYS"}, a)
            BY <1>8, <2>1 DEF ListPopulated, Behind
        <3> QED BY <1>1, <1>2, <3>1, PopulatedList
    <2>3. scenes' = Stack(ListPath, <<>>) /\ messages' = <<>> /\ scenes' = ListPath
        <3>1. <<>> \in Seq(Texts)
            OBVIOUS
        <3> QED BY <1>4, <1>8, <3>1, StackFacts
    <2>4. PICK item \in IF itemFails THEN {autoboot.item, Garbled} ELSE {stored.item} :
              autoboot' = [autoboot EXCEPT !.item = item]
        BY <1>8 DEF ListPopulated
    <2>5. item \in Nat
        BY <1>3 DEF Typed, Settings, Garbled
    <2>6. /\ autoboot' \in [on : BOOLEAN, item : Nat, delay : Delays]
          /\ autoboot'.on = autoboot.on /\ autoboot'.delay = autoboot.delay
          /\ autoboot'.item = item
        BY <1>3, <2>4, <2>5 DEF Typed
    <2>7. /\ lost' = IF itemFails THEN lost \cup {"item"} ELSE lost
          /\ hilites' = [hilites EXCEPT !["boot_list"] =
                            IF ~itemFails /\ stored.item <= NumApps THEN stored.item ELSE 0]
        BY <1>8 DEF ListPopulated
    <2>8. stored.item \in Nat /\ NumApps \in Nat
        BY <1>3, ConstantTypes DEF Typed, Settings
    <2>9. \E h \in Nat : h < Len(items') /\ hilites' = [hilites EXCEPT !["boot_list"] = h]
        <3> DEFINE h == IF ~itemFails /\ stored.item <= NumApps THEN stored.item ELSE 0
        <3>1. h \in Nat /\ h < Len(items')
            BY <2>2, <2>8
        <3>2. hilites' = [hilites EXCEPT !["boot_list"] = h]
            BY <2>7
        <3> HIDE DEF h
        <3> QED BY <3>1, <3>2
    <2>10. user' \in User
        <3>1. Cardinality(bad) \in Nat
            <4>1. IsFiniteSet(1..NumApps)
                BY <2>8, FS_Interval
            <4>2. IsFiniteSet(bad)
                BY <4>1, FS_Subset
            <4> QED BY <4>2, FS_CardinalityType
        <3>2. Cardinality(bad) + (IF itemFails THEN 1 ELSE 0) \in Nat
            BY <3>1
        <3> QED BY <1>3, <1>8, <3>2, FaultsKept DEF Typed
    <2>11. /\ countdown' \in [active : BOOLEAN, sec : Nat, armed : BOOLEAN]
           /\ countdown'.sec <= DelayMax
        <3>1. autoboot.delay \in Nat /\ autoboot.delay <= DelayMax
            BY <1>3, ConstantTypes DEF Typed, Delays
        <3> QED BY <1>8, <3>1, CountdownTypes
    <2>12. CountdownInv'
        <3>1. countdown'.active => autoboot.on
            BY <1>1, <1>8 DEF Starts
        <3>2. hilites'["boot_list"] =
                  IF "item" \notin lost' /\ stored.item \in 1..NumApps THEN stored.item ELSE 0
            BY <1>1, <2>7, <2>8 DEF ListScenes
        <3> QED BY <1>1, <1>2, <2>2, <2>3, <3>1, <3>2 DEF CountdownInv,
               ListPath
    <2>13. "item" \notin lost' => autoboot'.item = stored.item
        BY <2>4, <2>6, <2>7
    <2>14. lost' \in {lost, lost \cup {"item"}}
        BY <2>7
    <2> QED BY <2>2, <2>3, <2>6, <2>9, <2>10, <2>11, <2>12, <2>13, <2>14 DEF FirstShown
<1>9. ASSUME Faults(1), items' = <<OSDSYS>>, attrs' = <<{"DISABLE", "OSDSYS"}>>,
             Message(Append(<<>>, "boot_list"), "apps"),
             hilites' = [hilites EXCEPT !["boot_list"] = 0],
             lost' = lost \cup {"item"}, UNCHANGED <<countdown, autoboot>>
      PROVE  FirstShown
    <2>1. /\ items' \in Seq(Items) /\ attrs' \in Seq(SUBSET {"DISABLE", "OSDSYS"})
          /\ Len(items') = 1 /\ ListInv'
        BY <1>1, <1>2, <1>9, UnreadList
    <2>2. scenes' = Stack(ListPath, <<"apps">>) /\ messages' = <<"apps">>
        <3>1. PICK m : m = <<"apps">>
            OBVIOUS
        <3>2. <<>> \in Seq(Texts) /\ "apps" \in Texts /\ m = Append(<<>>, "apps")
            BY <3>1 DEF Texts
        <3>3. Append(Stack(ListPath, <<>>), "message") = Stack(ListPath, m)
              /\ Stack(ListPath, <<>>) = ListPath
            BY <1>4, <3>2, StackFacts
        <3>4. scenes' = Stack(ListPath, m) /\ messages' = m
            BY <1>4, <1>9, <3>2, <3>3 DEF Message
        <3> QED BY <3>1, <3>4
    <2>3. user' \in User
        BY <1>3, <1>9, FaultsKept DEF Typed
    <2>4. CountdownInv'
        BY <1>1, <1>9 DEF CountdownInv
    <2>5. \E h \in Nat : h < Len(items') /\ hilites' = [hilites EXCEPT !["boot_list"] = h]
        <3>1. 0 \in Nat /\ 0 < Len(items')
            BY <2>1
        <3> QED BY <1>9, <3>1
    <2> QED BY <1>3, <1>9, <2>1, <2>2, <2>3, <2>4, <2>5, CountdownTypes DEF Typed, FirstShown
<1> QED BY <1>8, <1>9 DEF SwitchToBootList
-----------------------------------------------------------------------------
LEMMA StartStep ==
    ASSUME IInv, Start
    PROVE  IInv'
<1>1. /\ phase = "start" /\ phase' = "tick" /\ scenes = <<>> /\ messages = <<>>
      /\ ~Registered /\ UNCHANGED <<outside, inputs>>
    BY DEF Start, IInv, Before, Registered
<1>2. CASE SwitchToBootList(<<>>)
    BY <1>1, <1>2, BootListShown
<1>3. CASE /\ scenes' = <<"init">>
           /\ repaint' = TRUE
           /\ UNCHANGED <<messages, hilites, list, autoboot, chip, launch,
                          countdown, options, update, adjusting, user>>
    <2>1. UNCHANGED <<messages, hilites, items, attrs, rescue_item_idx, osdsys, opened, unasked,
                      update_type, upload, stored, hook, lost, running, returned, drive,
                      events, missed, mass_event_received, autoboot, countdown, adjusting,
                      user, touched, presses>>
        BY <1>1, <1>3 DEF list, options, update, chip, launch, outside, inputs
    <2>2. <<"init">> \in UnderMessages /\ <<"init">>[1] = "init" /\ <<"init">> # <<>>
        BY Paths
    <2>3. StackNow' /\ ~Registered' /\ Registered' = Registered
        <3>1. StackNow'
            BY <1>1, <1>3, <2>1, <2>2, BarePath
        <3> QED BY <1>1, <1>3, <2>2, <3>1 DEF Registered
    <2>4. /\ ~Contains(scenes, "boot_options") /\ ~Contains(scenes', "boot_options")
          /\ ~Contains(scenes', "writing")
        BY <1>1, <1>3, PathContains
    <2>5. TypeOK'
        <3>1. Typed'
            BY <1>1, <1>3, <2>1, TypedNow DEF IInv, Typed
        <3>2. scenes' \in Seq(Scenes) /\ messages' \in Seq(Texts)
            <4>1. <<"init">> \in Seq(Scenes)
                BY PathView
            <4> QED BY <1>3, <2>1, <4>1 DEF IInv, TypeOK
        <3> QED BY <1>1, <2>1, <3>1, <3>2, TypesNext DEF IInv, TypeOK, Items
    <2>6. Outside'
        BY <2>1 DEF IInv, Outside
    <2>7. Before'
        BY <1>1, <2>1, <2>3 DEF IInv, Before
    <2>8. ListInv'
        BY <1>1, <2>1, <2>3, ListKept DEF IInv
    <2>9. HilitesInv'
        BY <2>3 DEF HilitesInv
    <2>10. StackShape'
        BY <2>3, ShapeNext
    <2>11. RescueInv'
        BY <1>1, <2>3 DEF RescueInv, RescueListed
    <2>12. CountdownInv'
        BY <1>1, <2>1 DEF IInv, Before, CountdownInv
    <2>13. SavedInv'
        BY <1>1, <2>1, <2>3, <2>4, SavedKept DEF IInv
    <2>14. CheckedInv'
        BY <2>4 DEF CheckedInv
    <2>15. HookInv'
        BY <2>1 DEF IInv, HookInv
    <2> QED BY <2>5, <2>6, <2>7, <2>8, <2>9, <2>10, <2>11, <2>12, <2>13, <2>14, <2>15
            DEF IInv
<1> QED BY <1>2, <1>3 DEF Start

\* The settings are read: what cannot be read is lost.
LEMMA ReadSettingsStep ==
    ASSUME IInv, ReadSettings
    PROVE  IInv'
<1>1. /\ phase = "main" /\ phase' = "start" /\ scenes = <<>> /\ messages = <<>>
      /\ ~Registered /\ unasked /\ osdsys = {}
    BY DEF ReadSettings, IInv, Before, Registered
<1>2. UNCHANGED <<scenes, messages, hilites, items, attrs, rescue_item_idx, osdsys, opened, unasked,
                  update_type, upload, stored, hook, running, returned, drive, events,
                  missed, mass_event_received, countdown, adjusting, touched, presses,
                  repaint>>
    BY DEF ReadSettings, ui, list, options, update, launch, outside, inputs
<1>3. PICK fails \in SUBSET {"on", "delay"} :
          /\ Faults(Cardinality(fails))
          /\ lost' = lost \cup fails
          /\ autoboot' = [autoboot EXCEPT
                !.on = stored.on /\ "on" \notin fails,
                !.delay = IF "delay" \in fails THEN DefaultDelay ELSE stored.delay]
    BY DEF ReadSettings
<1>4. /\ stored \in Settings /\ lost \subseteq Keys /\ user \in User
      /\ autoboot \in [on : BOOLEAN, item : Nat, delay : Nat]
    BY DEF IInv, TypeOK, Outside
<1>5. /\ autoboot' \in [on : BOOLEAN, item : Nat, delay : Delays]
      /\ "on" \notin fails => autoboot'.on = stored.on
      /\ "delay" \notin fails => autoboot'.delay = stored.delay
      /\ autoboot'.on => stored.on
    BY <1>3, <1>4, ConstantTypes DEF Settings
<1>6. user' \in User
    <2>1. IsFiniteSet({"on"} \cup {"delay"})
        <3>1. IsFiniteSet({"on"})
            BY FS_Singleton
        <3> QED BY <3>1, FS_AddElement
    <2>2. {"on"} \cup {"delay"} = {"on", "delay"}
        OBVIOUS
    <2>3. IsFiniteSet(fails)
        BY <2>1, <2>2, FS_Subset
    <2>4. Cardinality(fails) \in Nat
        BY <2>3, FS_CardinalityType
    <2> QED BY <1>3, <1>4, <2>4, FaultsKept
<1>7. Registered' = Registered
    BY <1>2 DEF Registered
<1>8. TypeOK'
    <2>1. lost' \subseteq Keys
        BY <1>3, <1>4 DEF Keys
    <2>2. Typed'
        BY <1>2, <1>4, <1>5, <1>6, <2>1 DEF Typed, IInv, TypeOK
    <2>3. scenes' \in Seq(Scenes) /\ messages' \in Seq(Texts)
        BY <1>2 DEF IInv, TypeOK, Scenes
    <2> QED BY <1>1, <1>2, <2>2, <2>3, TypesNext DEF IInv, TypeOK, Items
<1>9. Outside'
    BY <1>2, <1>6 DEF IInv, Outside
<1>10. Before'
    BY <1>1, <1>2, <1>3, <1>5, <1>7 DEF IInv, Before
<1>11. ListInv'
    BY <1>2, <1>7, ListKept DEF IInv
<1>12. HilitesInv'
    BY <1>1, <1>7 DEF HilitesInv
<1>13. StackShape'
    BY <1>1 DEF StackShape
<1>14. RescueInv'
    BY <1>1, <1>7 DEF RescueInv, RescueListed
<1>15. CountdownInv'
    BY <1>1, <1>2 DEF IInv, Before, CountdownInv
<1>16. SavedInv'
    <2>1. SavedNow'
        BY <1>1, <1>2, <1>3, <1>5, <1>7 DEF SavedNow
    <2>2. ~Contains(scenes, "boot_options")
        BY <1>1, PathContains
    <2> QED BY <1>2, <2>1, <2>2, SavedByKey DEF IInv, SavedInv
<1>17. CheckedInv'
    BY <1>1, <1>2, PathContains DEF CheckedInv
<1>18. HookInv'
    BY <1>2 DEF IInv, HookInv, ReadSettings
<1> QED BY <1>8, <1>9, <1>10, <1>11, <1>12, <1>13, <1>14, <1>15, <1>16, <1>17, <1>18
        DEF IInv

LEMMA PaintStep ==
    ASSUME IInv, Paint
    PROVE  IInv'
<1>1. phase = "paint" /\ phase' = "tick" /\ UNCHANGED <<outside, inputs>>
    BY DEF Paint
<1>2. CASE PaintInit
    <2>1. CASE SwitchToBootList(Covered)
        <3>1. StackNow
            BY <1>1, StackNowIs DEF IInv
        <3>2. scenes = <<"init">> /\ Covered = <<>> /\ ~Registered /\ messages = <<>>
            BY <1>2, <3>1, TopView DEF PaintInit
        <3> QED BY <1>1, <2>1, <3>2, BootListShown
    <2>2. CASE ~SwitchToBootList(Covered)
        BY <1>1, <1>2, <2>2, IdleStep, CountdownTypes DEF PaintInit
    <2> QED BY <2>1, <2>2
<1>3. CASE PaintBootList
    BY <1>1, <1>3, PaintBootListStep
<1>4. CASE PaintOther
    BY <1>1, <1>4, IdleStep, CountdownTypes DEF PaintOther
<1>5. CASE ~repaint /\ UNCHANGED <<ui, list, options, update, chip, launch, repaint,
                                   autoboot, countdown, adjusting, user>>
    BY <1>1, <1>5, IdleStep, CountdownTypes
<1> QED BY <1>2, <1>3, <1>4, <1>5 DEF Paint
-----------------------------------------------------------------------------
LEMMA InitIsIn ==
    ASSUME Init
    PROVE  IInv
<1>1. user \in User /\ drive \in Drives /\ stored \in Settings
    <2>1. user \in User
        BY UsersAssumption DEF Init, User
    <2> QED BY <2>1, NoDriveIsDrive DEF Init, User
<1>2. /\ scenes = <<>> /\ messages = <<>> /\ items = <<>> /\ attrs = <<>>
      /\ hilites = [s \in ListScenes |-> 0] /\ rescue_item_idx = 0
      /\ ~mass_event_received /\ ~touched /\ phase = "main"
      /\ autoboot = [on |-> FALSE, item |-> 0, delay |-> DefaultDelay]
      /\ countdown = [active |-> FALSE, sec |-> 0, armed |-> FALSE]
      /\ events = 0 /\ missed = (drive # NoDrive) /\ lost = {} /\ unasked /\ osdsys = {}
      /\ adjusting = [on |-> FALSE, dirty |-> FALSE] /\ ~hook
      /\ ~Registered
    BY DEF Init, Registered
<1>3. <<>> \in Seq(Scenes) /\ <<>> \in Seq(Texts) /\ <<>> \in Seq(Items)
      /\ <<>> \in Seq(SUBSET {"DISABLE", "OSDSYS"})
    OBVIOUS
<1>4. TypeOK
    <2>1. /\ scenes \in Seq(Scenes) /\ messages \in Seq(Texts) /\ items \in Seq(Items)
          /\ attrs \in Seq(SUBSET {"DISABLE", "OSDSYS"})
        BY <1>2, <1>3
    <2>2. /\ autoboot \in [on : BOOLEAN, item : Nat, delay : Nat]
          /\ countdown \in [active : BOOLEAN, sec : Nat, armed : BOOLEAN]
          /\ countdown.sec <= DelayMax /\ adjusting \in [on : BOOLEAN, dirty : BOOLEAN]
        BY <1>2, ConstantTypes
    <2>3. user.changes \in Nat /\ user.faults \in Nat /\ presses \in Nat
        BY <1>1 DEF User, Init
    <2>4. /\ hilites \in [ListScenes -> Nat] /\ rescue_item_idx \in Nat /\ events \in Nat
          /\ {osdsys, opened} \subseteq SUBSET Range(OptionItems)
          /\ update_type \in {"fw", "apps"} /\ lost \subseteq Keys /\ running = MENU
        BY <1>2 DEF Init, Keys
    <2>5. {mass_event_received, repaint, unasked, hook, touched, returned, missed} \subseteq BOOLEAN
        <3>1. /\ mass_event_received = FALSE /\ repaint = FALSE /\ hook = FALSE
              /\ touched = FALSE /\ returned = FALSE /\ unasked = TRUE
            BY DEF Init
        <3>2. missed \in BOOLEAN
            BY <1>2, Zenon
        <3> QED BY <3>1, <3>2
    <2> QED BY <1>1, <1>2, <2>1, <2>2, <2>3, <2>4, <2>5 DEF TypeOK, Scenes, Items
<1>5. Outside
    BY <1>1 DEF Outside
<1>6. Before
    <2>1. ~missed => ~drive.rescue
        <3>1. ~NoDrive.rescue
            BY DEF NoDrive
        <3>2. ~missed => drive = NoDrive
            BY <1>2, Zenon
        <3> QED BY <3>1, <3>2
    <2> QED BY <1>2, <2>1 DEF Before
<1>7. ListInv
    BY <1>2 DEF ListInv
<1>8. HilitesInv /\ StackShape /\ RescueInv /\ CountdownInv
    BY <1>2 DEF HilitesInv, StackShape, RescueInv, RescueListed, CountdownInv
<1>9. SavedInv /\ CheckedInv
    BY <1>2, PathContains, SavedByKey DEF SavedInv, CheckedInv
<1>10. HookInv
    BY <1>2 DEF HookInv
<1> QED BY <1>4, <1>5, <1>6, <1>7, <1>8, <1>9, <1>10 DEF IInv

LEMMA StepKeeps ==
    ASSUME IInv, [Next]_vars
    PROVE  IInv'
<1>1. CASE Next
    <2>1. CASE ReadSettings
        BY <2>1, ReadSettingsStep
    <2>2. CASE Start
        BY <2>2, StartStep
    <2>3. CASE RefreshOpen
        BY <2>3, RefreshOpenStep
    <2>4. CASE RefreshFinish
        BY <2>4, RefreshFinishStep
    <2>5. CASE Tick
        BY <2>5, TickStep
    <2>6. ASSUME NEW b \in user.buttons, Input(b)
          PROVE  IInv'
        BY <1>1, <2>6, InputStep DEF Next
    <2>7. CASE NoInput
        BY <2>7, NoInputStep
    <2>8. CASE Paint
        BY <2>8, PaintStep
    <2>9. CASE Alarm
        BY <2>9, AlarmStep
    <2>10. CASE MountEvent
        BY <2>10, MountEventStep
    <2>11. CASE ChangeDrive
        BY <2>11, ChangeDriveStep
    <2> QED BY <1>1, <2>1, <2>2, <2>3, <2>4, <2>5, <2>6, <2>7, <2>8, <2>9, <2>10, <2>11
            DEF Next, Loop
<1>2. CASE UNCHANGED vars
    BY <1>2, Stutter
<1> QED BY <1>1, <1>2

\* The inductive invariant holds whatever the list of apps, the delays, the
\* drives and files and the buttons are (main.c, superscene.c, boot_list.c).
THEOREM Inductive == Spec => []IInv
<1>1. Init => IInv
    BY InitIsIn
<1>2. IInv /\ [Next]_vars => IInv'
    BY StepKeeps
<1> QED BY <1>1, <1>2, PTL DEF Spec

\* ListConsistent, from what the proof keeps of the list and of its hilites.
LEMMA ListInOrder ==
    ASSUME ListInv, HilitesInv, Len(items) \in Nat
    PROVE  ListConsistent
BY DEF ListInv, HilitesInv, ListConsistent

\* The list, its attributes and every hilite fit together, the stack of scenes
\* is a path from the boot list, no scene is there twice, and there is a rescue
\* item exactly if the drive has one (apps.c, list.c, superscene.c,
\* boot_list.c:91-124).
THEOREM MenuInOrder == Spec => []MenuInv
<1>1. IInv => MenuInv
    <2>1. TypeOK => Len(items) \in Nat
        BY LenProperties DEF TypeOK
    <2> QED BY <2>1, ListInOrder DEF IInv, MenuInv, RescueInv
<1> QED BY <1>1, Inductive, PTL

\* A setting is what the modchip has stored, unless it is being edited, its last
\* command has failed (settings.c:33-50, boot_options.c:33-47,
\* boot_list.c:167-180), or it is the options and nobody has opened their scene
\* yet: until then, none of them is on (main.c:30-41).
THEOREM ShownIsSaved == Spec => []SavedIsShown
<1>1. IInv => SavedIsShown
    BY DEF IInv, SavedInv
<1> QED BY <1>1, Inductive, PTL

\* The countdown runs on nothing but an untouched boot list (boot_list.c:184-188,
\* 304-335).
THEOREM CountdownIsAlone == Spec => []CountdownAlone
<1>1. IInv => CountdownAlone
    BY DEF IInv, CountdownInv, CountdownAlone
<1> QED BY <1>1, Inductive, PTL

\* What is about to be written has passed the checks, for files and drives of
\* any content and drives that are changed at any time (checking.c:25-190).
THEOREM WrittenIsChecked == Spec => []WritesWhatWasChecked
<1>1. IInv => WritesWhatWasChecked
    <2>1. ASSUME IInv, scenes # <<>>, Top = "writing"
          PROVE  Contains(scenes, "writing")
        <3>1. scenes \in Seq(Scenes)
            BY <2>1 DEF IInv, TypeOK, Scenes
        <3>2. phase \notin {"main", "start"}
            BY <2>1 DEF IInv, Before
        <3>3. StackNow
            BY <2>1, <3>2, StackNowIs DEF IInv
        <3>4. scenes = Append(AboutPath, "writing") /\ "writing" \in UpdateScenes
            BY <2>1, <3>3, TopView DEF UpdateScenes
        <3> QED BY <3>4, PathContains
    <2> QED BY <2>1 DEF IInv, CheckedInv, WritesWhatWasChecked
<1> QED BY <1>1, Inductive, PTL
-----------------------------------------------------------------------------
\* A command that fails uses up a fault.
LEMMA FaultTaken ==
    ASSUME user \in User, NEW n \in {1, 2}, Faults(n)
    PROVE  user'.faults # user.faults
BY DEF User, Faults

\* What boot_hilited_item launches, by the index alone, is the item that is
\* there, or the forgotten rescue item.
LEMMA BootedItem ==
    ASSUME IInv, BootHilitedItem, Top = "boot_list", phase \notin {"main", "start"},
           running = MENU, running' # MENU
    PROVE  LET i == hilites["boot_list"]
           IN  /\ i \in Nat /\ i + 1 \in DOMAIN items /\ running' = ItemAt(i)
               /\ HookAsAsked
               /\ \/ Hilited
                  \/ /\ items[i + 1] = RESCUE /\ i # rescue_item_idx
                     /\ NoAppListed /\ ~AppsListed /\ running' = App(i)
<1> DEFINE i == hilites["boot_list"]
           n == Len(items)
<1>1. Registered
    BY StackNowIs, TopView DEF IInv
<1>2. /\ i \in Nat /\ i < n /\ n \in Nat /\ DOMAIN items = 1..n
    <2>1. items \in Seq(Items) /\ i \in Nat
        BY DEF IInv, TypeOK, Items, ListScenes
    <2>2. i < list_len("boot_list")
        BY <1>1 DEF IInv, HilitesInv, ListScenes
    <2> QED BY <2>1, <2>2, LenProperties DEF list_len
<1>3. /\ items[1] = OSDSYS /\ attrs[1] = {"DISABLE", "OSDSYS"}
      /\ rescue_item_idx # 0 => rescue_item_idx + 1 = n /\ items[n] = RESCUE
      /\ AppsListed \/ NoAppListed
      /\ \A j \in 1..n : items[j] # RESCUE => items[j] = (IF j = 1 THEN OSDSYS ELSE App(j - 1))
    BY <1>1, <1>2 DEF IInv, ListInv
<1>4. PICK commandFails \in (IF Asks(i) THEN BOOLEAN ELSE {FALSE}), loadFails \in BOOLEAN :
          /\ Faults((IF commandFails THEN 1 ELSE 0) + (IF loadFails THEN 1 ELSE 0))
          /\ hook' \in IF commandFails THEN {hook, TRUE} ELSE {hook \/ Asks(i)}
          /\ IF Exists(ItemAt(i)) /\ ~loadFails
             THEN running' = ItemAt(i) /\ UNCHANGED returned
             ELSE returned' = TRUE /\ UNCHANGED running
    BY DEF BootHilitedItem
<1>5. Exists(ItemAt(i)) /\ running' = ItemAt(i)
    BY <1>4
<1>6. hook' => hook \/ Asks(i)
    BY <1>4
<1>7. hook => returned
    BY DEF IInv, HookInv
<1>7a. Asks(i) /\ ~hook' => user'.faults # user.faults
    <2>1. user \in User
        BY DEF IInv, Outside
    <2>2. commandFails => user'.faults # user.faults
        BY <1>4, <2>1, FaultTaken
    <2> QED BY <1>4, <2>2
<1>8. OSDSYS # RESCUE /\ \A j : App(j) # RESCUE /\ App(j) # OSDSYS
    BY DEF OSDSYS, RESCUE, App
<1> HIDE DEF n
<1>9. CASE i = 0
    <2>1. ItemAt(i) = OSDSYS
        BY <1>9 DEF ItemAt
    <2>2. 1 \in DOMAIN items /\ items[1] = running' /\ "DISABLE" \in attrs[1]
        BY <1>2, <1>3, <1>5, <1>9, <2>1
    <2>3. HookAsAsked
        <3>1. Asks(i)
            BY <2>1 DEF Asks
        <3> QED BY <1>5, <1>8, <1>9, <1>7a, <2>1, <2>2, <3>1 DEF HookAsAsked
    <2>4. Hilited
        BY <1>9, <2>2 DEF Hilited
    <2> QED BY <1>2, <1>5, <1>9, <2>3, <2>4
<1>10. CASE i # 0 /\ i = rescue_item_idx
    <2>1. ItemAt(i) = RESCUE
        BY <1>10 DEF ItemAt
    <2>2. ~Asks(i)
        BY <2>1 DEF Asks, RESCUE, OSDSYS
    <2>3. HookAsAsked
        BY <1>5, <1>6, <1>7, <2>1, <2>2 DEF HookAsAsked
    <2>4. items[i + 1] = RESCUE
        BY <1>3, <1>10
    <2>5. Hilited
        BY <1>5, <2>1, <2>4 DEF Hilited
    <2> QED BY <1>2, <1>5, <2>3, <2>5
<1>11. CASE i # 0 /\ i # rescue_item_idx
    <2>1. ItemAt(i) = App(i)
        BY <1>11 DEF ItemAt
    <2>2. i \in 1..NumApps
        <3>1. App(i)[2] = i
            BY DEF App
        <3>2. i <= NumApps
            BY <1>5, <1>8, <2>1, <3>1 DEF Exists
        <3> QED BY <1>2, <1>11, <3>2, ConstantTypes
    <2>3. i + 1 \in DOMAIN items
        BY <1>2
    <2>4. Asks(i) <=> "DISABLE" \in attrs[i + 1]
        <3>1. ItemAt(i) # OSDSYS /\ ItemAt(i)[1] = "app"
            BY <1>8, <2>1 DEF App
        <3> QED BY <3>1 DEF Asks
    <2>4a. HookAsAsked
        <3>1. running' # RESCUE
            BY <1>5, <1>8, <2>1
        <3> QED BY <1>6, <1>7, <1>7a, <2>4, <3>1 DEF HookAsAsked
    <2>5. CASE items[i + 1] = App(i)
        <3>1. Hilited
            BY <1>5, <2>1, <2>5 DEF Hilited
        <3> QED BY <1>2, <1>5, <2>3, <2>4a, <3>1
    <2>6. CASE items[i + 1] # App(i)
        <3>1. ~AppsListed
            BY <2>2, <2>6 DEF AppsListed
        <3>2. items[i + 1] = RESCUE
            <4>1. i + 1 \in 1..n /\ i + 1 # 1 /\ (i + 1) - 1 = i
                BY <1>2, <1>11
            <4> QED BY <1>3, <2>6, <4>1
        <3> QED BY <1>2, <1>3, <1>5, <1>11, <2>1, <2>3, <2>4a, <3>1, <3>2
    <2> QED BY <2>5, <2>6
<1> QED BY <1>9, <1>10, <1>11

\* Without an input, what has been saved is launched.
LEMMA AutobootLaunch ==
    ASSUME IInv, PaintBootList, phase = "paint", running = MENU, running' # MENU
    PROVE  Hilited /\ AutobootAsSaved /\ HookAsAsked
<1> DEFINE i == hilites["boot_list"]
<1>1. /\ BootHilitedItem /\ Top = "boot_list" /\ countdown.active
    BY DEF PaintBootList
<1>2. /\ ~touched /\ stored.on /\ AppsListed
      /\ i = IF "item" \notin lost /\ stored.item \in 1..NumApps THEN stored.item ELSE 0
    BY <1>1 DEF IInv, CountdownInv
<1>3. Hilited /\ HookAsAsked /\ running' = ItemAt(i)
    BY <1>1, <1>2, BootedItem
<1>4. i # 0 => running' = App(i)
    <2>1. i # 0 => i \in 1..NumApps
        BY <1>2
    <2>2. i # 0 => items[i + 1] = App(i)
        BY <1>2, <2>1 DEF AppsListed
    <2> QED BY <1>3, <2>2 DEF Hilited
<1>5. i = 0 => running' = OSDSYS
    BY <1>3 DEF ItemAt
<1>6. stored.item \in 1..NumApps => stored.item # 0
    BY ConstantTypes
<1>7. AutobootAsSaved
    BY <1>2, <1>4, <1>5, <1>6 DEF AutobootAsSaved
<1> QED BY <1>3, <1>7

\* The menu leaves for what is hilited on the screen, or for what is saved if
\* nobody touched it, or else it has taken a forgotten rescue item for an app
\* that it could not list, whatever drives come and go (boot_list.c:33-77,
\* 130-146, 231-251, 304-335).  The hook is disabled exactly if the attributes
\* of that item ask for it, but for a command that failed, for RESCUE.ELF, and
\* for what an earlier launch left disabled.
THEOREM LaunchedAsAsked == Spec => LaunchesAsAsked
<1> DEFINE Asked == running' # running =>
                        /\ (Hilited /\ AutobootAsSaved) \/ TakenForApp
                        /\ HookAsAsked
<1>1. ASSUME IInv, Next, running' # running
      PROVE  /\ (Hilited /\ AutobootAsSaved) \/ TakenForApp
             /\ HookAsAsked
    <2>1. running = MENU
        BY <1>1 DEF Next
    <2>2. CASE \E b \in user.buttons : Input(b)
        <3>1. PICK b : Input(b)
            BY <2>2
        <3>2. BootListCross(b)
            BY <1>1, <3>1 DEF Input, Handle, Navigate, BootListSquare, BootListTriangle,
                BootListStart, OptionsCross, OptionsCircle, SettingsAdjust, SettingsCircle,
                SettingsToggle, SettingsStartAdjusting, SettingsAbout, AboutCircle,
                AboutCross, NotFoundInput, FoundInput, CompleteCircle, MessageCircle,
                OtherInput, launch
        <3>3. BootHilitedItem /\ Top = "boot_list" /\ phase = "input"
            BY <3>1, <3>2 DEF Input, BootListCross
        <3>4. AutobootAsSaved
            BY <3>3 DEF AutobootAsSaved
        <3>5. /\ HookAsAsked
              /\ \/ Hilited
                 \/ LET i == hilites["boot_list"]
                    IN  /\ items[i + 1] = RESCUE /\ i # rescue_item_idx
                        /\ NoAppListed /\ running' = App(i)
            BY <1>1, <2>1, <3>3, BootedItem
        <3> QED BY <3>3, <3>4, <3>5 DEF TakenForApp, NoAppListed
    <2>3. CASE Paint /\ PaintBootList
        BY <1>1, <2>1, <2>3, AutobootLaunch DEF Paint
    <2>4. CASE Start \/ (Paint /\ ~PaintBootList)
        BY <1>1, <2>4 DEF Start, Paint, PaintInit, PaintOther, SwitchToBootList, launch
    <2>5. CASE ReadSettings \/ RefreshOpen \/ RefreshFinish \/ Tick \/ NoInput
        BY <1>1, <2>5 DEF ReadSettings, RefreshOpen, RefreshFinish, Tick, NoInput, launch
    <2>6. CASE Alarm \/ MountEvent \/ ChangeDrive
        BY <1>1, <2>6 DEF Alarm, MountEvent, ChangeDrive, launch
    <2> QED BY <1>1, <2>2, <2>3, <2>4, <2>5, <2>6 DEF Next, Loop
<1>2. IInv /\ [Next]_vars => [Asked]_vars
    BY <1>1
<1>3. Spec => [][Asked]_vars
    BY <1>2, Inductive, PTL DEF Spec
<1> QED BY <1>3 DEF LaunchesAsAsked
=============================================================================
