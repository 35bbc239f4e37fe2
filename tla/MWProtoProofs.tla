--------------------------- MODULE MWProtoProofs ----------------------------
(***************************************************************************)
(* What goes to the multiworld server and comes back from it: proofs about *)
(* Placements, for seeds of any length, any answer of the server and any   *)
(* names, those included that look like the ones Isthmus makes, and about  *)
(* Codec, for any number of frames.                                        *)
(***************************************************************************)
EXTENDS Placements, Codec, SequenceTheorems, TLAPS

-----------------------------------------------------------------------------
(* Placements. *)

(* discriminators.go *)

(* strconv reads what fmt wrote. *)
LEMMA NumeralReadBack ==
    ASSUME NEW n \in Number
    PROVE  IsNumeral(Numeral(n)) /\ ParseInt(Numeral(n)) = n
<1>1. \A m \in Number : Numeral(m) = Numeral(n) => m = n
  BY NumbersAssumption DEF Numeral, Number
<1> QED
  BY <1>1 DEF IsNumeral, ParseInt

(* A largest element is the maximum. *)
LEMMA MaxIs ==
    ASSUME NEW S, NEW m \in S, m \in Int, \A x \in S : x \in Int /\ x <= m
    PROVE  Max(S) = m
<1>1. \A y \in S : m >= y
  OBVIOUS
<1>2. \A x \in S : (\A y \in S : x >= y) => x = m
  OBVIOUS
<1> QED
  BY <1>1, <1>2, Zenon DEF Max

(* A smallest element is the minimum. *)
LEMMA MinIs ==
    ASSUME NEW S, NEW m \in S, m \in Int, \A x \in S : x \in Int /\ m <= x
    PROVE  Min(S) = m
<1>1. \A y \in S : m <= y
  OBVIOUS
<1>2. \A x \in S : (\A y \in S : x <= y) => x = m
  OBVIOUS
<1> QED
  BY <1>1, <1>2, Zenon DEF Min

(* A sequence of one element. *)
LEMMA OneToken ==
    ASSUME NEW T, NEW s \in Seq(T), Len(s) = 1
    PROVE  s = <<s[1]>>
  OBVIOUS

(* What SubSeq cuts out. *)
LEMMA Cutting ==
    ASSUME NEW T, NEW s \in Seq(T), NEW m \in Nat, NEW n \in Nat,
           1 <= m, m <= n + 1, n <= Len(s)
    PROVE  /\ SubSeq(s, m, n) \in Seq(T)
           /\ Len(SubSeq(s, m, n)) = n - m + 1
           /\ \A i \in 1 .. n - m + 1 : SubSeq(s, m, n)[i] = s[m + i - 1]
<1>1. \A i \in m .. n : s[i] \in T
  OBVIOUS
<1> QED
  BY <1>1, SubSeqProperties

(* What is left behind the first three cells. *)
LEMMA CuttingFront ==
    ASSUME NEW T, NEW s \in Seq(T), 3 <= Len(s)
    PROVE  /\ SubSeq(s, 4, Len(s)) \in Seq(T)
           /\ Len(SubSeq(s, 4, Len(s))) = Len(s) - 3
           /\ \A i \in 1 .. Len(s) - 3 : SubSeq(s, 4, Len(s))[i] = s[i + 3]
<1> DEFINE n == Len(s)
<1>1. n \in Nat /\ 4 <= n + 1 /\ n <= Len(s)
  OBVIOUS
<1> HIDE DEF n
<1>2. /\ SubSeq(s, 4, n) \in Seq(T) /\ Len(SubSeq(s, 4, n)) = n - 4 + 1
      /\ \A i \in 1 .. n - 4 + 1 : SubSeq(s, 4, n)[i] = s[4 + i - 1]
  BY <1>1, Cutting
<1>3. /\ SubSeq(s, 4, n) \in Seq(T) /\ Len(SubSeq(s, 4, n)) = n - 3
      /\ \A i \in 1 .. n - 3 : SubSeq(s, 4, n)[i] = s[i + 3]
  BY <1>1, <1>2
<1> QED
  BY <1>3 DEF n

(* The characters that the code looks for are different. *)
LEMMA Characters ==
    /\ {Underscore, Opening, Closing, "MW"} \subseteq Token
    /\ Underscore # Opening /\ Underscore # Closing /\ Opening # Closing
  BY NamesAssumption DEF Underscore, Opening, Closing

(* The characters of a name with a number. *)
LEMMA DiscriminatedParts ==
    ASSUME NEW name \in Name, NEW n \in Number
    PROVE  /\ Discriminated(name, n) \in Name
           /\ Len(Discriminated(name, n)) = Len(name) + 4
           /\ \A i \in 1 .. Len(name) : Discriminated(name, n)[i] = name[i]
           /\ Discriminated(name, n)[Len(name) + 1] = Underscore
           /\ Discriminated(name, n)[Len(name) + 2] = Opening
           /\ Discriminated(name, n)[Len(name) + 3] = Decimal[n]
           /\ Discriminated(name, n)[Len(name) + 4] = Closing
<1>1. Decimal[n] \in Token
  BY NumbersAssumption
<1> QED
  BY <1>1, Characters DEF Discriminated, Numeral, Name

(* Cutting off the closing parenthesis leaves one place where the number can
   begin. *)
LEMMA DiscriminatedCut ==
    ASSUME NEW name \in Name, NEW n \in Number, NEW body,
           body = CutClosing(Discriminated(name, n))
    PROVE  /\ body # Discriminated(name, n)
           /\ body \in Name /\ Len(body) = Len(name) + 3
           /\ \A i \in 1 .. Len(name) : body[i] = name[i]
           /\ body[Len(name) + 3] = Decimal[n]
           /\ Len(name) + 1 \in Occurrences(body, Underscore, Opening)
           /\ Max(Occurrences(body, Underscore, Opening)) = Len(name) + 1
<1> DEFINE s == Discriminated(name, n)
           L == Len(name)
<1>1. L \in Nat /\ s \in Name /\ Len(s) = L + 4
  BY DiscriminatedParts DEF Name
<1>2. /\ \A i \in 1 .. L : s[i] = name[i]
      /\ s[L + 1] = Underscore /\ s[L + 2] = Opening
      /\ s[L + 3] = Decimal[n] /\ s[L + 4] = Closing
  BY DiscriminatedParts
<1> HIDE DEF s, L
<1>3. body = SubSeq(s, 1, L + 3)
  <2>1. s # <<>> /\ Last(s) = Closing
    BY <1>1, <1>2 DEF Last, Name
  <2> QED
    BY <1>1, <2>1 DEF CutClosing, Front, s
<1>4. /\ body \in Name /\ Len(body) = L + 3
      /\ \A i \in 1 .. L + 3 : body[i] = s[i]
  BY <1>1, <1>3, Cutting DEF Name
<1>5. body # s
  BY <1>1, <1>4
<1>6. L + 1 \in Occurrences(body, Underscore, Opening)
  BY <1>1, <1>2, <1>4 DEF Occurrences
<1>7. \A i \in Occurrences(body, Underscore, Opening) : i \in Int /\ i <= L + 1
  BY <1>1, <1>2, <1>4, Characters DEF Occurrences
<1>8. Max(Occurrences(body, Underscore, Opening)) = L + 1
  BY <1>1, <1>6, <1>7, MaxIs
<1> QED
  BY <1>1, <1>2, <1>4, <1>5, <1>6, <1>8 DEF s, L

(* ParseDiscriminator finds the number that Isthmus has put behind a name,
   whatever the name contains. *)
LEMMA DiscriminatorReadBack ==
    ASSUME NEW name \in Name, NEW n \in Number
    PROVE  ParseDiscriminator(Discriminated(name, n)) = n
<1> DEFINE s == Discriminated(name, n)
           body == CutClosing(s)
           at == Occurrences(body, Underscore, Opening)
           digits == SubSeq(body, Max(at) + 2, Len(body))
<1>1. /\ body # s /\ body \in Name /\ Len(body) = Len(name) + 3
      /\ body[Len(name) + 3] = Decimal[n]
      /\ at # {} /\ Max(at) = Len(name) + 1
  BY DiscriminatedCut
<1>2. Len(name) \in Nat
  BY DEF Name
<1>3. ParseDiscriminator(s) =
        IF body = s \/ at = {} THEN NoNumber
        ELSE IF IsNumeral(digits) THEN ParseInt(digits) ELSE NoNumber
  BY DEF ParseDiscriminator
<1> HIDE DEF body, at, s
<1>4. digits = Numeral(n)
  <2>1. digits = SubSeq(body, Len(name) + 3, Len(name) + 3)
    BY <1>1, <1>2
  <2>2. digits \in Seq(Token) /\ Len(digits) = 1 /\ digits[1] = Decimal[n]
    BY <1>1, <1>2, <2>1, Cutting DEF Name
  <2> HIDE DEF digits
  <2> QED
    BY <2>2, OneToken DEF Numeral
<1> QED
  BY <1>1, <1>3, <1>4, NumeralReadBack DEF s

(* StripDiscriminator gives the name back. *)
LEMMA NameReadBack ==
    ASSUME NEW name \in Name, NEW n \in Number
    PROVE  StripDiscriminator(Discriminated(name, n)) = name
<1> DEFINE s == Discriminated(name, n)
           body == CutClosing(s)
           at == Occurrences(body, Underscore, Opening)
<1>1. /\ body \in Name /\ Len(body) = Len(name) + 3
      /\ \A i \in 1 .. Len(name) : body[i] = name[i]
      /\ at # {} /\ Max(at) = Len(name) + 1
  BY DiscriminatedCut
<1>2. Len(name) \in Nat
  BY DEF Name
<1>3. StripDiscriminator(s) = IF at = {} THEN body ELSE SubSeq(body, 1, Max(at) - 1)
  BY DEF StripDiscriminator
<1> HIDE DEF body, at, s
<1>4. SubSeq(body, 1, Max(at) - 1) = SubSeq(body, 1, Len(name))
  BY <1>1, <1>2
<1>5. SubSeq(body, 1, Len(name)) = name
  <2>1. /\ SubSeq(body, 1, Len(name)) \in Seq(Token)
        /\ Len(SubSeq(body, 1, Len(name))) = Len(name)
        /\ \A i \in 1 .. Len(name) : SubSeq(body, 1, Len(name))[i] = body[i]
    BY <1>1, <1>2, Cutting DEF Name
  <2> QED
    BY <1>1, <2>1, SeqEqual DEF Name
<1> QED
  BY <1>1, <1>3, <1>4, <1>5 DEF s

(* ParseQualifiedName takes apart what the server has put together, whatever
   the name contains. *)
LEMMA QualifiedReadBack ==
    ASSUME NEW pid \in Number, NEW name \in Name
    PROVE  ParseQualifiedName(Qualified(pid, name)) = [pid |-> pid, name |-> name]
<1> DEFINE q == Qualified(pid, name)
           rest == SubSeq(q, 3, Len(q))
           at == Occurrences(rest, Closing, Underscore)
           qualifier == SubSeq(rest, 1, Min(at) - 1)
           tail == SubSeq(rest, Min(at) + 2, Len(rest))
           L == Len(name)
<1>1. /\ Decimal[pid] \in Token /\ Decimal[pid] # Closing /\ L \in Nat
      /\ {"MW", Underscore, Opening, Closing} \subseteq Token
  BY Characters, NumbersAssumption DEF Name
<1>2. /\ q \in Name /\ Len(q) = L + 5
      /\ q[1] = "MW" /\ q[2] = Opening /\ q[3] = Decimal[pid]
      /\ q[4] = Closing /\ q[5] = Underscore
      /\ \A i \in 1 .. L : q[i + 5] = name[i]
  BY <1>1 DEF Qualified, Numeral, Name
<1>3. ParseQualifiedName(q) =
        IF ~IsPrefix(<<"MW", Opening>>, q) \/ at = {} THEN NoName
        ELSE IF ~IsNumeral(qualifier) THEN NoName
        ELSE [pid |-> ParseInt(qualifier), name |-> tail]
  BY DEF ParseQualifiedName
<1> HIDE DEF q
<1>4. /\ rest \in Name /\ Len(rest) = L + 3
      /\ \A i \in 1 .. L + 3 : rest[i] = q[i + 2]
  BY <1>1, <1>2, Cutting DEF Name
<1> HIDE DEF rest, L
<1>5. 2 \in at /\ \A i \in at : i \in Int /\ 2 <= i
  BY <1>1, <1>2, <1>4, Characters DEF Occurrences
<1>6. at # {} /\ Min(at) = 2
  BY <1>5, MinIs
<1> HIDE DEF at
<1>7. qualifier = Numeral(pid)
  <2>1. qualifier = SubSeq(rest, 1, 1)
    BY <1>6
  <2>a. rest \in Seq(Token) /\ 1 <= Len(rest) /\ rest[1] = Decimal[pid]
    BY <1>1, <1>2, <1>4 DEF Name
  <2>2. qualifier \in Seq(Token) /\ Len(qualifier) = 1 /\ qualifier[1] = Decimal[pid]
    <3>1. /\ SubSeq(rest, 1, 1) \in Seq(Token) /\ Len(SubSeq(rest, 1, 1)) = 1
          /\ SubSeq(rest, 1, 1)[1] = rest[1]
      BY <2>a, Cutting
    <3> QED
      BY <2>1, <2>a, <3>1
  <2> HIDE DEF qualifier
  <2> QED
    BY <2>2, OneToken DEF Numeral
<1>8. tail = name
  <2>1. tail = SubSeq(rest, 4, Len(rest))
    BY <1>6
  <2>2. /\ tail \in Seq(Token) /\ Len(tail) = L
        /\ \A i \in 1 .. L : tail[i] = rest[i + 3]
    <3>1. rest \in Seq(Token) /\ 3 <= Len(rest)
      BY <1>1, <1>4 DEF Name
    <3>2. /\ SubSeq(rest, 4, Len(rest)) \in Seq(Token)
          /\ Len(SubSeq(rest, 4, Len(rest))) = Len(rest) - 3
          /\ \A i \in 1 .. Len(rest) - 3 :
               SubSeq(rest, 4, Len(rest))[i] = rest[i + 3]
      BY <3>1, CuttingFront
    <3> HIDE DEF tail
    <3> QED
      BY <1>1, <1>4, <2>1, <3>2
  <2>3. \A i \in 1 .. L : tail[i] = name[i]
    <3> SUFFICES ASSUME NEW i \in 1 .. L PROVE tail[i] = name[i]
      OBVIOUS
    <3>1. i + 3 \in 1 .. L + 3 /\ (i + 3) + 2 = i + 5
      BY <1>1
    <3>2. tail[i] = q[i + 5]
      BY <1>4, <2>2, <3>1
    <3> QED
      BY <1>1, <1>2, <3>2
  <2> QED
    BY <2>2, <2>3, SeqEqual DEF Name, L
<1>9. IsPrefix(<<"MW", Opening>>, q)
  <2>1. <<"MW", Opening>> \in Seq(Token) /\ Len(<<"MW", Opening>>) = 2
    BY <1>1
  <2> QED
    BY <1>1, <1>2, <2>1 DEF IsPrefix, Name
<1> HIDE DEF qualifier, tail
<1> QED
  BY <1>3, <1>6, <1>7, <1>8, <1>9, NumeralReadBack DEF q

-----------------------------------------------------------------------------
(* The names of items and places. *)

(* The name of an item of ours leads back to its number. *)
LEMMA UniqueNameReadBack ==
    ASSUME NEW item \in DOMAIN ItemName, NEW n \in Number
    PROVE  /\ UniqueName(item, n) \in Name
           /\ ParseDiscriminator(UniqueName(item, n)) = n
           /\ LookUp(UniqueName(item, n)) = item
<1>1. ItemName[item] \in Name
  BY NamesAssumption
<1>2. /\ UniqueName(item, n) \in Name
      /\ ParseDiscriminator(UniqueName(item, n)) = n
      /\ StripDiscriminator(UniqueName(item, n)) = ItemName[item]
  BY <1>1, DiscriminatedParts, DiscriminatorReadBack, NameReadBack DEF UniqueName
<1>3. {i \in DOMAIN ItemName : ItemName[i] = ItemName[item]} = {item}
  BY NamesAssumption
<1>4. LookUp(UniqueName(item, n)) = CHOOSE i \in {item} : TRUE
  BY <1>2, <1>3 DEF LookUp
<1> QED
  BY <1>2, <1>4

(* The name of a place of ours leads back to its number. *)
LEMMA PlaceNameReadBack ==
    ASSUME NEW loc \in Loc
    PROVE  PlaceName(loc) \in Name /\ ParseDiscriminator(PlaceName(loc)) = loc
<1>1. BareName(loc) \in Name
  <2>1. "Mystery" \in Token /\ "Place" \in Token /\ Underscore \in Token
    BY NamesAssumption
  <2>2. <<"Mystery", Underscore, "Place">> \in Name
    BY <2>1 DEF Name
  <2> QED
    BY <2>2, NamesAssumption DEF BareName
<1>2. loc \in Number
  BY NumbersAssumption
<1> QED
  BY <1>1, <1>2, DiscriminatedParts, DiscriminatorReadBack DEF PlaceName

(* What a state whose placements are named and counted says of them. *)
NamesOK == SeedOK /\ OriginOK /\ Len(mwPlacements) <= MaxChecks

(* What the server gets from us, by number. *)
LEMMA OurNames ==
    ASSUME NamesOK, NEW i \in Ours
    PROVE  /\ i \in 1 .. Len(mwPlacements) /\ Len(mwPlacements) \in Nat
           /\ i - 1 \in Number /\ LocOf(i) \in Loc
           /\ placed[LocOf(i)] \in DOMAIN ItemName
           /\ mwPlacements[i].item = UniqueName(placed[LocOf(i)], i - 1)
           /\ mwPlacements[i].location = PlaceName(LocOf(i))
<1>1. /\ i \in 1 .. Len(mwPlacements) /\ Len(mwPlacements) \in Nat
  BY DEF NamesOK, OriginOK, Ours
<1>2. Len(TheirNames) \in Nat /\ MaxChecks \in Nat
  BY NamesAssumption, NumbersAssumption
<1>3. i - 1 \in 0 .. MaxChecks + Len(TheirNames)
  BY <1>1, <1>2 DEF NamesOK
<1>4. i - 1 \in Number
  BY <1>3, NumbersAssumption
<1>5. LocOf(i) \in DOMAIN placed /\ placed[LocOf(i)] \in DOMAIN ItemName
  BY DEF NamesOK, OriginOK
<1>6. LocOf(i) \in Loc
  BY <1>5 DEF NamesOK, SeedOK
<1>7. mwPlacements[i] = [item |-> UniqueName(placed[LocOf(i)], i - 1),
                         location |-> PlaceName(LocOf(i))]
  BY DEF NamesOK, OriginOK
<1> QED
  BY <1>1, <1>4, <1>5, <1>6, <1>7

(* The server's names are names, and a number says whose they are. *)
LEMMA ServerNames ==
    ASSUME NamesOK, NEW i \in All
    PROVE  /\ NameOfItem(i) \in Name /\ NameOfPlace(i) \in Name
           /\ Owner(i) \in Number
<1>1. Owner(i) \in Number
  BY NumbersAssumption DEF Owner
<1>2. CASE i \in Ours
  <2>1. mwPlacements[i].item \in Name /\ mwPlacements[i].location \in Name
    BY <1>2, OurNames, UniqueNameReadBack, PlaceNameReadBack
  <2> QED
    BY <1>1, <1>2, <2>1 DEF NameOfItem, NameOfPlace
<1>3. CASE i \notin Ours
  <2>1. /\ mwPlacements \in Seq([item : Name, location : Name])
        /\ Len(mwPlacements) \in Nat /\ DOMAIN mwPlacements = 1 .. Len(mwPlacements)
    BY DEF NamesOK, OriginOK
  <2>2. Len(TheirNames) \in Nat /\ TheirNames \in Seq(Name) /\ MaxChecks \in Nat
    BY NamesAssumption, NumbersAssumption
  <2>3. i - Len(mwPlacements) \in 1 .. Len(TheirNames)
    BY <1>3, <2>1, <2>2 DEF Ours, All
  <2>4. i \in 0 .. MaxChecks + Len(TheirNames)
    BY <2>1, <2>2 DEF All, NamesOK
  <2>5. Decimal[i] \in Token /\ "there" \in Token
    BY <2>4, NamesAssumption, NumbersAssumption
  <2>6. <<"there">> \o Numeral(i) \in Name
    BY <2>5 DEF Numeral, Name
  <2>7. TheirNames[i - Len(mwPlacements)] \in Name
    BY <2>2, <2>3
  <2> QED
    BY <1>1, <1>3, <2>6, <2>7 DEF NameOfItem, NameOfPlace
<1> QED
  BY <1>2, <1>3

(* The server deals every item to one place. *)
LEMMA DealsType ==
    ASSUME dealt \in Deals
    PROVE  /\ \A i \in All : dealt[i] \in All
           /\ \A i, j \in All : dealt[i] = dealt[j] => i = j
  BY DEF Deals

(* Our places are among all places. *)
LEMMA OursInAll ==
    ASSUME NamesOK
    PROVE  Ours \subseteq All
<1>1. Len(mwPlacements) \in Nat /\ DOMAIN mwPlacements = 1 .. Len(mwPlacements)
  BY DEF NamesOK, OriginOK
<1>2. Len(TheirNames) \in Nat
  BY NamesAssumption
<1> QED
  BY <1>1, <1>2 DEF Ours, All

(* createSavefile reads a place of ours and what lies in it from their names. *)
LEMMA WorldRowIs ==
    ASSUME NamesOK, dealt \in Deals, NEW i \in Ours
    PROVE  /\ WorldRow(ResultPlacement(i)) =
                [location |-> LocOf(i), owner |-> Owner(dealt[i]),
                 item |-> NameOfItem(dealt[i])]
           /\ LocOf(i) # NoNumber /\ Owner(dealt[i]) # NoNumber
<1> DEFINE p == ResultPlacement(i)
<1>1. i \in All /\ dealt[i] \in All
  BY OursInAll, DealsType
<1>2. NameOfItem(dealt[i]) \in Name /\ Owner(dealt[i]) \in Number
  BY <1>1, ServerNames
<1>3. LocOf(i) \in Loc /\ NameOfPlace(i) = PlaceName(LocOf(i))
  BY OurNames DEF NameOfPlace
<1>4. /\ p.item = Qualified(Owner(dealt[i]), NameOfItem(dealt[i]))
      /\ p.location = PlaceName(LocOf(i))
  BY <1>3 DEF ResultPlacement
<1> HIDE DEF p
<1>5. ParseDiscriminator(p.location) = LocOf(i)
  BY <1>3, <1>4, PlaceNameReadBack
<1>6. ParseQualifiedName(p.item) =
        [pid |-> Owner(dealt[i]), name |-> NameOfItem(dealt[i])]
  BY <1>2, <1>4, QualifiedReadBack
<1>7. WorldRow(p) = [location |-> LocOf(i), owner |-> Owner(dealt[i]),
                     item |-> NameOfItem(dealt[i])]
  BY <1>5, <1>6 DEF WorldRow
<1> QED
  BY <1>2, <1>3, <1>7, NumbersAssumption DEF p

(* And where an item of ours is. *)
LEMMA ItemRowIs ==
    ASSUME NamesOK, dealt \in Deals, NEW i \in All, dealt[i] \in Ours,
           answer.prefix = "MW(N)_"
    PROVE  /\ ItemRow(OwnRow(i)) =
                [item |-> NameOfItem(dealt[i]), source |-> Owner(i),
                 location |-> NameOfPlace(i)]
           /\ Owner(i) # NoNumber
<1> DEFINE p == OwnRow(i)
<1>1. NameOfPlace(i) \in Name /\ Owner(i) \in Number
  BY ServerNames
<1>2. /\ p.item = NameOfItem(dealt[i])
      /\ p.location = Qualified(Owner(i), NameOfPlace(i))
  BY DEF OwnRow, OwnPlacement, QualifiedAs
<1> HIDE DEF p
<1>3. ParseQualifiedName(p.location) = [pid |-> Owner(i), name |-> NameOfPlace(i)]
  BY <1>1, <1>2, QualifiedReadBack
<1>4. ItemRow(p) = [item |-> NameOfItem(dealt[i]), source |-> Owner(i),
                    location |-> NameOfPlace(i)]
  BY <1>2, <1>3 DEF ItemRow
<1> QED
  BY <1>1, <1>4, NumbersAssumption DEF p

(* With the other prefix it does not find out. *)
LEMMA OtherPrefixRefused ==
    ASSUME NamesOK, dealt \in Deals, NEW i \in All, answer.prefix = "MW_(N)_"
    PROVE  ItemRow(OwnRow(i)).source = NoNumber
<1> DEFINE q == QualifiedAs(answer.prefix, Owner(i), NameOfPlace(i))
<1>1. NameOfPlace(i) \in Name /\ Owner(i) \in Number
  BY ServerNames
<1>2. /\ <<"MW", Underscore, Opening>> \o Numeral(Owner(i))
            \o <<Closing, Underscore>> \in Name
      /\ <<Closing, Underscore>> \in Name
      /\ <<"MW", Underscore, Opening>> \in Name /\ Numeral(Owner(i)) \in Name
  BY <1>1, NamesAssumption, NumbersAssumption DEF Numeral, Name
<1>3. q[2] = Underscore
  BY <1>1, <1>2 DEF QualifiedAs, Numeral, Name
<1>4. ~IsPrefix(<<"MW", Opening>>, q)
  BY <1>3 DEF IsPrefix, Opening, Underscore
<1>5. ParseQualifiedName(q) = NoName
  BY <1>4 DEF ParseQualifiedName
<1>6. OwnRow(i).location = q
  BY DEF OwnRow, OwnPlacement
<1> QED
  BY <1>5, <1>6 DEF ItemRow, NoName

(* The name is kept as it is. *)
LEMMA ItemRowName ==
    ASSUME NEW i
    PROVE  ItemRow(OwnRow(i)).item = NameOfItem(dealt[i])
  BY DEF ItemRow, OwnRow, OwnPlacement

(* The number behind the name makes the names of our items differ. *)
LEMMA OwnItemsDiffer ==
    ASSUME NamesOK, dealt \in Deals, NEW i \in All, NEW j \in All,
           dealt[i] \in Ours, dealt[j] \in Ours,
           NameOfItem(dealt[i]) = NameOfItem(dealt[j])
    PROVE  i = j
<1> DEFINE a == dealt[i]
           b == dealt[j]
<1>1. /\ NameOfItem(a) = UniqueName(placed[LocOf(a)], a - 1)
      /\ placed[LocOf(a)] \in DOMAIN ItemName /\ a - 1 \in Number
      /\ a \in 1 .. Len(mwPlacements) /\ Len(mwPlacements) \in Nat
  BY OurNames DEF NameOfItem
<1>2. /\ NameOfItem(b) = UniqueName(placed[LocOf(b)], b - 1)
      /\ placed[LocOf(b)] \in DOMAIN ItemName /\ b - 1 \in Number
      /\ b \in 1 .. Len(mwPlacements)
  BY OurNames DEF NameOfItem
<1>3. ParseDiscriminator(NameOfItem(a)) = a - 1 /\ ParseDiscriminator(NameOfItem(b)) = b - 1
  BY <1>1, <1>2, UniqueNameReadBack
<1>4. a - 1 = b - 1
  BY <1>3
<1>5. a = b
  BY <1>1, <1>2, <1>4
<1> QED
  BY <1>5, DealsType

(* An item of ours is looked up by the name that is left. *)
LEMMA OwnItemFound ==
    ASSUME NamesOK, NEW i \in Ours
    PROVE  LookUp(NameOfItem(i)) = placed[LocOf(i)]
  BY OurNames, UniqueNameReadBack DEF NameOfItem

-----------------------------------------------------------------------------
(* The inductive invariant. *)

(* Before the first round nothing is placed. *)
LEMMA InitPlacements == PlacementsInit => PlacementsInv
<1> SUFFICES ASSUME PlacementsInit PROVE PlacementsInv
  OBVIOUS
<1>1. SeedOK
  <2>1. checks \in Seq(Loc) /\ Len(checks) <= MaxChecks
    BY NumbersAssumption DEF PlacementsInit, BoundedSeq, SeqOf
  <2>2. \A l \in DOMAIN placed : l \in Loc
    BY DEF PlacementsInit
  <2> QED
    BY <2>1, <2>2 DEF SeedOK
<1>2. mwPlacements = <<>> /\ origin = <<>> /\ Ours = {} /\ Len(mwPlacements) = 0
  BY DEF PlacementsInit, Ours
<1>3. OriginOK
  BY <1>2 DEF OriginOK
<1>4. ConvertOK
  BY <1>1, <1>2 DEF ConvertOK, PlacementsInit, SeedOK
<1> QED
  BY <1>1, <1>3, <1>4 DEF PlacementsInv, PlacementsInit, CreateFailsOnlyFor

(* What does not change the placements keeps their names. *)
LEMMA NamesStay ==
    ASSUME UNCHANGED <<seed, mwPlacements, origin>>
    PROVE  /\ SeedOK => SeedOK'
           /\ OriginOK => OriginOK'
           /\ Ours' = Ours /\ All' = All
           /\ \A i : LocOf(i)' = LocOf(i) /\ Owner(i)' = Owner(i)
           /\ \A i : NameOfItem(i)' = NameOfItem(i) /\ NameOfPlace(i)' = NameOfPlace(i)
<1>1. checks' = checks /\ placed' = placed /\ mwPlacements' = mwPlacements /\ origin' = origin
  BY DEF seed
<1>2. Ours' = Ours /\ All' = All /\ \A i : LocOf(i)' = LocOf(i) /\ Owner(i)' = Owner(i)
  BY <1>1 DEF Ours, All, LocOf, Owner
<1>3. \A i : NameOfItem(i)' = NameOfItem(i) /\ NameOfPlace(i)' = NameOfPlace(i)
  BY <1>1, <1>2 DEF NameOfItem, NameOfPlace
<1>4. SeedOK => SeedOK'
  BY <1>1 DEF SeedOK
<1>5. OriginOK => OriginOK'
  BY <1>1, <1>2 DEF OriginOK
<1> QED
  BY <1>2, <1>3, <1>4, <1>5

(* A location without an item is left out. *)
LEMMA ConvertNothingKeeps ==
    ASSUME PlacementsInv, ConvertNothing
    PROVE  PlacementsInv'
<1>1. /\ UNCHANGED <<seed, mwPlacements, origin>> /\ phase = "convert" /\ phase' = phase
      /\ round < Len(checks) /\ checks[round + 1] \notin DOMAIN placed
      /\ round' = round + 1 /\ UNCHANGED <<worldRows, itemRows, checks, placed>>
  BY DEF ConvertNothing, rows, seed
<1>2. SeedOK' /\ OriginOK' /\ Ours' = Ours
  BY <1>1, NamesStay DEF PlacementsInv
<1>3. ConvertOK'
  <2>1. ConvertOK /\ Len(checks) \in Nat /\ Len(mwPlacements) \in Nat
    BY <1>1 DEF PlacementsInv, SeedOK, OriginOK
  <2>2. \A i \in Ours : origin[i] \in Int
    BY DEF PlacementsInv, OriginOK, SeedOK, Ours
  <2> QED
    BY <1>1, <1>2, <2>1, <2>2 DEF ConvertOK
<1> QED
  BY <1>1, <1>2, <1>3 DEF PlacementsInv, CreateFailsOnlyFor

(* One more placement, with the next number. *)
LEMMA ConvertKeeps ==
    ASSUME PlacementsInv, Convert
    PROVE  PlacementsInv'
<1> DEFINE loc == checks[round + 1]
           n == Len(mwPlacements)
           p == [item |-> UniqueName(placed[loc], n), location |-> PlaceName(loc)]
<1>1. /\ phase = "convert" /\ phase' = phase /\ round < Len(checks)
      /\ loc \in DOMAIN placed /\ placed[loc] \in DOMAIN ItemName
      /\ mwPlacements' = Append(mwPlacements, p) /\ origin' = Append(origin, round + 1)
      /\ round' = round + 1
      /\ UNCHANGED <<checks, placed, worldRows, itemRows>>
  BY DEF Convert, rows, seed
<1>2. SeedOK /\ OriginOK /\ ConvertOK
  BY <1>1 DEF PlacementsInv
<1>3. SeedOK'
  BY <1>1, <1>2 DEF SeedOK
<1>4. /\ n \in Nat /\ round \in Nat /\ n <= round /\ Len(checks) \in Nat
      /\ round + 1 \in 1 .. Len(checks) /\ Len(checks) <= MaxChecks
      /\ round + 1 \in DOMAIN checks /\ DOMAIN checks = 1 .. Len(checks)
  BY <1>1, <1>2 DEF SeedOK, OriginOK, ConvertOK
<1>5. n \in Number /\ loc \in Loc
  <2>1. Len(TheirNames) \in Nat /\ MaxChecks \in Nat
    BY NamesAssumption, NumbersAssumption
  <2>2. n \in 0 .. MaxChecks + Len(TheirNames)
    BY <1>1, <1>4, <2>1
  <2>3. loc \in Loc
    BY <1>1, <1>2 DEF SeedOK
  <2> HIDE DEF loc, n
  <2> QED
    BY <2>2, <2>3, NumbersAssumption
<1>6. p \in [item : Name, location : Name]
  <2> HIDE DEF loc, n
  <2> QED
    BY <1>1, <1>5, UniqueNameReadBack, PlaceNameReadBack
<1>7. /\ mwPlacements \in Seq([item : Name, location : Name])
      /\ origin \in Seq(DOMAIN checks) /\ Len(origin) = n
      /\ Ours = 1 .. n
  BY <1>2 DEF OriginOK, Ours
<1> HIDE DEF p, n, loc
<1>8. /\ mwPlacements' \in Seq([item : Name, location : Name])
      /\ Len(mwPlacements') = n + 1 /\ mwPlacements'[n + 1] = p
      /\ \A i \in 1 .. n : mwPlacements'[i] = mwPlacements[i]
      /\ Ours' = 1 .. n + 1
  <2>1. /\ mwPlacements' \in Seq([item : Name, location : Name])
        /\ Len(mwPlacements') = n + 1 /\ mwPlacements'[n + 1] = p
        /\ \A i \in 1 .. n : mwPlacements'[i] = mwPlacements[i]
    BY <1>1, <1>6, <1>7, AppendProperties DEF n
  <2> QED
    BY <2>1 DEF Ours
<1>9. /\ origin' \in Seq(DOMAIN checks) /\ Len(origin') = n + 1
      /\ origin'[n + 1] = round + 1
      /\ \A i \in 1 .. n : origin'[i] = origin[i]
  BY <1>1, <1>4, <1>7, AppendProperties
<1>10. /\ checks'[origin'[n + 1]] = loc
       /\ \A i \in 1 .. n : LocOf(i)' = LocOf(i)
  BY <1>1, <1>4, <1>9 DEF LocOf, loc
<1>11. /\ \A i \in 1 .. n : origin[i] \in Int /\ origin[i] <= round
       /\ \A i, j \in 1 .. n : i < j => origin[i] < origin[j]
  BY <1>2, <1>4, <1>7 DEF OriginOK, ConvertOK
<1>12. \A i, j \in 1 .. n + 1 : i < j => origin'[i] < origin'[j]
  <2> SUFFICES ASSUME NEW i \in 1 .. n + 1, NEW j \in 1 .. n + 1, i < j
               PROVE  origin'[i] < origin'[j]
    OBVIOUS
  <2>1. i \in 1 .. n /\ origin'[i] = origin[i]
    BY <1>4, <1>9
  <2>2. CASE j \in 1 .. n
    BY <1>9, <1>11, <2>1, <2>2
  <2>3. CASE j = n + 1
    <3>1. origin'[j] = round + 1
      BY <1>9, <2>3
    <3>2. origin[i] \in Int /\ origin[i] <= round
      BY <1>11, <2>1
    <3> QED
      BY <1>4, <2>1, <3>1, <3>2
  <2> QED
    BY <1>4, <2>2, <2>3
<1>13. ASSUME NEW i \in 1 .. n + 1
       PROVE  /\ LocOf(i)' \in DOMAIN placed /\ placed[LocOf(i)'] \in DOMAIN ItemName
              /\ mwPlacements'[i] = [item |-> UniqueName(placed[LocOf(i)'], i - 1),
                                     location |-> PlaceName(LocOf(i)')]
  <2>1. CASE i = n + 1
    <3>1. i - 1 = n /\ LocOf(i)' = loc /\ mwPlacements'[i] = p
      BY <1>4, <1>8, <1>10, <2>1 DEF LocOf
    <3> QED
      BY <1>1, <3>1 DEF p
  <2>2. CASE i \in 1 .. n
    <3>1. /\ LocOf(i) \in DOMAIN placed /\ placed[LocOf(i)] \in DOMAIN ItemName
          /\ mwPlacements[i] = [item |-> UniqueName(placed[LocOf(i)], i - 1),
                                location |-> PlaceName(LocOf(i))]
      BY <1>2, <1>7, <2>2 DEF OriginOK
    <3>2. LocOf(i)' = LocOf(i) /\ mwPlacements'[i] = mwPlacements[i]
      BY <1>8, <1>10, <2>2
    <3> QED
      BY <3>1, <3>2
  <2> QED
    BY <1>4, <2>1, <2>2
<1>14. OriginOK'
  BY <1>1, <1>8, <1>9, <1>12, <1>13 DEF OriginOK
<1>15. ConvertOK'
  <2>1. ASSUME NEW j \in 1 .. round + 1, checks[j] \in DOMAIN placed
        PROVE  \E i \in Ours' : origin'[i] = j
    <3>1. CASE j = round + 1
      BY <1>4, <1>8, <1>9, <3>1
    <3>2. CASE j \in 1 .. round
      <4>1. PICK i \in Ours : origin[i] = j
        BY <1>2, <2>1, <3>2 DEF ConvertOK
      <4> QED
        BY <1>4, <1>7, <1>8, <1>9, <4>1
    <3> QED
      BY <1>4, <3>1, <3>2
  <2>2. \A i \in Ours' : origin'[i] <= round + 1
    BY <1>4, <1>8, <1>9, <1>11
  <2>3. round' \in 0 .. Len(checks') /\ Len(mwPlacements') <= round'
    BY <1>1, <1>4, <1>8
  <2>4. worldRows' = {} /\ itemRows' = {}
    BY <1>1, <1>2 DEF ConvertOK
  <2> QED
    BY <1>1, <2>1, <2>2, <2>3, <2>4 DEF ConvertOK
<1> QED
  BY <1>1, <1>3, <1>14, <1>15 DEF PlacementsInv, CreateFailsOnlyFor

(* The program ends and leaves everything as it is. *)
LEMMA ConvertFailsKeeps ==
    ASSUME PlacementsInv, ConvertFails
    PROVE  PlacementsInv'
<1>1. UNCHANGED <<seed, mwPlacements, origin>> /\ phase' = "refused"
  BY DEF ConvertFails
<1>2. SeedOK' /\ OriginOK'
  BY <1>1, NamesStay DEF PlacementsInv
<1> QED
  BY <1>1, <1>2 DEF PlacementsInv, CreateFailsOnlyFor

(* However the server deals, every item of ours has one placement. *)
LEMMA MixKeeps ==
    ASSUME PlacementsInv, NEW deal \in Deals, NEW prefix \in LocationPrefixes,
           NEW nicknames \in 0 .. MaxNicknames, Mix(deal, prefix, nicknames)
    PROVE  PlacementsInv'
<1>1. /\ phase = "convert" /\ round = Len(checks) /\ dealt' = deal
      /\ answer'.prefix = prefix
      /\ ownPlaces' =
           {OwnPlacement(i, deal, prefix) : i \in {j \in All : deal[j] \in Ours}}
      /\ round' = 0 /\ phase' = "players"
      /\ UNCHANGED <<seed, mwPlacements, origin>>
      /\ UNCHANGED <<checks, placed, worldRows, itemRows>>
  BY DEF Mix, seed, rows
<1>2. SeedOK /\ OriginOK /\ ConvertOK
  BY <1>1 DEF PlacementsInv
<1>3. /\ SeedOK' /\ OriginOK' /\ Ours' = Ours /\ All' = All
      /\ \A i : Owner(i)' = Owner(i)
      /\ \A i : NameOfItem(i)' = NameOfItem(i) /\ NameOfPlace(i)' = NameOfPlace(i)
  BY <1>1, <1>2, NamesStay
<1>4. \A i : OwnRow(i)' = OwnPlacement(i, deal, prefix)
  <2> TAKE i
  <2>1. OwnRow(i)' = [item |-> NameOfItem(deal[i])',
                      location |-> QualifiedAs(prefix, Owner(i)', NameOfPlace(i)')]
    BY <1>1, <1>3 DEF OwnRow, OwnPlacement, QualifiedAs, Qualified
  <2>2. NameOfItem(deal[i])' = NameOfItem(deal[i])
    BY <1>1, <1>3 DEF NameOfItem
  <2> QED
    BY <1>3, <2>1, <2>2 DEF OwnPlacement
<1>5. deal \in Deals'
  BY <1>3 DEF Deals
<1>6. CreateOK'
  <2>1. /\ Len(mwPlacements) \in Nat /\ Len(mwPlacements) <= MaxChecks
        /\ DOMAIN checks = 1 .. round /\ MaxChecks \in Nat
    BY <1>1, <1>2, NumbersAssumption DEF SeedOK, OriginOK, ConvertOK
  <2>2. \A j \in DOMAIN checks : checks[j] \in DOMAIN placed =>
          \E i \in Ours : origin[i] = j
    BY <1>2, <2>1 DEF ConvertOK
  <2>3. worldRows' = {} /\ itemRows' = {} /\ 1 .. 0 = {}
    BY <1>1, <1>2 DEF ConvertOK
  <2>4. worldRows' = {WorldRow(ResultPlacement(i)') : i \in 1 .. 0}
    BY <2>3
  <2>5. /\ \A q \in ownPlaces' : \E i \in All : deal[i] \in Ours /\ q = OwnRow(i)'
        /\ \A i \in All : deal[i] \in Ours => OwnRow(i)' \in ownPlaces'
    BY <1>1, <1>4
  <2>6. answer'.prefix \in LocationPrefixes /\ \A row \in itemRows' : row.source # NoNumber
    BY <1>1, <2>3
  <2>7. /\ round' \in 0 .. Len(mwPlacements)' /\ Len(mwPlacements)' <= MaxChecks
        /\ dealt' \in Deals'
    BY <1>1, <1>5, <2>1
  <2>8. worldRows' = {WorldRow(ResultPlacement(i)') : i \in 1 .. round'}
    BY <1>1, <2>4
  <2>9. /\ \A j \in DOMAIN checks' : checks'[j] \in DOMAIN placed' =>
             \E i \in Ours' : origin'[i] = j
        /\ \A q \in ownPlaces' : \E i \in All' : dealt'[i] \in Ours' /\ q = OwnRow(i)'
        /\ \A i \in All' : dealt'[i] \in Ours' => OwnRow(i)' \in ownPlaces'
    BY <1>1, <1>3, <2>2, <2>5
  <2> QED
    BY <2>3, <2>6, <2>7, <2>8, <2>9 DEF CreateOK
<1> QED
  BY <1>1, <1>3, <1>6 DEF PlacementsInv, CreateFailsOnlyFor

(* Once the server has answered, its answer stays. *)
LEMMA AnswerStays ==
    ASSUME UNCHANGED <<seed, mwPlacements, origin, decided>>
    PROVE  /\ Deals' = Deals
           /\ \A i : ResultPlacement(i)' = ResultPlacement(i)
           /\ \A i : OwnRow(i)' = OwnRow(i)
           /\ dealt' = dealt /\ answer' = answer /\ Players' = Players
<1>0. dealt' = dealt /\ answer' = answer
  BY DEF decided
<1>1. /\ Ours' = Ours /\ All' = All /\ \A i : Owner(i)' = Owner(i)
      /\ \A i : NameOfItem(i)' = NameOfItem(i) /\ NameOfPlace(i)' = NameOfPlace(i)
  BY NamesStay
<1>2. \A i : Owner(dealt[i])' = Owner(dealt[i]) /\ NameOfItem(dealt[i])' = NameOfItem(dealt[i])
  BY <1>0, <1>1 DEF Owner, NameOfItem
<1>3. Deals' = Deals
  BY <1>1 DEF Deals
<1> QED
  BY <1>0, <1>1, <1>2, <1>3
  DEF ResultPlacement, OwnRow, OwnPlacement, QualifiedAs, Players

(* The players come first. *)
LEMMA InsertPlayersKeeps ==
    ASSUME PlacementsInv, InsertPlayers
    PROVE  PlacementsInv'
<1>1. /\ phase = "players" /\ phase' = "create"
      /\ UNCHANGED <<seed, mwPlacements, origin, decided>>
      /\ UNCHANGED <<checks, placed, round, worldRows, itemRows, ownPlaces>>
  BY DEF InsertPlayers, seed, rows
<1>2. CreateOK /\ SeedOK' /\ OriginOK' /\ Ours' = Ours /\ All' = All
  BY <1>1, NamesStay DEF PlacementsInv
<1>3. /\ Deals' = Deals /\ \A i : OwnRow(i)' = OwnRow(i)
      /\ \A i : ResultPlacement(i)' = ResultPlacement(i)
      /\ dealt' = dealt /\ answer' = answer
  BY <1>1, AnswerStays
<1>4. worldRows' = {WorldRow(ResultPlacement(i)') : i \in 1 .. round}
  BY <1>1, <1>2, <1>3 DEF CreateOK
<1>5. CreateOK'
  BY <1>1, <1>2, <1>3, <1>4 DEF CreateOK
<1> QED
  BY <1>1, <1>2, <1>5 DEF PlacementsInv, CreateFailsOnlyFor

(* One more row of mw_own_world_placements. *)
LEMMA InsertWorldRowKeeps ==
    ASSUME PlacementsInv, InsertWorldRow
    PROVE  PlacementsInv'
<1>1. /\ phase = "create" /\ phase' = phase /\ round < Len(mwPlacements)
      /\ worldRows' = worldRows \cup {WorldRow(ResultPlacement(round + 1))}
      /\ round' = round + 1
      /\ UNCHANGED <<seed, mwPlacements, origin, decided>>
      /\ UNCHANGED <<checks, placed, itemRows, ownPlaces>>
  BY DEF InsertWorldRow, seed
<1>2. CreateOK /\ SeedOK' /\ OriginOK' /\ Ours' = Ours /\ All' = All
  BY <1>1, NamesStay DEF PlacementsInv
<1>3. /\ Deals' = Deals /\ \A i : OwnRow(i)' = OwnRow(i)
      /\ \A i : ResultPlacement(i)' = ResultPlacement(i)
      /\ dealt' = dealt /\ answer' = answer
  BY <1>1, AnswerStays
<1>4. Len(mwPlacements) \in Nat /\ round \in Nat
  BY <1>2 DEF PlacementsInv, OriginOK, CreateOK
<1>5. worldRows' = {WorldRow(ResultPlacement(i)) : i \in 1 .. round + 1}
  <2>1. 1 .. round + 1 = (1 .. round) \cup {round + 1}
    BY <1>4
  <2> QED
    BY <1>1, <1>2, <2>1 DEF CreateOK
<1>6. worldRows' = {WorldRow(ResultPlacement(i)') : i \in 1 .. round + 1}
  BY <1>3, <1>5
<1>7. round' \in 0 .. Len(mwPlacements)
  BY <1>1, <1>4
<1>8. CreateOK'
  BY <1>1, <1>2, <1>3, <1>6, <1>7 DEF CreateOK
<1> QED
  BY <1>1, <1>2, <1>8 DEF PlacementsInv, CreateFailsOnlyFor

(* One more row of mw_own_item_placements. *)
LEMMA InsertItemRowKeeps ==
    ASSUME PlacementsInv, NEW p \in ownPlaces, InsertItemRow(p)
    PROVE  PlacementsInv'
<1>1. /\ phase = "create" /\ phase' = phase /\ round = Len(mwPlacements)
      /\ itemRows' = itemRows \cup {ItemRow(p)} /\ ownPlaces' = ownPlaces \ {p}
      /\ ItemRow(p).source # NoNumber
      /\ UNCHANGED <<seed, mwPlacements, origin, decided>>
      /\ UNCHANGED <<checks, placed, round, worldRows>>
  BY DEF InsertItemRow, GoodItemRow, seed
<1>2. CreateOK /\ SeedOK' /\ OriginOK' /\ Ours' = Ours /\ All' = All
  BY <1>1, NamesStay DEF PlacementsInv
<1>3. /\ Deals' = Deals /\ \A i : OwnRow(i)' = OwnRow(i)
      /\ \A i : ResultPlacement(i)' = ResultPlacement(i)
      /\ dealt' = dealt /\ answer' = answer
  BY <1>1, AnswerStays
<1>4. \A row \in itemRows' : \E i \in All :
        dealt[i] \in Ours /\ OwnRow(i) \notin ownPlaces' /\ row = ItemRow(OwnRow(i))
  BY <1>1, <1>2 DEF CreateOK
<1>8. \A row \in itemRows' : row.source # NoNumber
  BY <1>1, <1>2 DEF CreateOK
<1>5. /\ \A q \in ownPlaces' : \E i \in All : dealt[i] \in Ours /\ q = OwnRow(i)
      /\ \A i \in All : dealt[i] \in Ours =>
           OwnRow(i) \in ownPlaces' \/ ItemRow(OwnRow(i)) \in itemRows'
  BY <1>1, <1>2 DEF CreateOK
<1>6. worldRows' = {WorldRow(ResultPlacement(i)') : i \in 1 .. round}
  BY <1>1, <1>2, <1>3 DEF CreateOK
<1>7. CreateOK'
  BY <1>1, <1>2, <1>3, <1>4, <1>5, <1>6, <1>8 DEF CreateOK
<1> QED
  BY <1>1, <1>2, <1>7 DEF PlacementsInv, CreateFailsOnlyFor

(* A row is refused for a place that a row before it has, for a player without
   a nickname, or for the prefix. *)
LEMMA CreateFailsKeeps ==
    ASSUME PlacementsInv, CreateFails
    PROVE  PlacementsInv'
<1>1. /\ phase \in {"players", "create"} /\ phase' = "failed"
      /\ UNCHANGED <<seed, mwPlacements, origin, decided>>
      /\ UNCHANGED <<checks, placed>>
  BY DEF CreateFails, seed
<1>2. CreateOK /\ SeedOK /\ OriginOK /\ SeedOK' /\ OriginOK'
  BY <1>1, NamesStay DEF PlacementsInv
<1>3. NamesOK /\ dealt \in Deals
  BY <1>2 DEF NamesOK, CreateOK
<1>4. Len(mwPlacements) \in Nat /\ round \in Nat /\ Ours = 1 .. Len(mwPlacements)
  BY <1>2 DEF OriginOK, CreateOK, Ours
<1>5. ASSUME round < Len(mwPlacements),
             ~GoodWorldRow(WorldRow(ResultPlacement(round + 1)))
      PROVE  RepeatedLocation \/ UnnamedPlayer
  <2> DEFINE m == round + 1
             r == WorldRow(ResultPlacement(m))
  <2>1. m \in Ours
    BY <1>4, <1>5
  <2>2. /\ r.location = LocOf(m) /\ r.location # NoNumber
        /\ r.owner # NoNumber /\ r.owner = Owner(dealt[m])
    BY <1>3, <2>1, WorldRowIs
  <2>3. CASE r.owner \notin Players
    BY <2>1, <2>2, <2>3 DEF UnnamedPlayer
  <2>4. CASE r.owner \in Players
    <3>1. PICK row \in worldRows : row.location = r.location
      BY <1>5, <2>2, <2>4 DEF GoodWorldRow
    <3>2. PICK i \in 1 .. round : row = WorldRow(ResultPlacement(i))
      BY <1>2 DEF CreateOK
    <3>3. i \in Ours /\ i < m
      BY <1>4, <1>5
    <3>4. row.location = LocOf(i)
      BY <1>3, <3>2, <3>3, WorldRowIs
    <3>5. /\ origin[i] < origin[m] /\ origin[i] \in DOMAIN checks
          /\ origin[m] \in DOMAIN checks /\ DOMAIN checks \subseteq Int
          /\ LocOf(i) \in DOMAIN placed
      <4>1. DOMAIN checks \subseteq Int
        BY <1>2 DEF SeedOK
      <4>2. LocOf(i) \in DOMAIN placed
        BY <1>2, <3>3 DEF OriginOK
      <4>3. origin[i] \in DOMAIN checks /\ origin[m] \in DOMAIN checks
        BY <1>2, <2>1, <3>3 DEF OriginOK, Ours
      <4>4. origin[i] < origin[m]
        BY <1>2, <2>1, <3>3 DEF OriginOK, Ours
      <4> QED
        BY <4>1, <4>2, <4>3, <4>4
    <3>6. LocOf(i) = LocOf(m)
      BY <2>2, <3>1, <3>4
    <3> HIDE DEF m
    <3> QED
      BY <3>5, <3>6 DEF LocOf, RepeatedLocation
  <2> QED
    BY <2>3, <2>4
<1>6. ASSUME NEW p \in ownPlaces, ~GoodItemRow(ItemRow(p))
      PROVE  UnnamedPlayer \/ OtherPrefix
  <2>1. PICK i \in All : dealt[i] \in Ours /\ p = OwnRow(i)
    BY <1>2 DEF CreateOK
  <2>2. CASE answer.prefix = "MW_(N)_"
    BY <2>1, <2>2 DEF OtherPrefix
  <2>3. CASE answer.prefix = "MW(N)_"
    <3>1. ItemRow(p).source = Owner(i) /\ Owner(i) # NoNumber
      BY <1>3, <2>1, <2>3, ItemRowIs
    <3>2. Owner(i) \notin Players
      <4> SUFFICES ASSUME Owner(i) \in Players PROVE FALSE
        OBVIOUS
      <4>1. PICK row \in itemRows : row.item = ItemRow(p).item
        BY <1>6, <3>1 DEF GoodItemRow
      <4>2. PICK j \in All : /\ dealt[j] \in Ours /\ OwnRow(j) \notin ownPlaces
                             /\ row = ItemRow(OwnRow(j))
        BY <1>2 DEF CreateOK
      <4>3. NameOfItem(dealt[j]) = NameOfItem(dealt[i])
        BY <2>1, <4>1, <4>2, ItemRowName
      <4>4. i = j
        BY <1>3, <2>1, <4>2, <4>3, OwnItemsDiffer
      <4> QED
        BY <2>1, <4>2, <4>4
    <3> QED
      BY <2>1, <3>2 DEF UnnamedPlayer
  <2> QED
    BY <1>2, <2>2, <2>3 DEF CreateOK, LocationPrefixes
<1>7. RepeatedLocation \/ UnnamedPlayer \/ OtherPrefix
  <2>1. CASE Self \notin Players
    BY <2>1 DEF UnnamedPlayer
  <2>2. CASE /\ round < Len(mwPlacements)
             /\ ~GoodWorldRow(WorldRow(ResultPlacement(round + 1)))
    BY <1>5, <2>2
  <2>3. CASE \E p \in ownPlaces : ~GoodItemRow(ItemRow(p))
    BY <1>6, <2>3
  <2> QED
    BY <2>1, <2>2, <2>3 DEF CreateFails
<1>8. /\ (RepeatedLocation)' <=> RepeatedLocation
      /\ (UnnamedPlayer)' <=> UnnamedPlayer
      /\ (OtherPrefix)' <=> OtherPrefix
  <2>1. /\ Ours' = Ours /\ All' = All /\ Players' = Players
        /\ dealt' = dealt /\ answer' = answer
    BY <1>1, NamesStay, AnswerStays
  <2>2. \A i : Owner(i)' = Owner(i) /\ Owner(dealt[i])' = Owner(dealt[i])
    BY <2>1 DEF Owner
  <2> QED
    BY <1>1, <2>1, <2>2 DEF RepeatedLocation, UnnamedPlayer, OtherPrefix
<1>9. CreateFailsOnlyFor'
  BY <1>1, <1>7, <1>8 DEF CreateFailsOnlyFor
<1> QED
  BY <1>1, <1>2, <1>9 DEF PlacementsInv

(* The savefile is complete when nothing is left to insert. *)
LEMMA CreateDoneKeeps ==
    ASSUME PlacementsInv, CreateDone
    PROVE  PlacementsInv'
<1>1. /\ phase = "create" /\ phase' = "play" /\ round = Len(mwPlacements)
      /\ ownPlaces = {} /\ UNCHANGED <<seed, mwPlacements, origin, decided>>
      /\ UNCHANGED <<checks, placed, round, worldRows, itemRows, ownPlaces>>
  BY DEF CreateDone, seed, rows
<1>2. CreateOK /\ SeedOK' /\ OriginOK' /\ Ours' = Ours /\ All' = All
  BY <1>1, NamesStay DEF PlacementsInv
<1>3. /\ Deals' = Deals /\ \A i : OwnRow(i)' = OwnRow(i)
      /\ \A i : ResultPlacement(i)' = ResultPlacement(i)
      /\ dealt' = dealt /\ answer' = answer
  BY <1>1, AnswerStays
<1>4. worldRows' = {WorldRow(ResultPlacement(i)') : i \in 1 .. round}
  BY <1>1, <1>2, <1>3 DEF CreateOK
<1>5. CreateOK'
  BY <1>1, <1>2, <1>3, <1>4 DEF CreateOK
<1> QED
  BY <1>1, <1>2, <1>5 DEF PlacementsInv, CreateFailsOnlyFor

(* A step of anything else. *)
LEMMA UnchangedKeeps ==
    ASSUME PlacementsInv, UNCHANGED placementVars
    PROVE  PlacementsInv'
<1>1. /\ UNCHANGED <<seed, mwPlacements, origin, decided>>
      /\ UNCHANGED <<checks, placed, round, worldRows, itemRows, ownPlaces, phase>>
  BY DEF placementVars, seed, rows
<1>2. SeedOK' /\ OriginOK' /\ Ours' = Ours /\ All' = All
  BY <1>1, NamesStay DEF PlacementsInv
<1>3. /\ Deals' = Deals /\ \A i : OwnRow(i)' = OwnRow(i)
      /\ \A i : ResultPlacement(i)' = ResultPlacement(i)
      /\ dealt' = dealt /\ answer' = answer
  BY <1>1, AnswerStays
<1>4. ConvertOK => ConvertOK'
  BY <1>1, <1>2 DEF ConvertOK
<1>5. ASSUME CreateOK PROVE CreateOK'
  <2>1. worldRows' = {WorldRow(ResultPlacement(i)') : i \in 1 .. round}
    BY <1>1, <1>3, <1>5 DEF CreateOK
  <2> QED
    BY <1>1, <1>2, <1>3, <1>5, <2>1 DEF CreateOK
<1>6. CreateFailsOnlyFor => CreateFailsOnlyFor'
  <2>1. /\ Players' = Players
        /\ \A i : Owner(i)' = Owner(i) /\ Owner(dealt[i])' = Owner(dealt[i])
    BY <1>1, <1>2, <1>3, AnswerStays DEF Owner
  <2> QED
    BY <1>1, <1>2, <1>3, <2>1
    DEF CreateFailsOnlyFor, RepeatedLocation, UnnamedPlayer, OtherPrefix
<1> QED
  BY <1>1, <1>2, <1>4, <1>5, <1>6 DEF PlacementsInv

(* Every row of the savefile comes from one answer of the server, and no answer
   is lost. *)
THEOREM PlacementsInvariant == PlacementsSpec => []PlacementsInv
<1>1. ASSUME PlacementsInv, [PlacementsNext]_placementVars
      PROVE  PlacementsInv'
  BY <1>1, ConvertNothingKeeps, ConvertKeeps, ConvertFailsKeeps, MixKeeps,
     InsertPlayersKeeps, InsertWorldRowKeeps, InsertItemRowKeeps, CreateFailsKeeps, CreateDoneKeeps,
     UnchangedKeeps DEF PlacementsNext
<1> QED
  BY <1>1, InitPlacements, PTL DEF PlacementsSpec

-----------------------------------------------------------------------------
(* createSavefile fails only if the seed lists a location twice, the answer
   leaves a player out of its Nicknames, or it has the prefix of the document
   before the locations, whatever the names of the items and places look like. *)
THEOREM CreateFailsExplained == PlacementsSpec => []CreateFailsOnlyFor
<1>1. PlacementsInv => CreateFailsOnlyFor
  BY DEF PlacementsInv
<1> QED
  BY <1>1, PlacementsInvariant, PTL

(* What play.go looks up by name is what the server decided by number, for names
   that look like the ones Isthmus makes, too. *)
THEOREM NamesLead == PlacementsSpec => []NamesLeadBack
<1>1. ASSUME PlacementsInv
      PROVE  NamesLeadBack
  <2> SUFFICES ASSUME phase = "play"
               PROVE  /\ \A j \in DOMAIN checks : checks[j] \in DOMAIN placed =>
                           \E i \in Ours : origin[i] = j
                      /\ \A i \in Ours : \E row \in worldRows :
                           /\ row.location = LocOf(i)
                           /\ row.owner = Owner(dealt[i])
                           /\ dealt[i] \in Ours =>
                                LookUp(row.item) = placed[LocOf(dealt[i])]
                           /\ dealt[i] \notin Ours => row.item = NameOfItem(dealt[i])
                      /\ \A i \in All : dealt[i] \in Ours =>
                           \E row \in itemRows :
                             /\ LookUp(row.item) = placed[LocOf(dealt[i])]
                             /\ row.source = Owner(i)
                             /\ row.location = NameOfPlace(i)
    BY DEF NamesLeadBack
  <2>1. /\ CreateOK /\ OriginOK /\ SeedOK
        /\ round = Len(mwPlacements) /\ ownPlaces = {}
    BY <1>1 DEF PlacementsInv
  <2>2. NamesOK /\ dealt \in Deals
    BY <2>1 DEF NamesOK, CreateOK
  <2>3. \A j \in DOMAIN checks : checks[j] \in DOMAIN placed =>
          \E i \in Ours : origin[i] = j
    BY <2>1 DEF CreateOK
  <2>4. ASSUME NEW i \in Ours
        PROVE  \E row \in worldRows :
                 /\ row.location = LocOf(i)
                 /\ row.owner = Owner(dealt[i])
                 /\ dealt[i] \in Ours => LookUp(row.item) = placed[LocOf(dealt[i])]
                 /\ dealt[i] \notin Ours => row.item = NameOfItem(dealt[i])
    <3> DEFINE row == WorldRow(ResultPlacement(i))
    <3>1. i \in 1 .. round
      BY <2>1 DEF OriginOK, Ours
    <3>2. row \in worldRows
      BY <2>1, <3>1 DEF CreateOK
    <3>3. /\ row.location = LocOf(i) /\ row.owner = Owner(dealt[i])
          /\ row.item = NameOfItem(dealt[i])
      BY <2>2, WorldRowIs
    <3> HIDE DEF row
    <3>4. dealt[i] \in Ours => LookUp(row.item) = placed[LocOf(dealt[i])]
      BY <2>2, <3>3, OwnItemFound
    <3> QED
      BY <3>2, <3>3, <3>4
  <2>5. ASSUME NEW i \in All, dealt[i] \in Ours
        PROVE  \E row \in itemRows :
                 /\ LookUp(row.item) = placed[LocOf(dealt[i])]
                 /\ row.source = Owner(i)
                 /\ row.location = NameOfPlace(i)
    <3> DEFINE row == ItemRow(OwnRow(i))
    <3>1. row \in itemRows /\ row.source # NoNumber
      BY <2>1, <2>5 DEF CreateOK
    <3>4. answer.prefix = "MW(N)_"
      BY <2>1, <2>2, <2>5, <3>1, OtherPrefixRefused DEF CreateOK, LocationPrefixes
    <3>2. /\ row.item = NameOfItem(dealt[i]) /\ row.source = Owner(i)
          /\ row.location = NameOfPlace(i)
      BY <2>2, <2>5, <3>4, ItemRowIs
    <3> HIDE DEF row
    <3>3. LookUp(row.item) = placed[LocOf(dealt[i])]
      BY <2>2, <2>5, <3>2, OwnItemFound
    <3> QED
      BY <3>1, <3>2, <3>3
  <2> QED
    BY <2>3, <2>4, <2>5
<1> QED
  BY <1>1, PlacementsInvariant, PTL

-----------------------------------------------------------------------------
(* Codec. *)

(* The cells behind the length. *)
LEMMA RestIs ==
    ASSUME NEW length \in Nat
    PROVE  Rest(length) = IF length = 0 THEN 0 ELSE length - 1
<1>1. CASE length = 0
  <2>1. Max({0, length - 1}) = 0
    BY <1>1, MaxIs
  <2> QED
    BY <1>1, <2>1 DEF Rest, lengthFieldSize
<1>2. CASE length # 0
  <2>1. Max({0, length - 1}) = length - 1
    BY <1>2, MaxIs
  <2> QED
    BY <1>2, <2>1 DEF Rest, lengthFieldSize
<1> QED
  BY <1>1, <1>2

(* A frame that Write has put together has the length that it says. *)
LEMMA FrameFits ==
    ASSUME NEW t \in Nat, NEW payload \in Seq(Nat)
    PROVE  FrameOK(Frame(t, payload))
<1> DEFINE a == headerSize + Len(payload)
           cells == Frame(t, payload)
<1>1. a \in Nat /\ a # 0 /\ a = Len(payload) + 4
  BY DEF headerSize
<1>2. cells = <<a, t, 0, 0>> \o payload
  BY DEF Frame
<1> HIDE DEF a, cells
<1>3. cells \in Seq(Nat) /\ Len(cells) = Len(payload) + 4 /\ Head(cells) = a
  <2>1. <<a, t, 0, 0>> \in Seq(Nat)
    BY <1>1
  <2> QED
    BY <1>1, <1>2, <2>1
<1>4. Rest(Head(cells)) = a - 1 /\ Len(cells) = a /\ cells # <<>>
  BY <1>1, <1>3, RestIs
<1>5. FrameOK(cells)
  BY <1>1, <1>3, <1>4 DEF FrameOK, lengthFieldSize
<1> QED
  BY <1>5 DEF cells

(* A cell of a frame that is still on the wire is at some place of it. *)
LEMMA WithinWire ==
    ASSUME NEW before \in Nat, NEW len \in Nat, NEW end \in Nat, NEW all \in Nat,
           NEW pos \in Nat, NEW i \in Nat,
           end = before + len, end <= all, i <= len, before + i > pos
    PROVE  before + i - pos \in 1 .. all - pos
  OBVIOUS

(* One more frame on the wire. *)
LEMMA PutKeeps ==
    ASSUME CodecInv, NEW cells, NEW message, FrameOK(cells), PutFrame(cells, message)
    PROVE  CodecInv'
<1> DEFINE n == Len(frames)
           f == [cells |-> cells, upto |-> UpTo(n) + Len(cells)]
           R == [cells : Seq(Nat), upto : Nat]
<1>1. /\ wire' = wire \o cells /\ frames' = Append(frames, f)
      /\ reading' = reading /\ got' = got /\ taken' = taken
  BY DEF PutFrame, taken
<1>2. FramesOK /\ WireOK /\ ReadOK
  BY DEF CodecInv
<1>3. /\ frames \in Seq(R) /\ n \in Nat /\ DOMAIN frames = 1 .. n
      /\ \A k \in 0 .. n : UpTo(k) \in Nat
      /\ taken \in 0 .. n
  <2>1. frames \in Seq(R) /\ n \in Nat /\ DOMAIN frames = 1 .. n
    BY <1>2 DEF FramesOK
  <2>2. ASSUME NEW k \in 1 .. n
        PROVE  frames[k].upto \in Nat
    <3>1. frames[k] \in R
      <4> HIDE DEF R
      <4> QED
        BY <2>1
    <3> QED
      BY <3>1
  <2>3. \A k \in 0 .. n : UpTo(k) \in Nat
    BY <2>1, <2>2 DEF UpTo
  <2>4. taken \in Nat /\ taken <= n
    BY <1>2 DEF ReadOK, taken
  <2> QED
    BY <2>1, <2>3, <2>4
<1>a. n \in Nat /\ UpTo(n) \in Nat
  BY <1>3
<1>b. \A j, k \in 0 .. n : j < k => UpTo(j) < UpTo(k)
  BY <1>2 DEF FramesOK
<1>4. /\ cells \in Seq(Nat) /\ Len(cells) \in Nat /\ Len(cells) # 0
  BY DEF FrameOK
<1>7. f \in R
  BY <1>a, <1>4
<1> HIDE DEF R
<1>8. /\ frames' \in Seq(R) /\ Len(frames') = n + 1 /\ DOMAIN frames' = 1 .. n + 1
      /\ frames'[n + 1] = f /\ \A k \in 1 .. n : frames'[k] = frames[k]
  <2> HIDE DEF f
  <2> QED
    BY <1>1, <1>3, <1>7, AppendProperties
<1>9. frames'[n + 1].cells = cells /\ frames'[n + 1].upto = UpTo(n) + Len(cells)
  BY <1>8
<1> HIDE DEF f
<1>10. \A k \in 0 .. n : UpTo(k)' = UpTo(k)
  BY <1>3, <1>8 DEF UpTo
<1>11. \A k : k = n + 1 => UpTo(k)' = UpTo(n) + Len(cells)
  BY <1>3, <1>8, <1>9 DEF UpTo
<1>12. FramesOK'
  <2>1. ASSUME NEW k \in 1 .. n + 1
        PROVE  /\ FrameOK(frames'[k].cells)
               /\ UpTo(k)' = UpTo(k - 1)' + Len(frames'[k].cells)
    <3>1. CASE k = n + 1
      <4>1. k - 1 = n /\ k - 1 \in 0 .. n
        BY <1>3, <3>1
      <4>2. UpTo(k - 1)' = UpTo(k - 1)
        BY <1>10, <4>1
      <4>3. UpTo(k)' = UpTo(n) + Len(cells)
        BY <1>11, <3>1
      <4> QED
        BY <1>9, <3>1, <4>1, <4>2, <4>3
    <3>2. CASE k \in 1 .. n
      <4>1. /\ UpTo(k)' = UpTo(k) /\ frames'[k] = frames[k]
            /\ UpTo(k - 1)' = UpTo(k - 1)
        BY <1>3, <1>8, <1>10, <3>2
      <4>2. /\ FrameOK(frames[k].cells)
            /\ UpTo(k) = UpTo(k - 1) + Len(frames[k].cells)
        BY <1>2, <1>3, <3>2 DEF FramesOK
      <4> QED
        BY <4>1, <4>2
    <3> QED
      BY <1>3, <3>1, <3>2
  <2>2. ASSUME NEW j \in 0 .. n + 1, NEW k \in 0 .. n + 1, j < k
        PROVE  UpTo(j)' < UpTo(k)'
    <3>1. CASE k \in 0 .. n
      <4>1. j \in 0 .. n
        BY <1>3, <2>2, <3>1
      <4> QED
        BY <1>2, <1>3, <1>10, <2>2, <3>1, <4>1 DEF FramesOK
    <3>2. CASE k = n + 1
      <4>0. j \in 0 .. n
        BY <1>3, <2>2, <3>2
      <4>1. UpTo(j)' = UpTo(j) /\ UpTo(j) \in Nat
        BY <1>3, <1>10, <4>0
      <4>2. n \in 0 .. n /\ UpTo(n) \in Nat /\ j <= n
        BY <1>3, <4>0
      <4>3. UpTo(j) <= UpTo(n)
        <5>1. CASE j = n
          BY <1>3, <4>2, <5>1
        <5>2. CASE j < n
          BY <1>a, <1>b, <4>0, <4>1, <4>2, <5>2
        <5>3. j = n \/ j < n
          BY <4>0, <4>2
        <5> QED
          BY <5>1, <5>2, <5>3
      <4>4. UpTo(k)' = UpTo(n) + Len(cells)
        BY <1>11, <3>2
      <4> QED
        BY <1>4, <4>1, <4>2, <4>3, <4>4
    <3> QED
      BY <1>3, <3>1, <3>2
  <2> QED
    BY <1>8, <2>1, <2>2 DEF FramesOK, R
<1>13. Position' = Position /\ Position \in Nat
  <2>1. taken \in 0 .. n /\ UpTo(taken)' = UpTo(taken) /\ UpTo(taken) \in Nat
    <3>1. \A k : k = taken => UpTo(k)' = UpTo(taken)'
      BY <1>1 DEF UpTo
    <3> QED
      BY <1>1, <1>3, <1>10, <3>1 DEF UpTo
  <2> QED
    BY <1>1, <2>1 DEF Position, lengthFieldSize
<1>14. WireOK'
  <2>1. wire \in Seq(Nat) /\ Len(wire) = UpTo(n) - Position /\ Len(wire) \in Nat
    BY <1>2 DEF WireOK
  <2>2. /\ wire' \in Seq(Nat) /\ Len(wire') = Len(wire) + Len(cells)
        /\ \A i \in 1 .. Len(wire) : wire'[i] = wire[i]
        /\ \A i \in 1 .. Len(cells) : wire'[Len(wire) + i] = cells[i]
    <3>1. /\ wire \o cells \in Seq(Nat) /\ Len(wire \o cells) = Len(wire) + Len(cells)
          /\ \A i \in 1 .. Len(wire) + Len(cells) : (wire \o cells)[i] =
               IF i <= Len(wire) THEN wire[i] ELSE cells[i - Len(wire)]
      BY <1>4, <2>1, ConcatProperties
    <3>2. wire' = wire \o cells /\ Len(wire) \in Nat /\ Len(cells) \in Nat
      BY <1>1, <1>4, <2>1
    <3>3. \A i \in 1 .. Len(wire) : (wire \o cells)[i] = wire[i]
      BY <3>1, <3>2
    <3>4. ASSUME NEW i \in 1 .. Len(cells)
          PROVE  (wire \o cells)[Len(wire) + i] = cells[i]
      <4>1. /\ Len(wire) + i \in 1 .. Len(wire) + Len(cells)
            /\ ~(Len(wire) + i <= Len(wire)) /\ (Len(wire) + i) - Len(wire) = i
        BY <3>2
      <4> QED
        BY <3>1, <4>1
    <3> QED
      BY <3>1, <3>2, <3>3, <3>4
  <2>3. \A k : k = Len(frames') => UpTo(k)' = UpTo(n) + Len(cells)
    BY <1>8, <1>11
  <2>4. UpTo(Len(frames))' = UpTo(n) + Len(cells)
    BY <2>3 DEF UpTo
  <2>5. Len(wire') = UpTo(Len(frames))' - Position'
    BY <1>a, <1>4, <1>13, <2>1, <2>2, <2>4
  <2>6. ASSUME NEW k \in taken + 1 .. n + 1, NEW i \in DOMAIN frames'[k].cells,
               UpTo(k - 1)' + i > Position
        PROVE  wire'[UpTo(k - 1)' + i - Position] = frames'[k].cells[i]
    <3>0. k - 1 \in 0 .. n /\ UpTo(k - 1)' = UpTo(k - 1) /\ UpTo(k - 1) \in Nat
      <4>1. k - 1 \in 0 .. n
        BY <1>3
      <4> QED
        BY <1>3, <1>10, <4>1
    <3>1. CASE k = n + 1
      <4>1. frames'[k].cells = cells /\ k - 1 = n /\ i \in 1 .. Len(cells)
        BY <1>3, <1>4, <1>9, <3>1
      <4>2. UpTo(k - 1)' + i - Position = Len(wire) + i
        BY <1>13, <2>1, <3>0, <4>1
      <4> QED
        BY <2>2, <4>1, <4>2
    <3>2. CASE k \in taken + 1 .. n
      <4>1. k \in 1 .. n /\ frames'[k] = frames[k]
        BY <1>3, <1>8, <3>2
      <4>2. /\ frames[k].cells \in Seq(Nat)
            /\ UpTo(k) = UpTo(k - 1) + Len(frames[k].cells)
        BY <1>2, <1>3, <4>1 DEF FramesOK, FrameOK
      <4>3. i \in 1 .. Len(frames[k].cells) /\ i \in DOMAIN frames[k].cells
        BY <4>1, <4>2
      <4>4. wire[UpTo(k - 1) + i - Position] = frames[k].cells[i]
        BY <1>2, <2>6, <3>0, <3>2, <4>3 DEF WireOK
      <4>5. UpTo(k) <= UpTo(n) /\ UpTo(k) \in Nat /\ UpTo(n) \in Nat
        <5>1. k \in 0 .. n /\ n \in 0 .. n /\ (k = n \/ k < n)
          BY <1>a, <4>1
        <5>2. UpTo(k) \in Nat /\ UpTo(n) \in Nat
          BY <1>3, <5>1
        <5>3. k < n => UpTo(k) < UpTo(n)
          BY <1>2, <5>1 DEF FramesOK
        <5> QED
          BY <5>1, <5>2, <5>3
      <4>6. UpTo(k - 1) + i - Position \in 1 .. Len(wire)
        <5>1. UpTo(k - 1) + i > Position
          BY <2>6, <3>0
        <5>2. Len(frames[k].cells) \in Nat /\ i \in Nat /\ i <= Len(frames[k].cells)
          BY <4>2, <4>3
        <5>3. Position \in Nat /\ Len(wire) = UpTo(n) - Position
          BY <1>13, <2>1
        <5>4. UpTo(k - 1) \in Nat /\ UpTo(k) = UpTo(k - 1) + Len(frames[k].cells)
          BY <3>0, <4>2
        <5> QED
          BY <4>5, <5>1, <5>2, <5>3, <5>4, WithinWire
      <4> QED
        BY <2>2, <3>0, <4>1, <4>4, <4>6
    <3> QED
      BY <1>3, <3>1, <3>2
  <2>7. taken' = taken /\ Len(frames') = n + 1 /\ Position' = Position
    BY <1>1, <1>8, <1>13
  <2> QED
    BY <2>2, <2>5, <2>6, <2>7 DEF WireOK
<1>15. ReadOK'
  <2>1. got' \in Seq(ToSet(got')) /\ taken' <= Len(frames')
    BY <1>1, <1>2, <1>3, <1>8 DEF ReadOK
  <2>2. reading' # NoLength =>
          taken' < Len(frames') /\ reading' = Head(frames'[taken' + 1].cells)
    <3>1. reading # NoLength => taken < n /\ reading = Head(frames[taken + 1].cells)
      BY <1>2 DEF ReadOK
    <3>2. taken < n => frames'[taken + 1] = frames[taken + 1]
      BY <1>3, <1>8
    <3> QED
      BY <1>1, <1>3, <1>8, <3>1, <3>2
  <2>3. \A k \in 1 .. taken' : got'[k] = Makes(frames'[k].cells)
    <3>1. \A k \in 1 .. taken : k \in 1 .. n
      BY <1>3
    <3> QED
      BY <1>1, <1>2, <1>8, <3>1 DEF ReadOK
  <2> QED
    BY <2>1, <2>2, <2>3 DEF ReadOK
<1> QED
  BY <1>12, <1>14, <1>15 DEF CodecInv

(* A type and its number. *)
LEMMA TypeNumbers ==
    /\ DOMAIN TypeNames \subseteq Nat \ {0}
    /\ \A type \in Types : TypeNumber(type) \in DOMAIN TypeNames
                             /\ TypeNames[TypeNumber(type)] = type
<1>1. DOMAIN TypeNames \subseteq Nat \ {0}
  BY DEF TypeNames
<1>2. \A type \in Types : \E i \in DOMAIN TypeNames : TypeNames[i] = type
  BY CodecAssumption
<1> QED
  BY <1>1, <1>2 DEF TypeNumber

(* Whatever is cut off or left out, what is put together are cells. *)
LEMMA CutShortFits ==
    ASSUME NEW payload \in Seq(Nat)
    PROVE  CutShort(payload) \in Seq(Nat)
<1>1. \A i \in 1 .. Len(payload) - 1 : payload[i] \in Nat
  OBVIOUS
<1>2. Len(payload) - 1 \in Int
  OBVIOUS
<1> QED
  BY <1>1, <1>2, SubSeqProperties DEF CutShort

(* A frame whose length is out of bounds is as long as it says, too. *)
LEMMA OutOfBoundsFits ==
    ASSUME NEW length \in Nat
    PROVE  FrameOK(<<length>> \o [i \in 1 .. Max({0, length - 1}) |-> 2])
<1> DEFINE r == Rest(length)
           tail == [i \in 1 .. r |-> 2]
           cells == <<length>> \o tail
<1>1. r \in Nat /\ r = Max({0, length - 1})
  BY RestIs DEF Rest, lengthFieldSize
<1> HIDE DEF r
<1>2. tail \in Seq(Nat) /\ Len(tail) = r
  <2>1. r \in Nat
    BY <1>1
  <2>2. tail \in [1 .. r -> Nat]
    OBVIOUS
  <2>3. tail \in Seq(Nat) /\ DOMAIN tail = 1 .. r
    BY <2>1, <2>2, SeqDef
  <2> HIDE DEF tail
  <2>4. DOMAIN tail = 1 .. Len(tail) /\ Len(tail) \in Nat
    BY <2>3
  <2> QED
    BY <2>1, <2>3, <2>4
<1> HIDE DEF tail
<1>3. cells \in Seq(Nat) /\ Len(cells) = 1 + r /\ Head(cells) = length /\ cells # <<>>
  BY <1>1, <1>2
<1> HIDE DEF cells
<1>4. FrameOK(cells)
  BY <1>3 DEF FrameOK, lengthFieldSize, r
<1> QED
  BY <1>1, <1>4 DEF cells, tail

(* Whatever is written keeps the invariant. *)
LEMMA WriteKeeps ==
    ASSUME PayloadsAreCells, CodecInv, WriteStep
    PROVE  CodecInv'
<1>0. \A type \in Types : TypeNumber(type) \in Nat
  BY TypeNumbers
<1>1. ASSUME NEW type \in Types, NEW values \in Contents(type),
             WriteMessage(MessageOf(type, values))
      PROVE  CodecInv'
  <2> DEFINE m == MessageOf(type, values)
  <2>1. m.type = type /\ appendMessage(m) \in Seq(Nat)
    BY DEF MessageOf, PayloadsAreCells
  <2>2. FrameOK(Write(m))
    BY <1>0, <2>1, FrameFits DEF Write
  <2> QED
    BY <1>1, <2>2, PutKeeps DEF WriteMessage
<1>2. ASSUME NEW type \in Types, NEW values \in Contents(type),
             WriteCutShort(MessageOf(type, values))
      PROVE  CodecInv'
  <2> DEFINE m == MessageOf(type, values)
  <2>1. m.type = type /\ appendMessage(m) \in Seq(Nat)
    BY DEF MessageOf, PayloadsAreCells
  <2>2. FrameOK(Frame(TypeNumber(m.type), CutShort(appendMessage(m))))
    BY <1>0, <2>1, CutShortFits, FrameFits
  <2> QED
    BY <1>2, <2>2, PutKeeps DEF WriteCutShort
<1>3. CASE WriteUnknown
  <2>0. 0 \in Nat /\ <<1>> \in Seq(Nat)
    OBVIOUS
  <2>1. FrameOK(Frame(0, <<1>>))
    BY <2>0, FrameFits
  <2> QED
    BY <1>3, <2>1, PutKeeps DEF WriteUnknown
<1>4. ASSUME NEW length \in (0 .. headerSize - 1) \cup {maxMessageSize + 1},
             WriteOutOfBounds(length)
      PROVE  CodecInv'
  <2>1. length \in Nat
    BY CodecAssumption DEF headerSize
  <2> QED
    BY <1>4, <2>1, OutOfBoundsFits, PutKeeps DEF WriteOutOfBounds
<1>5. ASSUME NEW digits \in 2 .. maxMessageSize - headerSize,
             NEW digit \in {0, Base - 1}, WriteLengthOnly(digits, digit)
      PROVE  CodecInv'
  <2> DEFINE payload == [i \in 1 .. digits |-> IF i < digits THEN Base + digit ELSE 1]
  <2>1. digits \in Nat /\ Base + digit \in Nat
    BY CodecAssumption DEF headerSize
  <2>2. payload \in [1 .. digits -> Nat]
    BY <2>1
  <2>3. payload \in Seq(Nat)
    BY <2>1, <2>2, SeqDef
  <2>4. TypeNumber("Connect") \in Nat
    <3>1. 2 \in DOMAIN TypeNames /\ TypeNames[2] = "Connect"
      BY DEF TypeNames
    <3>2. TypeNumber("Connect") \in DOMAIN TypeNames
      BY <3>1 DEF TypeNumber
    <3> QED
      BY <3>2, TypeNumbers
  <2> HIDE DEF payload
  <2>5. FrameOK(Frame(TypeNumber("Connect"), payload))
    BY <2>3, <2>4, FrameFits
  <2>6. \E message : PutFrame(Frame(TypeNumber("Connect"), payload), message)
    BY <1>5 DEF WriteLengthOnly, payload
  <2> QED
    BY <2>5, <2>6, PutKeeps
<1> QED
  BY <1>1, <1>2, <1>3, <1>4, <1>5 DEF WriteStep

-----------------------------------------------------------------------------
(* Read. *)

(* The numbers behind the invariant. *)
LEMMA CodecFacts ==
    ASSUME CodecInv
    PROVE  /\ Len(frames) \in Nat /\ DOMAIN frames = 1 .. Len(frames)
           /\ taken \in 0 .. Len(frames)
           /\ \A k \in 0 .. Len(frames) : UpTo(k) \in Nat
           /\ \A k \in 1 .. Len(frames) :
                /\ frames[k].cells \in Seq(Nat) /\ Len(frames[k].cells) \in Nat
                /\ Len(frames[k].cells) # 0
           /\ wire \in Seq(Nat) /\ Len(wire) \in Nat
<1>1. FramesOK /\ WireOK /\ ReadOK
  BY DEF CodecInv
<1> DEFINE R == [cells : Seq(Nat), upto : Nat]
<1>2. /\ frames \in Seq(R) /\ Len(frames) \in Nat
      /\ DOMAIN frames = 1 .. Len(frames)
  BY <1>1 DEF FramesOK
<1>3. ASSUME NEW k \in 1 .. Len(frames)
      PROVE  frames[k].upto \in Nat
  <2>1. frames[k] \in R
    <3> HIDE DEF R
    <3> QED
      BY <1>2
  <2> QED
    BY <2>1
<1>4. \A k \in 0 .. Len(frames) : UpTo(k) \in Nat
  BY <1>2, <1>3 DEF UpTo
<1>5. ASSUME NEW k \in 1 .. Len(frames)
      PROVE  /\ frames[k].cells \in Seq(Nat) /\ Len(frames[k].cells) \in Nat
             /\ Len(frames[k].cells) # 0
  <2>1. FrameOK(frames[k].cells)
    BY <1>1, <1>2 DEF FramesOK
  <2> QED
    BY <2>1 DEF FrameOK
<1>6. taken \in 0 .. Len(frames) /\ wire \in Seq(Nat)
  BY <1>1, <1>2 DEF ReadOK, WireOK, taken
<1> QED
  BY <1>2, <1>4, <1>5, <1>6

(* Read leaves the frames alone. *)
LEMMA FramesStay ==
    ASSUME UNCHANGED frames, FramesOK
    PROVE  FramesOK' /\ \A k : UpTo(k)' = UpTo(k)
<1>1. \A k : UpTo(k)' = UpTo(k)
  BY DEF UpTo
<1> QED
  BY <1>1 DEF FramesOK

(* The next frame, seen from where Read is. *)
LEMMA NextFrame ==
    ASSUME CodecInv, taken < Len(frames), NEW c, c = frames[taken + 1].cells
    PROVE  /\ taken \in Nat /\ taken + 1 \in 1 .. Len(frames)
           /\ c \in Seq(Nat) /\ Len(c) \in Nat /\ Len(c) # 0
           /\ Head(c) = c[1] /\ c[1] \in Nat /\ Len(c) = 1 + Rest(c[1])
           /\ UpTo(taken) \in Nat /\ UpTo(taken + 1) = UpTo(taken) + Len(c)
<1>1. taken \in Nat /\ taken + 1 \in 1 .. Len(frames) /\ taken \in 0 .. Len(frames)
  BY CodecFacts
<1>2. UpTo(taken) \in Nat /\ c \in Seq(Nat) /\ Len(c) \in Nat /\ Len(c) # 0
  BY <1>1, CodecFacts
<1>3. FrameOK(c) /\ UpTo(taken + 1) = UpTo(taken) + Len(c)
  <2>1. \A k \in 1 .. Len(frames) : FrameOK(frames[k].cells)
          /\ UpTo(k) = UpTo(k - 1) + Len(frames[k].cells)
    BY CodecFacts DEF CodecInv, FramesOK
  <2>2. (taken + 1) - 1 = taken
    BY <1>1
  <2> QED
    BY <1>1, <2>1, <2>2
<1>4. Head(c) = c[1] /\ c[1] \in Nat
  BY <1>2
<1> QED
  BY <1>1, <1>2, <1>3, <1>4 DEF FrameOK, lengthFieldSize

(* Read takes the length of the next frame. *)
LEMMA ReadLengthKeeps ==
    ASSUME CodecInv, ReadLength
    PROVE  CodecInv'
<1> DEFINE n == Len(frames)
           c == frames[taken + 1].cells
<1>1. /\ reading = NoLength /\ wire # <<>> /\ reading' = Head(wire)
      /\ wire' = Tail(wire) /\ UNCHANGED <<got, frames, taken>>
  BY DEF ReadLength, taken
<1>2. FramesOK /\ WireOK /\ ReadOK
  BY DEF CodecInv
<1>3. FramesOK' /\ \A k : UpTo(k)' = UpTo(k)
  BY <1>1, <1>2, FramesStay
<1>4. n \in Nat /\ taken \in 0 .. n /\ UpTo(taken) \in Nat /\ UpTo(n) \in Nat
  <2>1. n \in Nat /\ taken \in 0 .. n /\ n \in 0 .. n
    BY CodecFacts
  <2> QED
    BY <2>1, CodecFacts
<1>5. /\ wire \in Seq(Nat) /\ Len(wire) \in Nat /\ Len(wire) # 0
      /\ Len(wire) = UpTo(n) - Position /\ Position = UpTo(taken)
  BY <1>1, <1>2, <1>4 DEF WireOK, Position
<1>6. taken < n
  <2>1. CASE taken = n
    BY <1>4, <1>5, <2>1
  <2> QED
    BY <1>4, <2>1
<1>7. /\ taken \in Nat /\ taken + 1 \in 1 .. n /\ taken + 1 \in taken + 1 .. n
      /\ c \in Seq(Nat) /\ Len(c) \in Nat /\ Len(c) # 0
      /\ Head(c) = c[1] /\ c[1] \in Nat /\ (taken + 1) - 1 = taken
  <2>1. /\ taken \in Nat /\ taken + 1 \in 1 .. n
        /\ c \in Seq(Nat) /\ Len(c) \in Nat /\ Len(c) # 0
        /\ Head(c) = c[1] /\ c[1] \in Nat
    BY <1>6, NextFrame
  <2> QED
    BY <2>1
<1>8. wire[1] = c[1]
  <2>1. 1 \in DOMAIN c /\ UpTo(taken) + 1 > Position /\ UpTo(taken) + 1 - Position = 1
    <3>1. 1 \in DOMAIN c
      <4> HIDE DEF c
      <4> QED
        BY <1>7
    <3> DEFINE end == UpTo(taken)
    <3>2. end \in Nat /\ Position = end
      BY <1>4, <1>5
    <3> HIDE DEF end
    <3>3. end + 1 > Position /\ end + 1 - Position = 1
      BY <3>2
    <3> QED
      BY <3>1, <3>3 DEF end
  <2>2. wire[UpTo((taken + 1) - 1) + 1 - Position] = c[1]
    BY <1>2, <1>7, <2>1 DEF WireOK
  <2> QED
    BY <1>7, <2>1, <2>2
<1>9. reading' = c[1] /\ reading' # NoLength /\ reading' = Head(c)
  BY <1>1, <1>5, <1>7, <1>8 DEF NoLength
<1>10. Position' = Position + 1
  <2>1. UpTo(taken)' = UpTo(taken)
    BY <1>1 DEF UpTo
  <2> QED
    BY <1>5, <1>9, <2>1 DEF Position, lengthFieldSize
<1>11. /\ wire' \in Seq(Nat) /\ Len(wire') = Len(wire) - 1
       /\ \A i \in 1 .. Len(wire) - 1 : wire'[i] = wire[i + 1]
  BY <1>1, <1>5, HeadTailProperties
<1>12. WireOK'
  <2>1. Len(wire') = UpTo(Len(frames))' - Position'
    <3>1. UpTo(Len(frames))' = UpTo(n)
      BY <1>1 DEF UpTo
    <3> QED
      BY <1>4, <1>5, <1>10, <1>11, <3>1
  <2>2. ASSUME NEW k \in taken + 1 .. n, NEW i \in DOMAIN frames[k].cells,
               UpTo(k - 1) + i > Position + 1
        PROVE  wire'[UpTo(k - 1) + i - (Position + 1)] = frames[k].cells[i]
    <3>1. k \in 1 .. n /\ k - 1 \in 0 .. n
      BY <1>4
    <3>2. /\ UpTo(k - 1) \in Nat /\ UpTo(k) \in Nat
          /\ frames[k].cells \in Seq(Nat) /\ Len(frames[k].cells) \in Nat
      <4>1. k \in 0 .. n
        BY <3>1
      <4> QED
        BY <3>1, <4>1, CodecFacts
    <3>3. i \in Nat /\ i <= Len(frames[k].cells)
      <4> DEFINE cells == frames[k].cells
      <4>1. cells \in Seq(Nat) /\ i \in DOMAIN cells
        BY <3>2
      <4> HIDE DEF cells
      <4>2. i \in Nat /\ i <= Len(cells)
        BY <4>1
      <4> QED
        BY <4>2 DEF cells
    <3>4. UpTo(k) = UpTo(k - 1) + Len(frames[k].cells)
      BY <1>2, <3>1, CodecFacts DEF FramesOK
    <3>5. UpTo(k) <= UpTo(n)
      <4>1. k \in 0 .. n /\ n \in 0 .. n /\ (k = n \/ k < n)
        BY <1>4, <3>1
      <4>2. k < n => UpTo(k) < UpTo(n)
        BY <1>2, <4>1 DEF FramesOK
      <4> QED
        BY <1>4, <3>2, <4>1, <4>2
    <3>6. UpTo(k - 1) + i > Position /\ Position \in Nat
      BY <1>4, <1>5, <2>2, <3>2, <3>3
    <3>7. wire[UpTo(k - 1) + i - Position] = frames[k].cells[i]
      BY <1>2, <3>6 DEF WireOK
    <3>8. Position + 1 \in Nat
      BY <3>6
    <3>9. UpTo(k - 1) + i - (Position + 1) \in 1 .. UpTo(n) - (Position + 1)
      BY <1>4, <2>2, <3>2, <3>3, <3>4, <3>5, <3>8, WithinWire
    <3>10. /\ UpTo(k - 1) + i - (Position + 1) \in 1 .. Len(wire) - 1
           /\ (UpTo(k - 1) + i - (Position + 1)) + 1 = UpTo(k - 1) + i - Position
      <4> DEFINE before == UpTo(k - 1)
                 pos == Position
                 all == UpTo(n)
                 len == Len(wire)
      <4>1. before \in Nat /\ pos \in Nat /\ all \in Nat /\ len = all - pos
        BY <1>4, <1>5, <3>2, <3>6
      <4>2. before + i - (pos + 1) \in 1 .. all - (pos + 1) /\ i \in Nat
        BY <3>3, <3>9
      <4> HIDE DEF before, pos, all, len
      <4>3. /\ before + i - (pos + 1) \in 1 .. len - 1
            /\ (before + i - (pos + 1)) + 1 = before + i - pos
        BY <1>7, <4>1, <4>2
      <4> QED
        BY <4>3 DEF before, pos, all, len
    <3> QED
      BY <1>11, <3>7, <3>10
  <2> QED
    BY <1>1, <1>3, <1>10, <1>11, <2>1, <2>2 DEF WireOK
<1>13. ReadOK'
  BY <1>1, <1>2, <1>6, <1>9 DEF ReadOK
<1> QED
  BY <1>3, <1>12, <1>13 DEF CodecInv

(* One more message that Read has returned. *)
LEMMA GotGrows ==
    ASSUME got \in Seq(ToSet(got)), NEW msg, got' = Append(got, msg)
    PROVE  /\ got' \in Seq(ToSet(got')) /\ taken \in Nat /\ taken' = taken + 1
           /\ got'[taken + 1] = msg /\ \A k \in 1 .. taken : got'[k] = got[k]
<1> DEFINE T == ToSet(got) \cup {msg}
<1>1. got \in Seq(T) /\ msg \in T
  <2>1. \A i \in 1 .. Len(got) : got[i] \in T
    BY DEF ToSet
  <2> QED
    BY <2>1, SeqDef
<1> HIDE DEF T
<1>2. /\ got' \in Seq(T) /\ Len(got') = Len(got) + 1 /\ Len(got) \in Nat
      /\ got'[Len(got) + 1] = msg /\ \A k \in 1 .. Len(got) : got'[k] = got[k]
  BY <1>1, AppendProperties
<1>3. got' \in Seq(ToSet(got'))
  <2>1. /\ DOMAIN got' = 1 .. Len(got') /\ Len(got') \in Nat
        /\ \A i \in 1 .. Len(got') : got'[i] \in ToSet(got')
    BY <1>2 DEF ToSet
  <2> QED
    BY <1>2, <2>1, SeqDef
<1> QED
  BY <1>2, <1>3 DEF taken

(* Read takes the rest of that frame and no more. *)
LEMMA ReadRestKeeps ==
    ASSUME CodecInv, ReadRest
    PROVE  CodecInv'
<1> DEFINE n == Len(frames)
           c == frames[taken + 1].cells
           r == Rest(reading)
           msg == Said(reading, SubSeq(wire, 1, r))
<1>1. /\ reading # NoLength /\ Len(wire) >= r
      /\ wire' = SubSeq(wire, r + 1, Len(wire))
      /\ got' = Append(got, msg) /\ reading' = NoLength /\ UNCHANGED frames
  BY DEF ReadRest
<1>2. FramesOK /\ WireOK /\ ReadOK
  BY DEF CodecInv
<1>a. /\ got' \in Seq(ToSet(got')) /\ taken \in Nat /\ taken' = taken + 1
      /\ got'[taken + 1] = msg /\ \A k \in 1 .. taken : got'[k] = got[k]
  <2> HIDE DEF msg
  <2> QED
    BY <1>1, <1>2, GotGrows DEF ReadOK
<1>3. FramesOK' /\ \A k : UpTo(k)' = UpTo(k)
  BY <1>1, <1>2, FramesStay
<1>4. taken < n /\ reading = Head(c)
  BY <1>1, <1>2 DEF ReadOK
<1>5. /\ taken \in Nat /\ taken + 1 \in 1 .. n
      /\ c \in Seq(Nat) /\ Len(c) \in Nat /\ Len(c) # 0
      /\ Head(c) = c[1] /\ c[1] \in Nat /\ Len(c) = 1 + Rest(c[1])
      /\ UpTo(taken) \in Nat /\ UpTo(taken + 1) = UpTo(taken) + Len(c)
  BY <1>4, NextFrame
<1>6. n \in Nat /\ taken \in 0 .. n /\ taken + 1 \in 0 .. n
      /\ taken + 1 \in taken + 1 .. n /\ (taken + 1) - 1 = taken
  BY <1>5, CodecFacts
<1>7. r \in Nat /\ Len(c) = 1 + r /\ r = Len(c) - 1
  <2>1. Rest(c[1]) = IF c[1] = 0 THEN 0 ELSE c[1] - 1
    BY <1>5, RestIs
  <2>2. Rest(c[1]) \in Nat /\ r = Rest(c[1])
    <3>1. r = Rest(c[1])
      BY <1>4, <1>5
    <3> DEFINE l == c[1]
    <3>2. l \in Nat /\ Rest(l) = IF l = 0 THEN 0 ELSE l - 1
      BY <1>5, <2>1
    <3> HIDE DEF l
    <3>3. Rest(l) \in Nat
      BY <3>2
    <3> QED
      BY <3>1, <3>3 DEF l
  <2> DEFINE rest == Rest(c[1])
             len == Len(c)
  <2>3. rest \in Nat /\ len = 1 + rest /\ r = rest
    BY <1>5, <2>2
  <2> HIDE DEF r, rest, len
  <2>4. r \in Nat /\ len = 1 + r /\ r = len - 1
    BY <2>3
  <2> QED
    BY <2>4 DEF len
<1>8. /\ wire \in Seq(Nat) /\ Len(wire) \in Nat /\ UpTo(n) \in Nat
      /\ Len(wire) = UpTo(n) - Position
      /\ Position = UpTo(taken) + 1 /\ Position \in Nat
  <2>1. n \in 0 .. n /\ wire \in Seq(Nat) /\ Len(wire) \in Nat
    BY <1>6, CodecFacts
  <2>2. UpTo(n) \in Nat
    BY <2>1, CodecFacts
  <2>3. Position = UpTo(taken) + 1
    BY <1>1 DEF Position, lengthFieldSize
  <2>4. Len(wire) = UpTo(n) - Position
    BY <1>2 DEF WireOK
  <2>5. UpTo(taken) \in Nat
    BY <1>5
  <2>6. Position \in Nat
    BY <2>3, <2>5
  <2> QED
    BY <2>1, <2>2, <2>3, <2>4, <2>6
<1> HIDE DEF r
<1>9. SubSeq(wire, 1, r) = Tail(c)
  <2>1. /\ SubSeq(wire, 1, r) \in Seq(Nat) /\ Len(SubSeq(wire, 1, r)) = r
        /\ \A i \in 1 .. r : SubSeq(wire, 1, r)[i] = wire[i]
    <3>1. \A i \in 1 .. r : wire[i] \in Nat
      <4>1. r <= Len(wire) /\ r \in Nat /\ wire \in Seq(Nat)
        BY <1>1, <1>7, <1>8
      <4>2. 1 .. r \subseteq 1 .. Len(wire)
        BY <1>8, <4>1
      <4> QED
        BY <1>8, <4>2, ElementOfSeq
    <3>2. /\ SubSeq(wire, 1, r) \in Seq(Nat)
          /\ Len(SubSeq(wire, 1, r)) = IF 1 <= r THEN r - 1 + 1 ELSE 0
          /\ \A i \in 1 .. r - 1 + 1 : SubSeq(wire, 1, r)[i] = wire[1 + i - 1]
      BY <1>7, <3>1, SubSeqProperties
    <3> QED
      BY <1>7, <3>2
  <2>2. /\ Tail(c) \in Seq(Nat) /\ Len(Tail(c)) = r
        /\ \A i \in 1 .. r : Tail(c)[i] = c[i + 1]
    <3> HIDE DEF c
    <3> QED
      BY <1>5, <1>7, HeadTailProperties
  <2>3. ASSUME NEW i \in 1 .. r PROVE wire[i] = c[i + 1]
    <3>1. /\ i + 1 \in DOMAIN c /\ UpTo(taken) + (i + 1) > Position
          /\ UpTo(taken) + (i + 1) - Position = i
      <4> DEFINE pos == Position
                 end == UpTo(taken)
                 len == Len(c)
      <4>1. DOMAIN c = 1 .. len
        BY <1>5
      <4>2. end \in Nat /\ pos = end + 1 /\ r \in Nat /\ len = 1 + r /\ i \in 1 .. r
        BY <1>5, <1>7, <1>8
      <4> HIDE DEF pos, end, len
      <4>3. i + 1 \in 1 .. len /\ end + (i + 1) > pos /\ end + (i + 1) - pos = i
        BY <4>2
      <4> QED
        BY <4>1, <4>3 DEF pos, end
    <3>2. wire[UpTo((taken + 1) - 1) + (i + 1) - Position] = c[i + 1]
      BY <1>2, <1>6, <3>1 DEF WireOK
    <3> QED
      BY <1>6, <3>1, <3>2
  <2>4. \A i \in 1 .. r : SubSeq(wire, 1, r)[i] = Tail(c)[i]
    BY <2>1, <2>2, <2>3
  <2> QED
    BY <2>1, <2>2, <2>4, SeqEqual
<1>10. msg = Makes(c)
  BY <1>4, <1>9 DEF Makes
<1>11. Position' = Position + r
  <2>1. UpTo(taken)' = UpTo(taken + 1)
    BY <1>1, <1>a DEF UpTo
  <2> QED
    BY <1>1, <1>5, <1>7, <1>8, <2>1 DEF Position
<1>12. /\ wire' \in Seq(Nat) /\ Len(wire') = Len(wire) - r
       /\ \A i \in 1 .. Len(wire) - r : wire'[i] = wire[i + r]
  <2> DEFINE len == Len(wire)
  <2>1. /\ len \in Nat /\ r + 1 \in Int /\ r <= len
        /\ \A i \in r + 1 .. len : wire[i] \in Nat
    <3>1. r <= len /\ r \in Nat /\ len \in Nat
      BY <1>1, <1>7, <1>8
    <3>2. r + 1 .. len \subseteq 1 .. len
      <4> HIDE DEF len
      <4> QED
        BY <3>1
    <3>3. \A i \in r + 1 .. len : wire[i] \in Nat
      BY <1>8, <3>2, ElementOfSeq
    <3> QED
      BY <3>1, <3>3
  <2>2. wire' = SubSeq(wire, r + 1, len)
    BY <1>1
  <2> HIDE DEF len
  <2>3. /\ wire' \in Seq(Nat)
        /\ Len(wire') = IF r + 1 <= len THEN len - (r + 1) + 1 ELSE 0
        /\ \A i \in 1 .. len - (r + 1) + 1 : wire'[i] = wire[(r + 1) + i - 1]
    BY <2>1, <2>2, SubSeqProperties
  <2>4. /\ wire' \in Seq(Nat) /\ Len(wire') = len - r
        /\ \A i \in 1 .. len - r : wire'[i] = wire[i + r]
    BY <1>7, <2>1, <2>3
  <2> QED
    BY <2>4 DEF len
<1>13. WireOK'
  <2>1. Len(wire') = UpTo(Len(frames))' - Position'
    <3>1. UpTo(Len(frames))' = UpTo(n)
      BY <1>1 DEF UpTo
    <3> DEFINE len == Len(wire)
               end == UpTo(n)
               pos == Position
    <3>2. len \in Nat /\ end \in Nat /\ pos \in Nat /\ r \in Nat /\ len = end - pos
      BY <1>7, <1>8
    <3>3. Len(wire') = len - r /\ Position' = pos + r
      BY <1>11, <1>12
    <3> HIDE DEF len, end, pos
    <3>4. len - r = end - (pos + r)
      BY <3>2
    <3> QED
      BY <3>1, <3>3, <3>4 DEF end
  <2>2. ASSUME NEW k \in (taken + 1) + 1 .. n, NEW i \in DOMAIN frames[k].cells,
               UpTo(k - 1) + i > Position + r
        PROVE  wire'[UpTo(k - 1) + i - (Position + r)] = frames[k].cells[i]
    <3>1. k \in 1 .. n /\ k - 1 \in 0 .. n /\ k \in taken + 1 .. n
      BY <1>6
    <3>2. /\ UpTo(k - 1) \in Nat /\ UpTo(k) \in Nat
          /\ frames[k].cells \in Seq(Nat) /\ Len(frames[k].cells) \in Nat
      <4>1. k \in 0 .. n
        BY <3>1
      <4> QED
        BY <3>1, <4>1, CodecFacts
    <3>3. i \in Nat /\ i <= Len(frames[k].cells)
      <4> DEFINE cells == frames[k].cells
      <4>1. cells \in Seq(Nat) /\ i \in DOMAIN cells
        BY <3>2
      <4> HIDE DEF cells
      <4>2. i \in Nat /\ i <= Len(cells)
        BY <4>1
      <4> QED
        BY <4>2 DEF cells
    <3>4. UpTo(k) = UpTo(k - 1) + Len(frames[k].cells)
      BY <1>2, <3>1, CodecFacts DEF FramesOK
    <3>5. UpTo(k) <= UpTo(n)
      <4>1. k \in 0 .. n /\ n \in 0 .. n /\ (k = n \/ k < n)
        BY <1>6, <3>1
      <4>2. k < n => UpTo(k) < UpTo(n)
        BY <1>2, <4>1 DEF FramesOK
      <4> QED
        BY <1>8, <3>2, <4>1, <4>2
    <3>6. UpTo(k - 1) + i > Position /\ Position \in Nat
      <4> DEFINE before == UpTo(k - 1)
                 pos == Position
      <4>1. before \in Nat /\ pos \in Nat /\ i \in Nat /\ r \in Nat
        BY <1>7, <1>8, <3>2, <3>3
      <4>2. before + i > pos + r
        BY <2>2
      <4> HIDE DEF before, pos
      <4>3. before + i > pos
        BY <4>1, <4>2
      <4> QED
        BY <4>1, <4>3 DEF before, pos
    <3>7. wire[UpTo(k - 1) + i - Position] = frames[k].cells[i]
      BY <1>2, <3>1, <3>6 DEF WireOK
    <3>8. Position + r \in Nat
      BY <1>7, <3>6
    <3>9. UpTo(k - 1) + i - (Position + r) \in 1 .. UpTo(n) - (Position + r)
      BY <1>8, <2>2, <3>2, <3>3, <3>4, <3>5, <3>8, WithinWire
    <3>10. /\ UpTo(k - 1) + i - (Position + r) \in 1 .. Len(wire) - r
           /\ (UpTo(k - 1) + i - (Position + r)) + r = UpTo(k - 1) + i - Position
      <4> DEFINE before == UpTo(k - 1)
                 pos == Position
                 all == UpTo(n)
                 len == Len(wire)
      <4>1. before \in Nat /\ pos \in Nat /\ all \in Nat /\ len = all - pos
        BY <1>7, <1>8, <3>2, <3>6
      <4>2. before + i - (pos + r) \in 1 .. all - (pos + r) /\ i \in Nat
        BY <3>3, <3>9
      <4> HIDE DEF before, pos, all, len
      <4>3. /\ before + i - (pos + r) \in 1 .. len - r
            /\ (before + i - (pos + r)) + r = before + i - pos
        BY <1>7, <4>1, <4>2
      <4> QED
        BY <4>3 DEF before, pos, all, len
    <3> QED
      BY <1>12, <3>7, <3>10
  <2> QED
    BY <1>1, <1>a, <1>3, <1>11, <1>12, <2>1, <2>2 DEF WireOK
<1>14. ReadOK'
  <2> HIDE DEF c, msg
  <2>1. ASSUME NEW k \in 1 .. taken + 1
        PROVE  got'[k] = Makes(frames[k].cells)
    <3>1. CASE k = taken + 1
      BY <1>a, <1>10, <3>1 DEF c
    <3>2. CASE k \in 1 .. taken
      BY <1>2, <1>a, <3>2 DEF ReadOK
    <3> QED
      BY <1>a, <3>1, <3>2
  <2>2. taken' <= Len(frames')
    BY <1>1, <1>a, <1>6
  <2> QED
    BY <1>1, <1>a, <2>1, <2>2 DEF ReadOK
<1> QED
  BY <1>3, <1>13, <1>14 DEF CodecInv

(* At first the wire is empty. *)
LEMMA InitCodec == CodecInit => CodecInv
<1> SUFFICES ASSUME CodecInit PROVE CodecInv
  OBVIOUS
<1>1. wire = <<>> /\ reading = NoLength /\ got = <<>> /\ frames = <<>>
  BY DEF CodecInit
<1>2. UpTo(0) = 0 /\ Len(frames) = 0 /\ taken = 0 /\ Position = 0
  BY <1>1 DEF UpTo, taken, Position
<1>3. FramesOK
  BY <1>1, <1>2 DEF FramesOK
<1>4. WireOK
  BY <1>1, <1>2 DEF WireOK
<1>5. ReadOK
  BY <1>1, <1>2 DEF ReadOK
<1> QED
  BY <1>3, <1>4, <1>5 DEF CodecInv

(* However many frames come, and whatever is in them, Read stays at the beginning
   of a frame or behind its length.  All that it takes of Write is that payloads
   are cells. *)
THEOREM CodecInvariant ==
    ASSUME PayloadsAreCells
    PROVE  CodecSpec => []CodecInv
<1>1. ASSUME CodecInv, [CodecNext]_codecVars
      PROVE  CodecInv'
  <2>1. CASE UNCHANGED codecVars
    <3>1. UNCHANGED <<wire, reading, got, frames>> /\ taken' = taken
      BY <2>1 DEF codecVars, taken
    <3>2. FramesOK' /\ \A k : UpTo(k)' = UpTo(k)
      BY <1>1, <3>1, FramesStay DEF CodecInv
    <3>3. UpTo(Len(frames))' = UpTo(Len(frames)) /\ Position' = Position
      BY <3>1 DEF UpTo, Position, taken
    <3>4. WireOK'
      BY <1>1, <3>1, <3>2, <3>3 DEF CodecInv, WireOK
    <3>5. ReadOK'
      BY <1>1, <3>1, <3>3 DEF CodecInv, ReadOK
    <3> QED
      BY <3>2, <3>4, <3>5 DEF CodecInv
  <2> QED
    BY <1>1, <2>1, WriteKeeps, ReadLengthKeeps, ReadRestKeeps DEF CodecNext
<1> QED
  BY <1>1, InitCodec, PTL DEF CodecSpec

(* Each call of Read takes one frame, whether it rejects it or not, and makes of
   it what it makes of that frame alone: for any number of frames, of any length. *)
THEOREM ReadsInStep ==
    ASSUME PayloadsAreCells
    PROVE  CodecSpec => []FramesInStep
<1>1. ASSUME CodecInv
      PROVE  FramesInStep
  <2> DEFINE n == Len(frames)
  <2>1. FramesOK /\ WireOK /\ ReadOK
    BY <1>1 DEF CodecInv
  <2>2. n \in Nat /\ taken \in 0 .. n /\ n \in 0 .. n
    BY <1>1, CodecFacts
  <2>3. UpTo(taken) \in Nat /\ UpTo(n) \in Nat
    BY <1>1, <2>2, CodecFacts
  <2>4. Len(got) <= n /\ \A k \in DOMAIN got : got[k] = Makes(frames[k].cells)
    BY <2>1 DEF ReadOK, taken
  <2>5. ASSUME wire = <<>>, reading = NoLength PROVE Len(got) = n
    <3>1. UpTo(n) - UpTo(taken) = 0
      BY <2>1, <2>3, <2>5 DEF WireOK, Position
    <3>2. taken < n => UpTo(taken) < UpTo(n)
      BY <2>1, <2>2 DEF FramesOK
    <3>3. taken = n
      BY <2>2, <2>3, <3>1, <3>2
    <3> QED
      BY <3>3 DEF taken
  <2> QED
    BY <2>4, <2>5 DEF FramesInStep
<1> QED
  BY <1>1, CodecInvariant, PTL
=============================================================================
