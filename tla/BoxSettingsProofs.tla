------------------------- MODULE BoxSettingsProofs ----------------------------
(***************************************************************************)
(* Proofs about BoxSettings, for any number of sensor rows, any settings   *)
(* and any number of requests and interruptions of the power.              *)
(***************************************************************************)
EXTENDS BoxSettings, FormTextProofs

-------------------------------------------------------------------------------
(* The forms are read as they were written.                                    *)

\* The names of the fields.
Letters == {"a", "d", "e", "f", "g", "h", "i", "m", "n", "o", "p", "r", "s", "t"}
Names == {<<"i">>, <<"m">>, <<"s">>, <<"g">>, <<"d">>, <<"d", "h">>, <<"s", "i", "d">>, <<"e", "n">>,
          <<"h", "o", "s", "t">>, <<"p", "o", "r", "t">>, <<"p", "a", "t", "h">>, <<"s", "p">>,
          <<"n", "a">>, <<"o", "f">>}
LEMMA NamesAreTexts ==
  /\ \A s \in Names : s \in Seq(Letters) /\ s # <<>> /\ IsSuffix(s, s)
  /\ \A s, t \in Names : IsSuffix(s, t) =>
       Len(s) <= Len(t) /\ s[Len(s)] = t[Len(t)] /\ (Len(s) = Len(t) => s[1] = t[1])
<1>1. \A s \in Names : s \in Seq(Letters) /\ s # <<>>
  <2>1. /\ <<"i">> \in Seq(Letters) /\ <<"m">> \in Seq(Letters) /\ <<"s">> \in Seq(Letters)
        /\ <<"g">> \in Seq(Letters) /\ <<"d">> \in Seq(Letters)
    BY DEF Letters
  <2>2. /\ <<"d", "h">> \in Seq(Letters) /\ <<"e", "n">> \in Seq(Letters)
        /\ <<"s", "p">> \in Seq(Letters) /\ <<"n", "a">> \in Seq(Letters)
        /\ <<"o", "f">> \in Seq(Letters) /\ <<"s", "i", "d">> \in Seq(Letters)
    BY DEF Letters
  <2>3. /\ <<"h", "o", "s", "t">> \in Seq(Letters) /\ <<"p", "o", "r", "t">> \in Seq(Letters)
        /\ <<"p", "a", "t", "h">> \in Seq(Letters)
    BY DEF Letters
  <2>4. \A s \in Names : Len(s) # 0
    BY DEF Names
  <2>5. Len(<<>>) = 0
    OBVIOUS
  <2> QED
    BY <2>1, <2>2, <2>3, <2>4, <2>5 DEF Names
<1>2. \A s \in Names : IsSuffix(s, s)
  BY <1>1, OwnSuffix
<1>3. ASSUME NEW s \in Names, NEW t \in Names, IsSuffix(s, t)
      PROVE  Len(s) <= Len(t) /\ s[Len(s)] = t[Len(t)] /\ (Len(s) = Len(t) => s[1] = t[1])
  BY <1>1, <1>3, SuffixesEndAlike
<1> QED
  BY <1>1, <1>2, <1>3

LEMMA OtherNames ==
  /\ \A t \in Names : IsSuffix(<<"i">>, t) => t[Len(t)] = "i"
  /\ \A t \in Names : IsSuffix(<<"m">>, t) => t[Len(t)] = "m"
  /\ \A t \in Names : IsSuffix(<<"s">>, t) => t[Len(t)] = "s"
  /\ \A t \in Names : IsSuffix(<<"g">>, t) => t[Len(t)] = "g"
  /\ \A t \in Names : IsSuffix(<<"d">>, t) => t[Len(t)] = "d"
  /\ \A t \in Names : IsSuffix(<<"d", "h">>, t) => t[Len(t)] = "h"
  /\ \A t \in Names : IsSuffix(<<"e", "n">>, t) => t[Len(t)] = "n"
  /\ \A t \in Names : IsSuffix(<<"s", "p">>, t) => t[Len(t)] = "p"
  /\ \A t \in Names : IsSuffix(<<"n", "a">>, t) => t[Len(t)] = "a"
  /\ \A t \in Names : IsSuffix(<<"o", "f">>, t) => t[Len(t)] = "f"
  /\ \A t \in Names : IsSuffix(<<"h", "o", "s", "t">>, t) => t[Len(t)] = "t"
  /\ \A t \in Names : IsSuffix(<<"p", "o", "r", "t">>, t) => t[Len(t)] = "t" /\ (Len(t) = 4 => t[1] = "p")
  /\ \A t \in Names : IsSuffix(<<"p", "a", "t", "h">>, t) => t[Len(t)] = "h" /\ 4 <= Len(t)
  BY NamesAreTexts DEF Names

\* What a row's form says is read as it was typed,
LEMMA RowFormIsRead == \A typed \in RowSettings : ReadRow(RowForm(typed)) = typed
<1> TAKE typed \in RowSettings
<1> DEFINE en == <<"e", "n">>
           na == <<"n", "a">>
           of == <<"o", "f">>
           tick == Field(en, On)
           f1 == Field(na, UrlEncoded(typed.name))
           f2 == Field(of, typed.offset)
           tail == <<f1, f2, Sid>>
           form == CheckBox(en, typed.enable) \o tail
           S == {tick, f1, f2, Sid}
<1>1. typed \in SensorRows /\ typed.enable \in BOOLEAN /\ typed.name \in Texts /\ IsPlain(typed.name)
  BY SettingsAssumption DEF SensorRows, RowNames
<1>2. /\ tail \in Seq(S) /\ tick \in S /\ Len(tail) = 3
      /\ tail[1] = f1 /\ tail[2] = f2 /\ tail[3] = Sid
  <2>1. \A x1, x2, x3 \in S : <<x1, x2, x3>> \in Seq(S)
    <3> HIDE DEF S
    <3> QED
      OBVIOUS
  <2>2. tick \in S /\ f1 \in S /\ f2 \in S /\ Sid \in S
    OBVIOUS
  <2> HIDE DEF S, f1, f2
  <2> QED
    BY <2>1, <2>2
<1>3. /\ Sid.name = <<"s", "i", "d">>
      /\ f1.name = na /\ f1.value = UrlEncoded(typed.name)
      /\ f2.name = of /\ f2.value = typed.offset
  BY DEF Sid, Field
<1>4. /\ en \in Names /\ na \in Names /\ of \in Names /\ Sid.name \in Names
  BY <1>3 DEF Names
<1>5. IsSuffix(en, en) /\ IsSuffix(na, na) /\ IsSuffix(of, of)
  BY <1>4, NamesAreTexts
<1>6. /\ ~IsSuffix(en, Sid.name)
      /\ ~IsSuffix(en, na) /\ ~IsSuffix(na, en)
      /\ ~IsSuffix(en, of) /\ ~IsSuffix(of, en)
  <2>1. ~IsSuffix(en, Sid.name)
    <3>1. Sid.name[Len(Sid.name)] = "d"
      BY <1>3
    <3>2. IsSuffix(en, Sid.name) => Sid.name[Len(Sid.name)] = "n"
      BY <1>4, OtherNames
    <3> QED
      BY <3>1, <3>2
  <2>2. ~IsSuffix(en, na)
    BY <1>4, OtherNames
  <2>3. ~IsSuffix(na, en)
    BY <1>4, OtherNames
  <2>4. ~IsSuffix(en, of)
    BY <1>4, OtherNames
  <2>5. ~IsSuffix(of, en)
    BY <1>4, OtherNames
  <2> QED
    BY <2>1, <2>2, <2>3, <2>4, <2>5
<1>7. ~IsSuffix(of, na)
  BY <1>4, OtherNames
<1>8. RowForm(typed) = form
  BY DEF RowForm
<1>a. form = CheckBox(en, typed.enable) \o tail /\ tick = Field(en, On)
  OBVIOUS
<1> HIDE DEF en, na, of, tick, f1, f2, tail, S, form
<1>9. IsOn(findstr(form, en)) = typed.enable
  <2>1. \A j \in 1..Len(tail) : ~Named(en, tail[j])
    BY <1>2, <1>3, <1>6 DEF Named
  <2> QED
    BY <1>1, <1>2, <1>5, <1>a, <2>1, TickIsFound
<1>10. findstr(form, na) = UrlEncoded(typed.name)
  <2> DEFINE k == 1
  <2>1. Len(tail) \in Nat /\ k \in 1..Len(tail) /\ Named(na, tail[k]) /\ tail[k].value = UrlEncoded(typed.name)
    BY <1>2, <1>3, <1>5 DEF Named
  <2>2. \A j \in 1..(k - 1) : ~Named(na, tail[j])
    BY <1>2, <1>3, <1>7 DEF Named
  <2> HIDE DEF k
  <2>3. findstr(tail, na) = tail[k].value
    BY <2>1, <2>2, FirstIsFound
  <2>4. findstr(form, na) = findstr(tail, na)
    BY <1>1, <1>2, <1>6, <1>a, BehindTheTick
  <2> QED
    BY <2>1, <2>3, <2>4
<1>11. findstr(form, of) = typed.offset
  <2> DEFINE k == 2
  <2>1. Len(tail) \in Nat /\ k \in 1..Len(tail) /\ Named(of, tail[k]) /\ tail[k].value = typed.offset
    BY <1>2, <1>3, <1>5 DEF Named
  <2>2. \A j \in 1..(k - 1) : ~Named(of, tail[j])
    BY <1>2, <1>3, <1>7 DEF Named
  <2> HIDE DEF k
  <2>3. findstr(tail, of) = tail[k].value
    BY <2>1, <2>2, FirstIsFound
  <2>4. findstr(form, of) = findstr(tail, of)
    BY <1>1, <1>2, <1>6, <1>a, BehindTheTick
  <2> QED
    BY <2>1, <2>3, <2>4
<1>12. urldecode(UrlEncoded(typed.name)) = typed.name
  BY <1>1, EncodedIsRead DEF Texts
<1>13. ReadRow(form) = [enable |-> typed.enable, name |-> typed.name, offset |-> typed.offset]
  BY <1>9, <1>10, <1>11, <1>12 DEF ReadRow, en, na, of
<1>14. typed = [enable |-> typed.enable, name |-> typed.name, offset |-> typed.offset]
  BY <1>1 DEF SensorRows
<1> QED
  BY <1>8, <1>13, <1>14

\* An encoded text is one,
LEMMA EncodedTexts ==
  \A text \in Texts : UrlEncoded(text) \in Texts /\ Len(UrlEncoded(text)) \in Nat
<1>1. Escapes \subseteq STRING
  BY CharactersAssumption DEF Escapes
<1>2. \A text \in Seq(STRING) : UrlEncoded(text) \in Seq(STRING)
  BY <1>1, EncodingIsFromTheLeft DEF ReadsEncoded
<1> QED
  BY <1>2 DEF Texts

\* and so is what a short field keeps of it.
LEMMA FieldTexts ==
  /\ \A text \in Texts : Kept(text) \in Texts
  /\ \A text \in Texts : Len(text) < PasswordSize => Kept(text) = text
  /\ \A name, path \in Texts : NameInField(name, path) \in Texts
  /\ \A name, path \in Texts : Len(name) < NameSize => NameInField(name, path) = name
<1>1. ASSUME NEW text \in Seq(STRING), NEW n \in Nat, n <= Len(text)
      PROVE  SubSeq(text, 1, n) \in Seq(STRING)
  BY <1>1, SubSeqProperties
<1>2. ASSUME NEW text \in Texts PROVE Kept(text) \in Texts
  <2>1. Len(text) \in Nat /\ PasswordSize \in Nat
    BY LenProperties DEF Texts, PasswordSize
  <2>2. CASE Len(text) <= PasswordSize
    BY <2>2 DEF Kept
  <2>3. CASE ~(Len(text) <= PasswordSize)
    <3>1. PasswordSize <= Len(text)
      BY <2>1, <2>3
    <3>2. SubSeq(text, 1, PasswordSize) \in Seq(STRING)
      BY <1>1, <2>1, <3>1 DEF Texts
    <3>3. Kept(text) = SubSeq(text, 1, PasswordSize)
      BY <2>3 DEF Kept
    <3> QED
      BY <3>2, <3>3 DEF Texts
  <2> QED
    BY <2>2, <2>3

<1>3. ASSUME NEW text \in Texts, Len(text) < PasswordSize PROVE Kept(text) = text
  BY <1>3 DEF Kept, PasswordSize, Texts
<1>4. ASSUME NEW name \in Texts, NEW path \in Texts PROVE NameInField(name, path) \in Texts
  <2>1. CASE Len(name) < NameSize
    <3>1. NameInField(name, path) = name
      BY <2>1 DEF NameInField
    <3> QED
      BY <1>4, <3>1
  <2>2. CASE ~(Len(name) < NameSize)
    <3>0. NameSize \in Nat /\ name \in Seq(STRING) /\ NameSize <= Len(name)
      BY <1>4, <2>2 DEF NameSize, Texts
    <3>1. SubSeq(name, 1, NameSize) \in Seq(STRING)
      BY <1>1, <3>0
    <3>2. SubSeq(name, 1, NameSize) \o path \in Seq(STRING)
      BY <1>4, <3>1, ConcatProperties DEF Texts
    <3> QED
      BY <2>2, <3>2 DEF NameInField, Texts
  <2> QED
    BY <2>1, <2>2
<1>5. ASSUME NEW name \in Texts, NEW path \in Texts, Len(name) < NameSize
      PROVE  NameInField(name, path) = name
  BY <1>5 DEF NameInField
<1> QED
  BY <1>2, <1>3, <1>4, <1>5

\* The password's form gives the text that was sent,
LEMMA PasswordFormIsRead ==
  ASSUME NEW new
  PROVE  ReadNewPassword(PasswordForm(new)) = UrlEncoded(new)
<1> DEFINE find == <<"n", "e", "w">>
           f1 == Field(find, UrlEncoded(new))
           form == <<f1, Sid>>
<1>1. Len(form) = 2 /\ form[1] = f1
  OBVIOUS
<1>2. IsSuffix(find, find)
  <2> DEFINE S == {"n", "e", "w"}
  <2>1. find \in Seq(S)
    OBVIOUS
  <2> QED
    BY <2>1, OwnSuffix
<1>3. f1.name = find /\ f1.value = UrlEncoded(new)
  BY DEF Field
<1>4. ReadNewPassword(PasswordForm(new)) = findstr(form, find)
  BY DEF ReadNewPassword, PasswordForm
<1> HIDE DEF find, f1, form
<1> DEFINE k == 1
<1>5. Len(form) \in Nat /\ k \in 1..Len(form) /\ Named(find, form[k])
  BY <1>1, <1>2, <1>3 DEF Named
<1>6. \A j \in 1..(k - 1) : ~Named(find, form[j])
  OBVIOUS
<1>7. form[k].value = UrlEncoded(new)
  BY <1>1, <1>3
<1> HIDE DEF k
<1>8. findstr(form, find) = form[k].value
  BY <1>5, <1>6, FirstIsFound
<1> QED
  BY <1>4, <1>7, <1>8

\* a logger's what was typed, but for the host.
HostSent(typed) == NameInField(UrlEncoded(typed.server_name), typed.script_path)
AsStored(typed) == [typed EXCEPT !.server_name = HostSent(typed)]
LEMMA ServerFormIsRead ==
  \A typed \in ServerSettings : ReadServer(ServerForm(typed)) = AsStored(typed)
<1> TAKE typed \in ServerSettings
<1> DEFINE portText == DecimalText(typed.port)
           timeText == DecimalText(SelectInSeq(RefreshTimes, LAMBDA t : t = typed.refresh_time) - 1)
<1> DEFINE en == <<"e", "n">>
           host == <<"h", "o", "s", "t">>
           port == <<"p", "o", "r", "t">>
           path == <<"p", "a", "t", "h">>
           sp == <<"s", "p">>
           tick == Field(en, On)
           f1 == Field(host, UrlEncoded(typed.server_name))
           f2 == Field(port, portText)
           f3 == Field(path, UrlEncoded(typed.script_path))
           f4 == Field(sp, timeText)
           tail == <<f1, f2, f3, f4, Sid>>
           form == CheckBox(en, typed.enable) \o tail
           S == {tick, f1, f2, f3, f4, Sid}
<1>1. /\ typed \in Servers /\ typed.enable \in BOOLEAN /\ IsPlain(typed.script_path)
      /\ typed.script_path \in Texts /\ typed.port \in Nat /\ typed.port < UnsignedInts
      /\ typed.refresh_time \in ToSet(RefreshTimes)
  BY SettingsAssumption, SixteenBits DEF Servers
<1>2. /\ tail \in Seq(S) /\ tick \in S /\ Len(tail) = 5
      /\ tail[1] = f1 /\ tail[2] = f2 /\ tail[3] = f3 /\ tail[4] = f4 /\ tail[5] = Sid
  <2>1. \A x1, x2, x3, x4, x5 \in S : <<x1, x2, x3, x4, x5>> \in Seq(S)
    <3> HIDE DEF S
    <3> QED
      OBVIOUS
  <2>2. tick \in S /\ f1 \in S /\ f2 \in S /\ f3 \in S /\ f4 \in S /\ Sid \in S
    <3> HIDE DEF tick, f1, f2, f3, f4
    <3> QED
      BY DEF S
  <2> HIDE DEF S, f1, f2, f3, f4
  <2> QED
    BY <2>1, <2>2
<1>3. /\ Sid.name = <<"s", "i", "d">>
      /\ f1.name = host /\ f1.value = UrlEncoded(typed.server_name)
      /\ f2.name = port /\ f2.value = portText
      /\ f3.name = path /\ f3.value = UrlEncoded(typed.script_path)
      /\ f4.name = sp /\ f4.value = timeText
  BY DEF Sid, Field
<1>4. /\ en \in Names /\ host \in Names /\ port \in Names /\ path \in Names /\ sp \in Names /\ Sid.name \in Names
  BY <1>3 DEF Names
<1>5. IsSuffix(en, en) /\ IsSuffix(host, host) /\ IsSuffix(port, port) /\ IsSuffix(path, path) /\ IsSuffix(sp, sp)
  BY <1>4, NamesAreTexts
<1>6. /\ ~IsSuffix(en, Sid.name)
      /\ ~IsSuffix(en, host) /\ ~IsSuffix(host, en)
      /\ ~IsSuffix(en, port) /\ ~IsSuffix(port, en)
      /\ ~IsSuffix(en, path) /\ ~IsSuffix(path, en)
      /\ ~IsSuffix(en, sp) /\ ~IsSuffix(sp, en)
  <2>1. ~IsSuffix(en, Sid.name)
    <3>1. Sid.name[Len(Sid.name)] = "d"
      BY <1>3
    <3>2. IsSuffix(en, Sid.name) => Sid.name[Len(Sid.name)] = "n"
      BY <1>4, OtherNames
    <3> QED
      BY <3>1, <3>2
  <2>2. ~IsSuffix(en, host)
    BY <1>4, OtherNames
  <2>3. ~IsSuffix(host, en)
    BY <1>4, OtherNames
  <2>4. ~IsSuffix(en, port)
    BY <1>4, OtherNames
  <2>5. ~IsSuffix(port, en)
    BY <1>4, OtherNames
  <2>6. ~IsSuffix(en, path)
    BY <1>4, OtherNames
  <2>7. ~IsSuffix(path, en)
    BY <1>4, OtherNames
  <2>8. ~IsSuffix(en, sp)
    BY <1>4, OtherNames
  <2>9. ~IsSuffix(sp, en)
    BY <1>4, OtherNames
  <2> QED
    BY <2>1, <2>2, <2>3, <2>4, <2>5, <2>6, <2>7, <2>8, <2>9
<1>7. /\ ~IsSuffix(port, host)
      /\ ~IsSuffix(path, host)
      /\ ~IsSuffix(path, port)
      /\ ~IsSuffix(sp, host)
      /\ ~IsSuffix(sp, port)
      /\ ~IsSuffix(sp, path)
  BY <1>4, OtherNames
<1>8. ServerForm(typed) = form
  BY DEF ServerForm
<1>a. form = CheckBox(en, typed.enable) \o tail /\ tick = Field(en, On)
  OBVIOUS
<1> HIDE DEF portText, timeText, en, host, port, path, sp, tick, f1, f2, f3, f4, tail, S, form
<1>9. IsOn(findstr(form, en)) = typed.enable
  <2>1. \A j \in 1..Len(tail) : ~Named(en, tail[j])
    BY <1>2, <1>3, <1>6 DEF Named
  <2> QED
    BY <1>1, <1>2, <1>5, <1>a, <2>1, TickIsFound
<1>10. findstr(form, host) = UrlEncoded(typed.server_name)
  <2> DEFINE k == 1
  <2>1. Len(tail) \in Nat /\ k \in 1..Len(tail) /\ Named(host, tail[k])
        /\ tail[k].value = UrlEncoded(typed.server_name)
    BY <1>2, <1>3, <1>5 DEF Named
  <2>2. \A j \in 1..(k - 1) : ~Named(host, tail[j])
    BY <1>2, <1>3, <1>7 DEF Named
  <2> HIDE DEF k
  <2>3. findstr(tail, host) = tail[k].value
    BY <2>1, <2>2, FirstIsFound
  <2>4. findstr(form, host) = findstr(tail, host)
    BY <1>1, <1>2, <1>6, <1>a, BehindTheTick
  <2> QED
    BY <2>1, <2>3, <2>4
<1>11. findstr(form, port) = portText
  <2> DEFINE k == 2
  <2>1. Len(tail) \in Nat /\ k \in 1..Len(tail) /\ Named(port, tail[k]) /\ tail[k].value = portText
    BY <1>2, <1>3, <1>5 DEF Named
  <2>2. \A j \in 1..(k - 1) : ~Named(port, tail[j])
    BY <1>2, <1>3, <1>7 DEF Named
  <2> HIDE DEF k
  <2>3. findstr(tail, port) = tail[k].value
    BY <2>1, <2>2, FirstIsFound
  <2>4. findstr(form, port) = findstr(tail, port)
    BY <1>1, <1>2, <1>6, <1>a, BehindTheTick
  <2> QED
    BY <2>1, <2>3, <2>4
<1>12. findstr(form, path) = UrlEncoded(typed.script_path)
  <2> DEFINE k == 3
  <2>1. Len(tail) \in Nat /\ k \in 1..Len(tail) /\ Named(path, tail[k]) /\ tail[k].value = UrlEncoded(typed.script_path)
    BY <1>2, <1>3, <1>5 DEF Named
  <2>2. \A j \in 1..(k - 1) : ~Named(path, tail[j])
    BY <1>2, <1>3, <1>7 DEF Named
  <2> HIDE DEF k
  <2>3. findstr(tail, path) = tail[k].value
    BY <2>1, <2>2, FirstIsFound
  <2>4. findstr(form, path) = findstr(tail, path)
    BY <1>1, <1>2, <1>6, <1>a, BehindTheTick
  <2> QED
    BY <2>1, <2>3, <2>4
<1>13. findstr(form, sp) = timeText
  <2> DEFINE k == 4
  <2>1. Len(tail) \in Nat /\ k \in 1..Len(tail) /\ Named(sp, tail[k]) /\ tail[k].value = timeText
    BY <1>2, <1>3, <1>5 DEF Named
  <2>2. \A j \in 1..(k - 1) : ~Named(sp, tail[j])
    BY <1>2, <1>3, <1>7 DEF Named
  <2> HIDE DEF k
  <2>3. findstr(tail, sp) = tail[k].value
    BY <2>1, <2>2, FirstIsFound
  <2>4. findstr(form, sp) = findstr(tail, sp)
    BY <1>1, <1>2, <1>6, <1>a, BehindTheTick
  <2> QED
    BY <2>1, <2>3, <2>4
<1>14. urldecode(UrlEncoded(typed.script_path)) = typed.script_path
  BY <1>1, EncodedIsRead DEF Texts
<1>15. ATOI(portText, 10) = typed.port
  BY <1>1, DecimalIsRead DEF portText
<1>16. RefreshTimes[ATOI(timeText, 10) + 1] = typed.refresh_time
  <2>1. PICK k \in 1..5 : typed.refresh_time = RefreshTimes[k]
    BY <1>1 DEF RefreshTimes, ToSet
  <2>2. timeText = DecimalText(k - 1)
    <3> DEFINE I == {i \in 1..Len(RefreshTimes) : RefreshTimes[i] = typed.refresh_time}
               at == SelectInSeq(RefreshTimes, LAMBDA t : t = typed.refresh_time)
    <3>1. Len(RefreshTimes) = 5 /\ \A i, j \in 1..5 : RefreshTimes[i] = RefreshTimes[j] => i = j
      BY DEF RefreshTimes
    <3>2. I = {k}
      BY <2>1, <3>1
    <3>3. at = Min(I)
      BY <3>2 DEF SelectInSeq
    <3>4. timeText = DecimalText(at - 1)
      BY DEF timeText
    <3> HIDE DEF I, at
    <3>5. Min(I) = k
      BY <3>2 DEF Min
    <3> QED
      BY <3>3, <3>4, <3>5
  <2>3. k - 1 \in Nat /\ k - 1 < UnsignedInts
    BY DEF UnsignedInts
  <2>4. ATOI(timeText, 10) = k - 1
    BY <2>2, <2>3, DecimalIsRead
  <2>5. (k - 1) + 1 = k
    OBVIOUS
  <2> QED
    BY <2>1, <2>4, <2>5
<1>17. ReadServer(form) = [enable |-> typed.enable, server_name |-> HostSent(typed),
                           script_path |-> typed.script_path, port |-> typed.port,
                           refresh_time |-> typed.refresh_time]
  BY <1>9, <1>10, <1>11, <1>12, <1>13, <1>14, <1>15, <1>16
  DEF ReadServer, HostSent, en, host, port, path, sp
<1>18. AsStored(typed) = [enable |-> typed.enable, server_name |-> HostSent(typed),
                script_path |-> typed.script_path, port |-> typed.port,
                refresh_time |-> typed.refresh_time]
  BY <1>1 DEF Servers, AsStored
<1> QED
  BY <1>8, <1>17, <1>18

\* What is stored of a logger's form is a setting, and as it is sent when the host fits.
LEMMA StoredServers ==
  ASSUME NEW typed \in ServerSettings
  PROVE  /\ AsStored(typed) \in Servers
         /\ Len(UrlEncoded(typed.server_name)) < NameSize
              => AsStored(typed) = [typed EXCEPT !.server_name = UrlEncoded(typed.server_name)]
<1>1. typed \in Servers /\ typed.server_name \in Texts /\ typed.script_path \in Texts
  BY SettingsAssumption DEF Servers
<1>2. UrlEncoded(typed.server_name) \in Texts
  BY <1>1, EncodedTexts
<1>3. HostSent(typed) \in Texts
  BY <1>1, <1>2, FieldTexts DEF HostSent
<1>4. Len(UrlEncoded(typed.server_name)) < NameSize => HostSent(typed) = UrlEncoded(typed.server_name)
  BY <1>1, <1>2, FieldTexts DEF HostSent
<1>5. AsStored(typed) \in Servers
  BY <1>1, <1>3 DEF AsStored, Servers
<1> QED
  BY <1>4, <1>5 DEF AsStored

\* and the network's.
LEMMA NetFormIsRead ==
  ASSUME NEW addr \in Addresses, NEW mac \in Seq(Bytes), mac # <<>>, NEW dhcp \in BOOLEAN, NEW old
  PROVE  LET form == NetForm([addr |-> addr, mac |-> mac, dhcp |-> dhcp]) IN
         /\ ReadNet(form, "ip", old) = [addr |-> addr, mac |-> MacOf(old), dhcp |-> dhcp]
         /\ ReadNet(form, "pi", old) = [addr |-> addr, mac |-> mac, dhcp |-> dhcp]
<1> DEFINE net == [addr |-> addr, mac |-> mac, dhcp |-> dhcp]
           form == NetForm(net)
           dh == <<"d", "h">>
           tick == Field(dh, On)
           ni == <<"i">>
           nm == <<"m">>
           ns == <<"s">>
           ng == <<"g">>
           nd == <<"d">>
           fi == Field(ni, IpText(addr.i))
           fm == Field(nm, UrlEncoded(MacText(mac)))
           fs == Field(ns, IpText(addr.s))
           fg == Field(ng, IpText(addr.g))
           fd == Field(nd, IpText(addr.d))
           front == <<fi, fm, fs, fg, fd>>
           back == CheckBox(dh, dhcp) \o <<Sid>>
           S == {fi, fm, fs, fg, fd, tick, Sid}
<1>1. /\ addr \in AllAddresses
      /\ \A a \in {"i", "s", "g", "d"} : addr[a] \in Seq(Bytes) /\ addr[a] # <<>>
  BY SettingsAssumption DEF AllAddresses
<1>2. /\ front \in Seq(S) /\ tick \in S /\ Len(front) = 5 /\ <<Sid>> \in Seq(S)
      /\ front[1] = fi /\ front[2] = fm /\ front[3] = fs /\ front[4] = fg /\ front[5] = fd
      /\ CheckBox(dh, dhcp) \in Seq(S)
  <2>1. \A x1, x2, x3, x4, x5 \in S : <<x1, x2, x3, x4, x5>> \in Seq(S) /\ <<x1>> \in Seq(S)
    <3> HIDE DEF S
    <3> QED
      OBVIOUS
  <2>2. fi \in S /\ fm \in S /\ fs \in S /\ fg \in S /\ fd \in S /\ tick \in S /\ Sid \in S
    <3> HIDE DEF fi, fm, fs, fg, fd, tick
    <3> QED
      BY DEF S
  <2>3. CheckBox(dh, dhcp) \in {<<>>, <<tick>>}
    BY DEF CheckBox
  <2> HIDE DEF S, fi, fm, fs, fg, fd, tick
  <2>4. <<>> \in Seq(S)
    OBVIOUS
  <2>5. front \in Seq(S) /\ <<Sid>> \in Seq(S) /\ <<tick>> \in Seq(S)
    BY <2>1, <2>2
  <2>6. CheckBox(dh, dhcp) \in Seq(S)
    BY <2>3, <2>4, <2>5
  <2>7. /\ Len(front) = 5
        /\ front[1] = fi /\ front[2] = fm /\ front[3] = fs /\ front[4] = fg /\ front[5] = fd
    OBVIOUS
  <2> HIDE DEF front
  <2> QED
    BY <2>2, <2>5, <2>6, <2>7
<1>3. Sid.name = <<"s", "i", "d">>
  BY DEF Sid, Field
<1>4. /\ fi.name = ni /\ fi.value = IpText(addr.i)
      /\ fm.name = nm /\ fm.value = UrlEncoded(MacText(mac))
      /\ fs.name = ns /\ fs.value = IpText(addr.s)
      /\ fg.name = ng /\ fg.value = IpText(addr.g)
      /\ fd.name = nd /\ fd.value = IpText(addr.d)
  BY DEF Field
<1>5. /\ dh \in Names /\ Sid.name \in Names
      /\ ni \in Names /\ nm \in Names /\ ns \in Names /\ ng \in Names /\ nd \in Names
  BY <1>3 DEF Names
<1>6. /\ IsSuffix(dh, dh)
      /\ IsSuffix(ni, ni) /\ IsSuffix(nm, nm) /\ IsSuffix(ns, ns) /\ IsSuffix(ng, ng) /\ IsSuffix(nd, nd)
  BY <1>5, NamesAreTexts
<1>7. /\ ~IsSuffix(dh, Sid.name)
      /\ ~IsSuffix(dh, ni) /\ ~IsSuffix(dh, nm) /\ ~IsSuffix(dh, ns) /\ ~IsSuffix(dh, ng) /\ ~IsSuffix(dh, nd)
  <2>1. ~IsSuffix(dh, Sid.name)
    <3> DEFINE sd == Sid.name
    <3>1. sd \in Names /\ Len(sd) = 3 /\ sd[3] = "d"
      BY <1>3, <1>5
    <3> HIDE DEF sd
    <3>2. IsSuffix(dh, sd) => sd[Len(sd)] = "h"
      BY <3>1, OtherNames
    <3> QED
      BY <3>1, <3>2 DEF sd
  <2>2. ~IsSuffix(dh, ni)
    BY <1>5, OtherNames
  <2>3. ~IsSuffix(dh, nm)
    BY <1>5, OtherNames
  <2>4. ~IsSuffix(dh, ns)
    BY <1>5, OtherNames
  <2>5. ~IsSuffix(dh, ng)
    BY <1>5, OtherNames
  <2>6. ~IsSuffix(dh, nd)
    BY <1>5, OtherNames
  <2> QED
    BY <2>1, <2>2, <2>3, <2>4, <2>5, <2>6
<1>8. /\ ~IsSuffix(nm, ni)
      /\ ~IsSuffix(ns, ni)
      /\ ~IsSuffix(ns, nm)
      /\ ~IsSuffix(ng, ni)
      /\ ~IsSuffix(ng, nm)
      /\ ~IsSuffix(ng, ns)
      /\ ~IsSuffix(nd, ni)
      /\ ~IsSuffix(nd, nm)
      /\ ~IsSuffix(nd, ns)
      /\ ~IsSuffix(nd, ng)
  <2>1. ~IsSuffix(nm, ni)
    BY <1>5, OtherNames
  <2>2. ~IsSuffix(ns, ni)
    BY <1>5, OtherNames
  <2>3. ~IsSuffix(ns, nm)
    BY <1>5, OtherNames
  <2>4. ~IsSuffix(ng, ni)
    BY <1>5, OtherNames
  <2>5. ~IsSuffix(ng, nm)
    BY <1>5, OtherNames
  <2>6. ~IsSuffix(ng, ns)
    BY <1>5, OtherNames
  <2>7. ~IsSuffix(nd, ni)
    BY <1>5, OtherNames
  <2>8. ~IsSuffix(nd, nm)
    BY <1>5, OtherNames
  <2>9. ~IsSuffix(nd, ns)
    BY <1>5, OtherNames
  <2>10. ~IsSuffix(nd, ng)
    BY <1>5, OtherNames
  <2> QED
    BY <2>1, <2>2, <2>3, <2>4, <2>5, <2>6, <2>7, <2>8, <2>9, <2>10
<1>9. back \in Seq(S) /\ form = front \o back
  <2>1. form = (front \o CheckBox(dh, dhcp)) \o <<Sid>>
    BY DEF NetForm
  <2> DEFINE tk == CheckBox(dh, dhcp)
             sd == <<Sid>>
  <2>2. tk \in Seq(S) /\ sd \in Seq(S) /\ front \in Seq(S)
    BY <1>2
  <2> HIDE DEF S, front, tk, sd
  <2>3. tk \o sd \in Seq(S) /\ (front \o tk) \o sd = front \o (tk \o sd)
    BY <2>2, ConcatAssociative, ConcatProperties
  <2> QED
    BY <2>1, <2>3 DEF tk, sd, front
<1>a. back = CheckBox(dh, dhcp) \o <<Sid>> /\ tick = Field(dh, On)
  OBVIOUS
<1> HIDE DEF net, form, dh, tick, ni, nm, ns, ng, nd, fi, fm, fs, fg, fd, front, back, S
<1>10. findstr(form, ni) = IpText(addr.i)
  <2> DEFINE k == 1
  <2>1. k \in 1..Len(front) /\ Named(ni, front[k]) /\ front[k].value = IpText(addr.i)
    BY <1>2, <1>4, <1>6 DEF Named
  <2>2. \A j \in 1..(k - 1) : ~Named(ni, front[j])
    BY <1>2, <1>4, <1>8 DEF Named
  <2> HIDE DEF k
  <2>3. findstr(front \o back, ni) = front[k].value
    BY <1>2, <1>9, <2>1, <2>2, FoundInFront
  <2> QED
    BY <1>9, <2>1, <2>3
<1>11. findstr(form, nm) = UrlEncoded(MacText(mac))
  <2> DEFINE k == 2
  <2>1. k \in 1..Len(front) /\ Named(nm, front[k]) /\ front[k].value = UrlEncoded(MacText(mac))
    BY <1>2, <1>4, <1>6 DEF Named
  <2>2. \A j \in 1..(k - 1) : ~Named(nm, front[j])
    BY <1>2, <1>4, <1>8 DEF Named
  <2> HIDE DEF k
  <2>3. findstr(front \o back, nm) = front[k].value
    BY <1>2, <1>9, <2>1, <2>2, FoundInFront
  <2> QED
    BY <1>9, <2>1, <2>3
<1>12. findstr(form, ns) = IpText(addr.s)
  <2> DEFINE k == 3
  <2>1. k \in 1..Len(front) /\ Named(ns, front[k]) /\ front[k].value = IpText(addr.s)
    BY <1>2, <1>4, <1>6 DEF Named
  <2>2. \A j \in 1..(k - 1) : ~Named(ns, front[j])
    BY <1>2, <1>4, <1>8 DEF Named
  <2> HIDE DEF k
  <2>3. findstr(front \o back, ns) = front[k].value
    BY <1>2, <1>9, <2>1, <2>2, FoundInFront
  <2> QED
    BY <1>9, <2>1, <2>3
<1>13. findstr(form, ng) = IpText(addr.g)
  <2> DEFINE k == 4
  <2>1. k \in 1..Len(front) /\ Named(ng, front[k]) /\ front[k].value = IpText(addr.g)
    BY <1>2, <1>4, <1>6 DEF Named
  <2>2. \A j \in 1..(k - 1) : ~Named(ng, front[j])
    BY <1>2, <1>4, <1>8 DEF Named
  <2> HIDE DEF k
  <2>3. findstr(front \o back, ng) = front[k].value
    BY <1>2, <1>9, <2>1, <2>2, FoundInFront
  <2> QED
    BY <1>9, <2>1, <2>3
<1>14. findstr(form, nd) = IpText(addr.d)
  <2> DEFINE k == 5
  <2>1. k \in 1..Len(front) /\ Named(nd, front[k]) /\ front[k].value = IpText(addr.d)
    BY <1>2, <1>4, <1>6 DEF Named
  <2>2. \A j \in 1..(k - 1) : ~Named(nd, front[j])
    BY <1>2, <1>4, <1>8 DEF Named
  <2> HIDE DEF k
  <2>3. findstr(front \o back, nd) = front[k].value
    BY <1>2, <1>9, <2>1, <2>2, FoundInFront
  <2> QED
    BY <1>9, <2>1, <2>3
<1>15. IsOn(findstr(form, dh)) = dhcp
  <2>1. \A j \in 1..Len(front) : ~Named(dh, front[j])
    BY <1>2, <1>4, <1>7 DEF Named
  <2>2. findstr(front \o back, dh) = findstr(back, dh)
    BY <1>2, <1>9, <2>1, FoundBehind
  <2> DEFINE tail == <<Sid>>
  <2>3. tail \in Seq(S) /\ \A j \in 1..Len(tail) : ~Named(dh, tail[j])
    BY <1>2, <1>7 DEF Named
  <2>4. back = CheckBox(dh, dhcp) \o tail
    BY <1>a
  <2> HIDE DEF tail
  <2>5. IsOn(findstr(back, dh)) = dhcp
    BY <1>2, <1>6, <1>a, <2>3, <2>4, TickIsFound
  <2> QED
    BY <1>9, <2>2, <2>5
<1>16. DOMAIN PartOfAddress = {"i", "s", "g", "d"}
  BY DEF PartOfAddress
<1>17. \A a \in {"i", "s", "g", "d"} : data_get(findstr(form, PartOfAddress[a]), ".", 10) = addr[a]
  <2>1. /\ PartOfAddress["i"] = ni /\ PartOfAddress["s"] = ns
        /\ PartOfAddress["g"] = ng /\ PartOfAddress["d"] = nd
    BY DEF PartOfAddress, ni, ns, ng, nd
  <2>2. \A a \in {"i", "s", "g", "d"} : data_get(IpText(addr[a]), ".", 10) = addr[a]
    BY <1>1, IpIsRead
  <2> QED
    BY <1>10, <1>12, <1>13, <1>14, <2>1, <2>2
<1>18. [a \in DOMAIN PartOfAddress |-> data_get(findstr(form, PartOfAddress[a]), ".", 10)] = addr
  <2>1. addr = [a \in {"i", "s", "g", "d"} |-> addr[a]]
    BY <1>1 DEF AllAddresses
  <2> QED
    BY <1>16, <1>17, <2>1
<1>19. data_get(urldecode(findstr(form, nm)), ":", 16) = mac
  BY <1>11, EscapedMacIsRead
<1>20. ReadNet(form, "ip", old) = [addr |-> addr, mac |-> MacOf(old), dhcp |-> dhcp]
  BY <1>15, <1>18 DEF ReadNet, dh
<1>21. ReadNet(form, "pi", old) = [addr |-> addr, mac |-> mac, dhcp |-> dhcp]
  BY <1>15, <1>18, <1>19 DEF ReadNet, dh, nm
<1> QED
  BY <1>20, <1>21 DEF form, net

-------------------------------------------------------------------------------
(* The blocks and what they promise.                                           *)

\* No setting is an interruption's trace, or none.
LEMMA SettingsAreNoTraces ==
  /\ \A b \in Blocks : ValuesOf(b) \cap (Holes \cup {Unset}) = {}
  /\ \A text \in Texts : text \notin Holes
  /\ \A server \in Servers : server \notin Holes
  /\ \A net \in Nets : net \notin Holes
  /\ Unset \notin Holes
<1>1. \A b \in Blocks : ValuesOf(b) \cap (Holes \cup {Unset}) = {}
  BY HolesAssumption
<1>2. /\ "pass" \in Blocks /\ "net" \in Blocks /\ "log1" \in Blocks
      /\ ValuesOf("pass") = Texts /\ ValuesOf("net") = Nets
      /\ ValuesOf("log1") = Servers
  BY DEF Blocks, ValuesOf, Loggers
<1> QED
  BY <1>1, <1>2, HolesAssumption

LEMMA DefaultsAreSettings ==
  /\ DefPassword \notin Holes /\ DefServer1 \notin Holes /\ DefServer2 \notin Holes
  /\ DefNet \in Nets
<1>1. /\ Default("pass") = DefPassword /\ Default("log1") = DefServer1
      /\ Default("log2") = DefServer2 /\ Default("net") = DefNet
      /\ {"pass", "log1", "log2", "net"} \subseteq Blocks
      /\ ValuesOf("net") = Nets /\ ValuesOf("pass") = Texts
  BY DEF Default, Blocks, Loggers, ValuesOf
<1> QED
  BY <1>1, SettingsAssumption, SettingsAreNoTraces

Vital == {"pass"} \cup Loggers

\* Once written to its end a block is never again Erased or Ragged.
Written(b) == eeprom[b] \notin {Erased, Ragged}

\* The writes to come, after which a block that is written has a setting; the block of
\* the mark comes behind the vital ones that are not written yet.
Orderly(writes) ==
  /\ \E S : writes \in Seq(S)
  /\ \A i \in 1..Len(writes) :
       /\ writes[i].block \in Vital => writes[i].value \notin {Erased, Ragged}
       /\ writes[i].block = "net" =>
            \A b \in Vital : Written(b) \/ \E j \in 1..(i - 1) : writes[j].block = b

Marked == {"password", "lease", "up", "writing", "restart"}

IInv ==
  /\ DOMAIN eeprom = Blocks
  /\ mark \in BOOLEAN
  /\ mark => \A b \in Vital : Written(b)
  /\ Orderly(todo)
  /\ phase = "writing" <=> todo # <<>>
  /\ after # "writing"
  /\ phase \in Marked => mark \/ \E i \in 1..Len(todo) : todo[i].block = "net"

LEMMA InitIInv == Init => IInv
<1> SUFFICES ASSUME Init PROVE IInv
  OBVIOUS
<1>1. DOMAIN eeprom = Blocks /\ mark = FALSE /\ todo = <<>> /\ phase = "off" /\ after = "off"
  BY DEF Init
<1>2. <<>> \in Seq({})
  OBVIOUS
<1>3. Orderly(todo)
  BY <1>1, <1>2 DEF Orderly
<1> QED
  BY <1>1, <1>3 DEF IInv, Marked

LEMMA IInvIsMarkMeansWritten == IInv => MarkMeansWritten
BY DEF IInv, MarkMeansWritten, Vital, Written

\* The defaults are written with the block of the mark behind the vital ones.
LEMMA DefaultsAreOrderly ==
  ASSUME NEW net
  PROVE  /\ Orderly(DefaultWrites(net))
         /\ DefaultWrites(net) # <<>>
         /\ \E i \in 1..Len(DefaultWrites(net)) : DefaultWrites(net)[i].block = "net"
<1> DEFINE head == <<Write("pass", DefPassword, "defaults"), Write("log1", DefServer1, "defaults"),
                     Write("log2", DefServer2, "defaults"), Write("net", net, "defaults")>>
           rows == [n \in DOMAIN RowOrder |-> Write(RowOrder[n], DefRow, "defaults")]
           all  == DefaultWrites(net)
           S    == {head[i] : i \in 1..4} \cup {rows[n] : n \in DOMAIN RowOrder}
<1>1. RowOrder \in Seq(Rows) /\ \A n \in 1..Len(RowOrder) : RowOrder[n] \in Rows
  BY BlocksAssumption
<1>2. rows \in Seq(S) /\ Len(rows) = Len(RowOrder)
      /\ \A n \in 1..Len(RowOrder) : rows[n] = Write(RowOrder[n], DefRow, "defaults")
  BY <1>1
<1>3. head \in Seq(S) /\ Len(head) = 4
  OBVIOUS
<1>4. all = head \o rows
  BY DEF DefaultWrites
<1>5. /\ head[1] = Write("pass", DefPassword, "defaults")
      /\ head[2] = Write("log1", DefServer1, "defaults")
      /\ head[3] = Write("log2", DefServer2, "defaults")
      /\ head[4] = Write("net", net, "defaults")
  OBVIOUS
<1> HIDE DEF head, rows, all, S
<1>6. /\ all \in Seq(S) /\ Len(all) = 4 + Len(RowOrder)
      /\ \A i \in 1..4 + Len(RowOrder) : all[i] = IF i <= 4 THEN head[i] ELSE rows[i - 4]
  <2>1. head \in Seq(S) /\ rows \in Seq(S)
    BY <1>2, <1>3
  <2>2. head \o rows \in Seq(S)
    BY <2>1, ConcatProperties
  <2>3. Len(head \o rows) = Len(head) + Len(rows)
    BY <2>1, ConcatProperties
  <2>4. \A i \in 1..Len(head) + Len(rows) :
          (head \o rows)[i] = IF i <= Len(head) THEN head[i] ELSE rows[i - Len(head)]
    BY <2>1, ConcatProperties
  <2> QED
    BY <2>2, <2>3, <2>4, <1>2, <1>3, <1>4
<1>7. \A i \in 1..4 : all[i] = head[i]
  BY <1>1, <1>6
<1>8. \A i \in 1..Len(all) : i > 4 => \E n \in 1..Len(RowOrder) : all[i] = rows[n]
  <2> SUFFICES ASSUME NEW i \in 1..Len(all), i > 4
               PROVE  \E n \in 1..Len(RowOrder) : all[i] = rows[n]
    OBVIOUS
  <2>1. i - 4 \in 1..Len(RowOrder) /\ all[i] = rows[i - 4]
    BY <1>1, <1>6
  <2> QED
    BY <2>1
<1>9. \A i \in 1..Len(all) : i > 4 => all[i].block \in Rows
  <2> SUFFICES ASSUME NEW i \in 1..Len(all), i > 4 PROVE all[i].block \in Rows
    OBVIOUS
  <2>1. PICK n \in 1..Len(RowOrder) : all[i] = rows[n]
    BY <1>8
  <2>2. all[i] = Write(RowOrder[n], DefRow, "defaults")
    BY <1>2, <2>1
  <2>3. Write(RowOrder[n], DefRow, "defaults").block = RowOrder[n]
    BY DEF Write
  <2> QED
    BY <1>1, <2>2, <2>3
<1>10. /\ all[1].block = "pass" /\ all[1].value = DefPassword
       /\ all[2].block = "log1" /\ all[2].value = DefServer1
       /\ all[3].block = "log2" /\ all[3].value = DefServer2
       /\ all[4].block = "net"
  BY <1>5, <1>7 DEF Write
<1>11. ASSUME NEW i \in 1..Len(all), all[i].block \in Vital
       PROVE  all[i].value \notin {Erased, Ragged}
  <2>1. i \in 1..3
    BY <1>6, <1>9, <1>10, <1>11, BlocksAssumption DEF Vital, Loggers
  <2> QED
    BY <2>1, <1>10, DefaultsAreSettings DEF Holes
<1>12. ASSUME NEW i \in 1..Len(all), all[i].block = "net", NEW b \in Vital
       PROVE  \E j \in 1..(i - 1) : all[j].block = b
  <2>1. i = 4
    BY <1>6, <1>9, <1>10, <1>12, BlocksAssumption
  <2> QED
    BY <2>1, <1>10 DEF Vital, Loggers
<1>13. Orderly(all)
  BY <1>6, <1>11, <1>12 DEF Orderly
<1>14. all # <<>> /\ 4 \in 1..Len(all)
  BY <1>1, <1>6
<1> QED
  BY <1>10, <1>13, <1>14 DEF all

\* One write alone is orderly, for the mark if the vital blocks are written.
LEMMA OneWriteIsOrderly ==
  ASSUME NEW w,
         w.block \in Vital => w.value \notin {Erased, Ragged},
         w.block = "net" => \A b \in Vital : Written(b)
  PROVE  Orderly(<<w>>)
<1> DEFINE one == <<w>>
<1>1. one \in Seq({w}) /\ Len(one) = 1 /\ one[1] = w
  OBVIOUS
<1> HIDE DEF one
<1>2. \A i \in 1..Len(one) : one[i] = w
  BY <1>1
<1>3. Orderly(one)
  BY <1>1, <1>2 DEF Orderly
<1> QED
  BY <1>3 DEF one

\* What is written stays written, and so do the writes to come stay orderly.
LEMMA OrderlyStays ==
  ASSUME NEW writes, Orderly(writes), \A b \in Vital : Written(b) => Written(b)'
  PROVE  Orderly(writes)'
BY DEF Orderly

LEMMA BeginBlockStep == IInv /\ BeginBlock => IInv'
<1> SUFFICES ASSUME IInv, BeginBlock PROVE IInv'
  OBVIOUS
<1> DEFINE w == Head(todo)
<1>1. /\ DOMAIN eeprom = Blocks /\ Orderly(todo) /\ phase = "writing" /\ todo # <<>>
      /\ UNCHANGED <<phase, todo, after>>
  BY DEF IInv, BeginBlock
<1>2. PICK S : todo \in Seq(S)
  BY <1>1 DEF Orderly
<1>3. Len(todo) > 0 /\ w = todo[1]
  BY <1>1, <1>2
<1>4. \/ UNCHANGED <<eeprom, mark>>
      \/ /\ eeprom' = [eeprom EXCEPT ![w.block] = IF @ \in {Erased, Ragged} THEN Ragged ELSE Mixed]
         /\ \/ mark' = mark
            \/ w.block = "net" /\ mark' \in BOOLEAN
  BY DEF BeginBlock
<1>5. DOMAIN eeprom' = Blocks /\ \A b \in Vital : Written(b) => Written(b)'
  BY <1>1, <1>4, HolesAssumption DEF Written, Vital, Blocks
<1>6. w.block = "net" => \A b \in Vital : Written(b)
  BY <1>1, <1>3 DEF Orderly
<1>7. mark' \in BOOLEAN /\ (mark' => \A b \in Vital : Written(b)')
  <2>1. CASE mark' = mark
    BY <2>1, <1>5 DEF IInv
  <2>2. CASE w.block = "net" /\ mark' \in BOOLEAN
    BY <2>2, <1>5, <1>6
  <2> QED
    BY <1>4, <2>1, <2>2
<1>8. Orderly(todo)'
  BY <1>1, <1>5, OrderlyStays
<1>9. mark' \/ \E i \in 1..Len(todo) : todo[i].block = "net"
  <2>1. CASE mark' = mark
    BY <2>1, <1>1 DEF IInv, Marked
  <2>2. CASE w.block = "net"
    <3>1. 1 \in 1..Len(todo)
      BY <1>2, <1>3
    <3> QED
      BY <2>2, <1>3, <3>1
  <2> QED
    BY <1>4, <2>1, <2>2
<1> QED
  BY <1>1, <1>5, <1>7, <1>8, <1>9 DEF IInv

LEMMA EndBlockStep == IInv /\ EndBlock => IInv'
<1> SUFFICES ASSUME IInv, EndBlock PROVE IInv'
  OBVIOUS
<1> DEFINE w == Head(todo)
<1>1. /\ DOMAIN eeprom = Blocks /\ Orderly(todo) /\ phase = "writing" /\ todo # <<>>
      /\ todo' = Tail(todo)
  BY DEF IInv, EndBlock
<1>2. PICK S : todo \in Seq(S)
  BY <1>1 DEF Orderly
<1>3. /\ Len(todo) > 0 /\ w = todo[1]
      /\ todo' \in Seq(S) /\ Len(todo') = Len(todo) - 1
      /\ \A i \in 1..Len(todo') : todo'[i] = todo[i + 1]
  BY <1>1, <1>2
<1>4. /\ eeprom' = [eeprom EXCEPT ![w.block] = w.value]
      /\ mark' = IF w.block = "net" THEN TRUE ELSE mark
  BY DEF EndBlock
<1>5. w.block \in Vital => w.value \notin {Erased, Ragged}
  BY <1>1, <1>2, <1>3 DEF Orderly
<1>6. /\ DOMAIN eeprom' = Blocks
      /\ \A b \in Vital : (Written(b) \/ w.block = b) => Written(b)'
  BY <1>1, <1>4, <1>5 DEF Written, Vital, Blocks
<1>7. mark' \in BOOLEAN /\ (mark' => \A b \in Vital : Written(b)')
  <2>1. CASE w.block = "net"
    <3>1. \A b \in Vital : Written(b)
      BY <2>1, <1>1, <1>2, <1>3 DEF Orderly
    <3> QED
      BY <2>1, <3>1, <1>4, <1>6
  <2>2. CASE w.block # "net"
    BY <2>2, <1>4, <1>6 DEF IInv
  <2> QED
    BY <2>1, <2>2
<1>8. Orderly(todo)'
  <2>1. ASSUME NEW i \in 1..Len(todo')
        PROVE  /\ todo'[i].block \in Vital => todo'[i].value \notin {Erased, Ragged}
               /\ todo'[i].block = "net" =>
                    \A b \in Vital : Written(b)' \/ \E j \in 1..(i - 1) : todo'[j].block = b
    <3>1. i + 1 \in 1..Len(todo) /\ todo'[i] = todo[i + 1]
      BY <1>2, <1>3
    <3>2. todo'[i].block \in Vital => todo'[i].value \notin {Erased, Ragged}
      BY <1>1, <3>1 DEF Orderly
    <3>3. ASSUME todo'[i].block = "net", NEW b \in Vital, ~Written(b)'
          PROVE  \E j \in 1..(i - 1) : todo'[j].block = b
      <4>1. ~Written(b) /\ w.block # b
        BY <1>6, <3>3
      <4>2. PICK j \in 1..i : todo[j].block = b
        BY <1>1, <3>1, <3>3, <4>1 DEF Orderly
      <4>3. j - 1 \in 1..(i - 1) /\ todo'[j - 1] = todo[j]
        BY <1>2, <1>3, <4>1, <4>2
      <4> QED
        BY <4>2, <4>3
    <3> QED
      BY <3>2, <3>3
  <2> QED
    BY <2>1, <1>3 DEF Orderly
<1>9. mark' \/ \E i \in 1..Len(todo') : todo'[i].block = "net"
  <2>1. mark \/ \E i \in 1..Len(todo) : todo[i].block = "net"
    BY <1>1 DEF IInv, Marked
  <2>2. CASE mark \/ w.block = "net"
    BY <2>2, <1>4
  <2>3. CASE ~(mark \/ w.block = "net")
    <3>1. PICK i \in 1..Len(todo) : todo[i].block = "net"
      BY <2>1, <2>3
    <3>2. i - 1 \in 1..Len(todo') /\ todo'[i - 1] = todo[i]
      BY <1>2, <1>3, <2>3, <3>1
    <3> QED
      BY <3>1, <3>2
  <2> QED
    BY <2>2, <2>3
<1>10. (phase' = "writing" <=> todo' # <<>>) /\ after' # "writing"
  BY <1>1 DEF EndBlock, IInv
<1> QED
  BY <1>6, <1>7, <1>8, <1>9, <1>10 DEF IInv

\* A step that begins to write.
LEMMA BeginsToWrite ==
  ASSUME IInv, UNCHANGED <<eeprom, mark>>, phase' = "writing", after' # "writing",
         Orderly(todo'), todo' # <<>>,
         mark \/ \E i \in 1..Len(todo') : todo'[i].block = "net"
  PROVE  IInv'
<1>1. Orderly(todo)' /\ \A b \in Vital : Written(b)' <=> Written(b)
  BY DEF Orderly, Written
<1> QED
  BY <1>1 DEF IInv

\* A step that neither begins to write nor writes.
LEMMA DoesNotWrite ==
  ASSUME IInv, UNCHANGED <<eeprom, mark, todo, after>>, phase' # "writing", phase # "writing",
         phase' \in Marked => mark \/ phase \in Marked
  PROVE  IInv'
<1>1. Orderly(todo)' /\ \A b \in Vital : Written(b)' <=> Written(b)
  BY DEF Orderly, Written, IInv
<1> QED
  BY <1>1 DEF IInv

LEMMA BootStep ==
  ASSUME IInv,
         PowerOn \/ (\E held \in BOOLEAN : Button(held)) \/ SetConfig \/ ReadPassword \/ Lease \/ GoApp
  PROVE  IInv'
<1>1. CASE PowerOn \/ ReadPassword \/ Lease \/ GoApp
  <2>1. phase' # "writing" /\ phase # "writing" /\ (phase' \in Marked => phase \in Marked)
    BY <1>1 DEF PowerOn, ReadPassword, Lease, GoApp, Marked
  <2>2. UNCHANGED <<eeprom, mark, todo>> /\ (UNCHANGED after)
    BY <1>1 DEF PowerOn, ReadPassword, Lease, GoApp, stable
  <2> QED
    BY <2>1, <2>2, DoesNotWrite
<1>2. ASSUME NEW held \in BOOLEAN, Button(held) PROVE IInv'
  <2>1. CASE held
    <3>1. /\ UNCHANGED <<eeprom, mark>> /\ phase' = "writing" /\ after' = "config"
          /\ todo' = DefaultWrites(DefNet)
      BY <1>2, <2>1 DEF Button, default_network
    <3> QED
      BY <3>1, DefaultsAreOrderly, BeginsToWrite
  <2>2. CASE ~held
    BY <1>2, <2>2, DoesNotWrite DEF Button, Marked
  <2> QED
    BY <2>1, <2>2
<1>3. CASE SetConfig
  <2>1. CASE mark
    BY <1>3, <2>1, DoesNotWrite DEF SetConfig
  <2>2. CASE ~mark
    <3>1. /\ UNCHANGED <<eeprom, mark>> /\ phase' = "writing" /\ after' = "password"
          /\ todo' = DefaultWrites(DefNet)
      BY <1>3, <2>2 DEF SetConfig, default_network
    <3> QED
      BY <3>1, DefaultsAreOrderly, BeginsToWrite
  <2> QED
    BY <2>1, <2>2
<1> QED
  BY <1>1, <1>2, <1>3

LEMMA PowerCutStep == IInv /\ PowerCut => IInv'
<1> SUFFICES ASSUME IInv, PowerCut PROVE IInv'
  OBVIOUS
<1>1. UNCHANGED <<eeprom, mark>> /\ phase' = "off" /\ todo' = <<>> /\ after' = "off"
  BY DEF PowerCut, stable
<1>2. <<>> \in Seq({}) /\ Len(<<>>) = 0
  OBVIOUS
<1>3. Orderly(todo)' /\ \A b \in Vital : Written(b)' <=> Written(b)
  BY <1>1, <1>2 DEF Orderly, Written
<1> QED
  BY <1>1, <1>3 DEF IInv, Marked

\* In the main loop the board has its mark.
LEMMA MarkedWhenUp ==
  ASSUME IInv, phase = "up"
  PROVE  mark /\ \A b \in Vital : Written(b)
<1>1. todo = <<>>
  BY DEF IInv
<1>2. \A i \in 1..Len(todo) : FALSE
  BY <1>1
<1>3. mark
  BY <1>2 DEF IInv, Marked
<1> QED
  BY <1>3 DEF IInv

\* A request that writes one block.
LEMMA OneBlockRequest ==
  ASSUME IInv, phase = "up", NEW w, NEW changed, NEW new, NEW next \in {"up", "restart"},
         Request(changed, new, <<w>>, next),
         w.block \in Vital => w.value \notin {Erased, Ragged}
  PROVE  IInv'
<1>1. UNCHANGED <<eeprom, mark>> /\ phase' = "writing" /\ after' # "writing" /\ todo' = <<w>>
  BY DEF Request
<1>2. Orderly(<<w>>)
  BY MarkedWhenUp, OneWriteIsOrderly
<1>3. <<w>> # <<>>
  OBVIOUS
<1> QED
  BY <1>1, <1>2, <1>3, MarkedWhenUp, BeginsToWrite

LEMMA WriteFields ==
  ASSUME NEW b, NEW value, NEW job
  PROVE  /\ Write(b, value, job).block = b /\ Write(b, value, job).value = value
         /\ WriteInFull(b, value).block = b /\ WriteInFull(b, value).value = value
BY DEF Write, WriteInFull

LEMMA RequestsStep == IInv /\ Requests => IInv'
<1> SUFFICES ASSUME IInv, Requests PROVE IInv'
  OBVIOUS
<1>1. phase = "up"
  BY DEF Requests
<1>2. ASSUME NEW new \in Passwords, SavePassword(new) PROVE IInv'
  <2> DEFINE kept == Kept(UrlEncoded(new))
             w == WriteInFull("pass", kept)
  <2>1. w.value = kept /\ kept \notin {Erased, Ragged}
    <3>1. kept \in Texts
      BY SettingsAssumption, EncodedTexts, FieldTexts
    <3> QED
      BY <3>1, WriteFields, SettingsAreNoTraces DEF Holes
  <2>2. Request({"pass"}, [Nothing EXCEPT !["pass"] = IfItFits(new, new, PasswordSize)], <<w>>, "up")
    BY <1>2, PasswordFormIsRead DEF SavePassword
  <2> HIDE DEF w
  <2> QED
    BY <1>1, <2>1, <2>2, OneBlockRequest
<1>3. ASSUME NEW l \in Loggers, NEW typed \in ServerSettings, SaveLogger(l, typed) PROVE IInv'
  <2> DEFINE w == Write(BlockOf(l), ReadServer(ServerForm(typed)), "page")
  <2>1. w.value \notin {Erased, Ragged}
    BY WriteFields, ServerFormIsRead, StoredServers, SettingsAreNoTraces DEF Holes
  <2>2. Request({l}, [Nothing EXCEPT ![l] = IfItFits(typed, typed.server_name, NameSize)], <<w>>, "up")
    BY <1>3 DEF SaveLogger
  <2> HIDE DEF w
  <2> QED
    BY <1>1, <2>1, <2>2, OneBlockRequest
<1>4. ASSUME NEW r \in Rows, NEW typed \in RowSettings, SaveRow(r, typed) PROVE IInv'
  <2> DEFINE w == WriteInFull(r, ReadRow(RowForm(typed)))
  <2>1. w.block \notin Vital
    BY WriteFields, BlocksAssumption DEF Vital
  <2>2. Request({r}, [Nothing EXCEPT ![r] = typed], <<w>>, "up")
    BY <1>4 DEF SaveRow
  <2> HIDE DEF w
  <2> QED
    BY <1>1, <2>1, <2>2, OneBlockRequest
<1>5. ASSUME NEW page, NEW typed, SaveNet(page, typed) PROVE IInv'
  <2> DEFINE w == Write("net", ReadNet(NetForm(typed), page, ram["net"]), "page")
  <2>1. w.block \notin Vital
    BY WriteFields DEF Vital, Loggers
  <2>2. PICK changed, new : Request(changed, new, <<w>>, "restart")
    BY <1>5 DEF SaveNet
  <2> HIDE DEF w
  <2> QED
    BY <1>1, <2>1, <2>2, OneBlockRequest
<1>6. ASSUME NEW addr, SETQ(addr) PROVE IInv'
  <2>1. PICK changed, new, net : Request(changed, new, <<Write("net", net, "udp")>>, "restart")
    BY <1>6 DEF SETQ
  <2> DEFINE w == Write("net", net, "udp")
  <2>2. w.block \notin Vital
    BY WriteFields DEF Vital, Loggers
  <2>3. Request(changed, new, <<w>>, "restart")
    BY <2>1
  <2> HIDE DEF w
  <2> QED
    BY <1>1, <2>2, <2>3, OneBlockRequest
<1>7. CASE ResetToDefaults
  <2>1. PICK net, changed, new : Request(changed, new, DefaultWrites(net), "restart")
    BY <1>7 DEF ResetToDefaults
  <2>2. /\ UNCHANGED <<eeprom, mark>> /\ phase' = "writing" /\ after' # "writing"
        /\ todo' = DefaultWrites(net)
    BY <2>1 DEF Request
  <2> QED
    BY <2>2, DefaultsAreOrderly, BeginsToWrite
<1> QED
  BY <1>2, <1>3, <1>4, <1>5, <1>6, <1>7 DEF Requests

LEMMA NextIInv == IInv /\ [Next]_vars => IInv'
<1> SUFFICES ASSUME IInv, [Next]_vars PROVE IInv'
  OBVIOUS
<1>1. CASE UNCHANGED vars
  <2>1. UNCHANGED <<phase, eeprom, mark, todo, after>>
    BY <1>1 DEF vars, stable
  <2> QED
    BY <2>1 DEF IInv, Orderly, Written, Marked
<1> QED
  BY <1>1, BootStep, BeginBlockStep, EndBlockStep, PowerCutStep, RequestsStep DEF Next

\* With its mark the board has a password and two loggers' settings, wherever the first
\* start, a save or a reset to the defaults is interrupted (task_config.c:238-280,
\* main.c, protocol.c): the block of the mark is the last of them to be written.
THEOREM MarkAlwaysMeansWritten == Spec => []MarkMeansWritten
BY InitIInv, NextIInv, IInvIsMarkMeansWritten, PTL DEF Spec

-------------------------------------------------------------------------------
(* What is saved stays saved, and RAM follows it.                              *)

\* The block that holds an item, and whether what the block holds is as promised.
Home(i) == IF i = "mac" THEN "net" ELSE i
HoldsIn(value, i, content) ==
  CASE i = "mac" -> content \notin Holes /\ content.mac = value
    [] i = "net" -> /\ content \notin Holes
                    /\ content.addr = value.addr /\ content.dhcp = value.dhcp
    [] i = "pass" -> content = UrlEncoded(value)
    [] i \in Loggers -> content = [value EXCEPT !.server_name = UrlEncoded(value.server_name)]
    [] OTHER -> content = value
LEMMA HoldsInCases ==
  /\ \A value, content : HoldsIn(value, "mac", content) <=> content \notin Holes /\ content.mac = value
  /\ \A value, content : HoldsIn(value, "net", content) <=>
       content \notin Holes /\ content.addr = value.addr /\ content.dhcp = value.dhcp
  /\ \A value, content : HoldsIn(value, "pass", content) <=> content = UrlEncoded(value)
  /\ \A value, content : \A l \in Loggers : HoldsIn(value, l, content) <=>
       content = [value EXCEPT !.server_name = UrlEncoded(value.server_name)]
  /\ \A value, content, i : i \notin {"mac", "net", "pass"} \cup Loggers =>
       (HoldsIn(value, i, content) <=> content = value)
<1>1. "mac" \notin Loggers /\ "net" \notin Loggers /\ "pass" \notin Loggers
  BY DEF Loggers
<1>2. \A value, content : HoldsIn(value, "mac", content) <=> content \notin Holes /\ content.mac = value
  BY <1>1 DEF HoldsIn
<1>3. \A value, content : HoldsIn(value, "net", content) <=>
        content \notin Holes /\ content.addr = value.addr /\ content.dhcp = value.dhcp
  BY <1>1 DEF HoldsIn
<1>4. \A value, content : HoldsIn(value, "pass", content) <=> content = UrlEncoded(value)
  BY <1>1 DEF HoldsIn
<1>5. \A value, content : \A l \in Loggers : HoldsIn(value, l, content) <=>
        content = [value EXCEPT !.server_name = UrlEncoded(value.server_name)]
  BY <1>1 DEF HoldsIn
<1>6. \A value, content, i : i \notin {"mac", "net", "pass"} \cup Loggers =>
        (HoldsIn(value, i, content) <=> content = value)
  BY DEF HoldsIn
<1> QED
  BY <1>2, <1>3, <1>4, <1>5, <1>6

\* A write to come: a setting of its block's kind; a page rewrites the mark only in place.
IsWrite(w) ==
  /\ w.block \in Blocks /\ w.value \in ValuesOf(w.block)
  /\ w.job \in {"page", "udp", "defaults"}
  /\ w.block = "net" /\ w.job = "page" => w.kind = "update"

WritesInv ==
  /\ \A w \in ToSet(todo) : IsWrite(w)
  /\ \A w \in ToSet(todo) : w.block = "net" /\ w.job = "page" => mark
  /\ \A v, w \in ToSet(todo) : v.job = w.job
  /\ half => todo # <<>>
  /\ mark <=> lostBy = "none"
  /\ lostBy \in {"none", "new", "defaults", "udp"}

TypesInv ==
  /\ phase \in {"off", "button", "config", "password", "lease", "up", "writing", "restart"}
  /\ after \in {"off", "config", "password", "up", "restart"}
  /\ phase \in {"lease", "up", "restart"} => todo = <<>>
  /\ leased \in BOOLEAN /\ half \in BOOLEAN
  /\ eeprom \in [Blocks -> UNION {ValuesOf(b) \cup Holes : b \in Blocks}]
  /\ ram \in [Blocks -> UNION {ValuesOf(b) \cup Holes \cup {Unset} : b \in Blocks}]
  /\ \A b \in Blocks : eeprom[b] \in ValuesOf(b) \cup Holes
  /\ \A b \in Blocks : ram[b] \in ValuesOf(b) \cup Holes \cup {Unset}

\* What is promised is in its block, which is not to be written; what the request under
\* way will have promised is what it writes.
PromiseInv ==
  /\ DOMAIN promised = Items /\ DOMAIN due = Items
  /\ todo = <<>> => due = Nothing
  /\ \A i \in Items : promised[i] # Unset =>
       /\ HoldsIn(promised[i], i, eeprom[Home(i)])
       /\ \A w \in ToSet(todo) : w.block # Home(i)
  /\ \A i \in Items : due[i] # Unset =>
       /\ \A w \in ToSet(todo) : w.block = Home(i) => HoldsIn(due[i], i, w.value)
       /\ \/ \E w \in ToSet(todo) : w.block = Home(i)
          \/ HoldsIn(due[i], i, eeprom[Home(i)])

\* What is, or will be, in EEPROM is what RAM has, or what the block keeps of it.
Matches(b, content) ==
  \/ content = ram[b]
  \/ b = "pass" /\ ram[b] \in Texts /\ content = Kept(ram[b])

\* RAM and EEPROM agree, but for addresses that are leased.
Agree(b) ==
  \/ Matches(b, eeprom[b])
  \/ /\ b = "net" /\ leased /\ ram[b] \in Nets /\ eeprom[b] \in Nets
     /\ ram[b].mac = eeprom[b].mac /\ ram[b].addr = LeasedAddresses

\* The step of the boot, or the main loop, that goes on when what is to do is done.
ComesTo(p) == phase = p \/ (phase = "writing" /\ after = p)
Followed(b) ==
  /\ \A w \in ToSet(todo) : w.block = b => Matches(b, w.value)
  /\ (\E w \in ToSet(todo) : w.block = b) \/ Agree(b)
RamInv ==
  /\ ComesTo("password") => \A b \in Blocks \ {"pass"} : Followed(b)
  /\ ComesTo("lease") \/ ComesTo("up") => \A b \in Blocks : Followed(b)

SInv == IInv /\ WritesInv /\ TypesInv /\ PromiseInv /\ RamInv

LEMMA Elements ==
  /\ ToSet(<<>>) = {}
  /\ \A w : ToSet(<<w>>) = {w}
  /\ \A S : \A s \in Seq(S) : s # <<>> => ToSet(s) = {Head(s)} \cup ToSet(Tail(s))
<1>1. ToSet(<<>>) = {}
  BY DEF ToSet
<1>2. ASSUME NEW w PROVE ToSet(<<w>>) = {w}
  BY DEF ToSet
<1>3. ASSUME NEW S, NEW s \in Seq(S), s # <<>>
      PROVE  ToSet(s) = {Head(s)} \cup ToSet(Tail(s))
  <2>1. /\ Len(s) \in Nat /\ Len(s) > 0 /\ DOMAIN s = 1..Len(s) /\ Head(s) = s[1]
        /\ DOMAIN Tail(s) = 1..(Len(s) - 1)
        /\ \A i \in 1..(Len(s) - 1) : Tail(s)[i] = s[i + 1]
    BY <1>3
  <2>2. ToSet(s) \subseteq {Head(s)} \cup ToSet(Tail(s))
    <3> SUFFICES ASSUME NEW i \in 1..Len(s), i # 1 PROVE s[i] \in ToSet(Tail(s))
      BY <2>1 DEF ToSet
    <3>1. i - 1 \in 1..(Len(s) - 1) /\ Tail(s)[i - 1] = s[i]
      BY <2>1
    <3> QED
      BY <2>1, <3>1 DEF ToSet
  <2>3. {Head(s)} \cup ToSet(Tail(s)) \subseteq ToSet(s)
    <3>1. 1 \in DOMAIN s /\ \A i \in 1..(Len(s) - 1) : i + 1 \in DOMAIN s
      BY <2>1
    <3> QED
      BY <2>1, <3>1 DEF ToSet
  <2> QED
    BY <2>2, <2>3
<1> QED
  BY <1>1, <1>2, <1>3

LEMMA ElementsOfBoth ==
  ASSUME NEW S, NEW s \in Seq(S), NEW t \in Seq(S)
  PROVE  ToSet(s \o t) = ToSet(s) \cup ToSet(t)
<1>1. /\ s \o t \in Seq(S) /\ Len(s \o t) = Len(s) + Len(t)
      /\ \A i \in 1..Len(s) + Len(t) : (s \o t)[i] = IF i <= Len(s) THEN s[i] ELSE t[i - Len(s)]
  BY ConcatProperties
<1> DEFINE all == s \o t
<1> HIDE DEF all
<1>2. /\ Len(s) \in Nat /\ Len(t) \in Nat /\ DOMAIN s = 1..Len(s) /\ DOMAIN t = 1..Len(t)
      /\ DOMAIN all = 1..Len(s) + Len(t)
  BY <1>1 DEF all
<1>3. ASSUME NEW i \in 1..Len(s) + Len(t) PROVE all[i] \in ToSet(s) \cup ToSet(t)
  <2>1. CASE i <= Len(s)
    BY <1>1, <1>2, <2>1 DEF all, ToSet
  <2>2. CASE i > Len(s)
    <3>1. i - Len(s) \in 1..Len(t) /\ all[i] = t[i - Len(s)]
      BY <1>1, <1>2, <2>2 DEF all
    <3> QED
      BY <1>2, <3>1 DEF ToSet
  <2> QED
    BY <1>2, <2>1, <2>2
<1>4. ASSUME NEW i \in 1..Len(s) PROVE s[i] \in ToSet(all)
  <2>1. i \in DOMAIN all /\ all[i] = s[i]
    BY <1>1, <1>2 DEF all
  <2> QED
    BY <2>1 DEF ToSet
<1>5. ASSUME NEW i \in 1..Len(t) PROVE t[i] \in ToSet(all)
  <2>1. i + Len(s) \in DOMAIN all /\ all[i + Len(s)] = t[i]
    BY <1>1, <1>2 DEF all
  <2> QED
    BY <2>1 DEF ToSet
<1> QED
  BY <1>2, <1>3, <1>4, <1>5 DEF ToSet, all

\* The defaults are settings, and every block gets its own.
LEMMA DefaultWritesAre ==
  ASSUME NEW net \in Nets
  PROVE  /\ \A w \in ToSet(DefaultWrites(net)) :
              /\ w.block \in Blocks /\ w.job = "defaults"
              /\ w.value = IF w.block = "net" THEN net ELSE Default(w.block)
         /\ \A b \in Blocks : \E w \in ToSet(DefaultWrites(net)) : w.block = b
<1> DEFINE head == <<Write("pass", DefPassword, "defaults"), Write("log1", DefServer1, "defaults"),
                     Write("log2", DefServer2, "defaults"), Write("net", net, "defaults")>>
           rows == [n \in DOMAIN RowOrder |-> Write(RowOrder[n], DefRow, "defaults")]
           all  == DefaultWrites(net)
           S    == {head[i] : i \in 1..4} \cup {rows[n] : n \in DOMAIN RowOrder}
<1>1. RowOrder \in Seq(Rows) /\ DOMAIN RowOrder = 1..Len(RowOrder)
      /\ Len(RowOrder) \in Nat /\ Rows = {RowOrder[n] : n \in 1..Len(RowOrder)}
  BY BlocksAssumption DEF Rows, ToSet
<1>2. rows \in Seq(S) /\ Len(rows) = Len(RowOrder)
      /\ \A n \in 1..Len(RowOrder) : rows[n] = Write(RowOrder[n], DefRow, "defaults")
  BY <1>1
<1>3. head \in Seq(S) /\ Len(head) = 4
  OBVIOUS
<1>4. all = head \o rows
  BY DEF DefaultWrites
<1>5. /\ head[1] = Write("pass", DefPassword, "defaults")
      /\ head[2] = Write("log1", DefServer1, "defaults")
      /\ head[3] = Write("log2", DefServer2, "defaults")
      /\ head[4] = Write("net", net, "defaults")
  OBVIOUS
<1> HIDE DEF head, rows, all, S
<1>6. ToSet(all) = ToSet(head) \cup ToSet(rows)
  BY <1>2, <1>3, <1>4, ElementsOfBoth
<1>7. ToSet(head) = {head[1], head[2], head[3], head[4]}
  <2>1. DOMAIN head = 1..4
    BY <1>3
  <2> QED
    BY <2>1 DEF ToSet
<1>8. ToSet(rows) = {Write(r, DefRow, "defaults") : r \in Rows}
  <2>1. DOMAIN rows = 1..Len(RowOrder)
    BY <1>2
  <2> QED
    BY <1>1, <1>2, <2>1 DEF ToSet
<1>9. \A b, v : LET w == Write(b, v, "defaults") IN w.block = b /\ w.value = v /\ w.job = "defaults"
  BY DEF Write
<1>10. ASSUME NEW r \in Rows PROVE Default(r) = DefRow /\ r # "net"
  BY BlocksAssumption DEF Default, Loggers
<1>11. ASSUME NEW w \in ToSet(all)
       PROVE  /\ w.block \in Blocks /\ w.job = "defaults"
              /\ w.value = IF w.block = "net" THEN net ELSE Default(w.block)
  <2>1. CASE w \in ToSet(head)
    BY <2>1, <1>5, <1>7, <1>9 DEF Default, Blocks, Loggers
  <2>2. CASE w \in ToSet(rows)
    <3>1. PICK r \in Rows : w = Write(r, DefRow, "defaults")
      BY <2>2, <1>8
    <3> QED
      BY <3>1, <1>9, <1>10 DEF Blocks
  <2> QED
    BY <1>6, <2>1, <2>2
<1>12. ASSUME NEW b \in Blocks PROVE \E w \in ToSet(all) : w.block = b
  <2>1. CASE b \in Rows
    <3>1. Write(b, DefRow, "defaults") \in ToSet(all)
      BY <1>6, <1>8, <2>1
    <3> QED
      BY <3>1, <1>9
  <2>2. CASE b \in {"pass", "net", "log1", "log2"}
    BY <2>2, <1>5, <1>6, <1>7, <1>9
  <2> QED
    BY <2>1, <2>2 DEF Blocks, Loggers
<1> QED
  BY <1>11, <1>12 DEF all

\* The parts of todo, when there is something to write.
LEMMA FirstWrite ==
  ASSUME IInv, todo # <<>>
  PROVE  /\ Head(todo) \in ToSet(todo)
         /\ ToSet(todo) = {Head(todo)} \cup ToSet(Tail(todo))
<1>1. PICK S : todo \in Seq(S)
  BY DEF IInv, Orderly
<1> QED
  BY <1>1, Elements

LEMMA BlockKinds ==
  /\ {"pass", "net", "log1", "log2"} \subseteq Blocks /\ Rows \subseteq Blocks
  /\ "mac" \notin Blocks
  /\ \A i \in Items : Home(i) \in Blocks
  /\ Items = Blocks \cup {"mac"}
BY BlocksAssumption DEF Blocks, Loggers, Items, Home

\* A block that a write began to change is left as it was, or with a trace.
LEMMA BeginBlockKeeps == SInv /\ BeginBlock => WritesInv' /\ TypesInv' /\ PromiseInv' /\ RamInv'
<1> SUFFICES ASSUME SInv, BeginBlock PROVE WritesInv' /\ TypesInv' /\ PromiseInv' /\ RamInv'
  OBVIOUS
<1> DEFINE w == Head(todo)
<1>1. /\ phase = "writing" /\ half' = TRUE
      /\ UNCHANGED <<phase, ram, leased, todo, after, promised, due>>
  BY DEF BeginBlock
<1>2. IInv /\ todo # <<>> /\ w \in ToSet(todo) /\ IsWrite(w)
  BY <1>1, FirstWrite DEF SInv, IInv, WritesInv
<1>3. \/ UNCHANGED <<eeprom, mark, lostBy>>
      \/ /\ eeprom' = [eeprom EXCEPT ![w.block] = IF @ \in {Erased, Ragged} THEN Ragged ELSE Mixed]
         /\ \/ UNCHANGED <<mark, lostBy>>
            \/ /\ w.block = "net" /\ ~(Keeps(w) /\ mark)
               /\ \/ mark' = TRUE /\ lostBy' = "none"
                  \/ mark' = FALSE /\ lostBy' = w.job
  BY DEF BeginBlock
<1>4. /\ eeprom' \in [Blocks -> UNION {ValuesOf(b) \cup Holes : b \in Blocks}]
      /\ \A b \in Blocks : b # w.block => eeprom'[b] = eeprom[b]
      /\ eeprom'[w.block] = eeprom[w.block] \/ eeprom'[w.block] \in Holes
  <2>1. eeprom \in [Blocks -> UNION {ValuesOf(b) \cup Holes : b \in Blocks}] /\ w.block \in Blocks
    BY <1>2 DEF SInv, TypesInv, IsWrite
  <2>2. Ragged \in Holes /\ Mixed \in Holes
        /\ Holes \subseteq UNION {ValuesOf(b) \cup Holes : b \in Blocks}
    BY <2>1 DEF Holes
  <2>3. CASE eeprom' = eeprom
    BY <2>1, <2>3
  <2>4. ASSUME NEW v \in {Ragged, Mixed}, eeprom' = [eeprom EXCEPT ![w.block] = v]
        PROVE  /\ eeprom' \in [Blocks -> UNION {ValuesOf(b) \cup Holes : b \in Blocks}]
               /\ \A b \in Blocks : b # w.block => eeprom'[b] = eeprom[b]
               /\ eeprom'[w.block] \in Holes
    BY <2>1, <2>2, <2>4
  <2> QED
    BY <1>3, <2>3, <2>4
<1>5. WritesInv'
  <2>1. ASSUME w.block = "net", ~(Keeps(w) /\ mark) PROVE w.job # "page"
    BY <1>2, <2>1 DEF SInv, WritesInv, IsWrite, Keeps
  <2>2. ToSet(todo)' = ToSet(todo) /\ todo' # <<>>
    BY <1>1, <1>2
  <2>3. /\ \A v \in ToSet(todo) : IsWrite(v) /\ v.job = w.job
        /\ (mark <=> lostBy = "none") /\ lostBy \in {"none", "new", "defaults", "udp"}
        /\ \A v \in ToSet(todo) : v.block = "net" /\ v.job = "page" => mark
        /\ \A u, v \in ToSet(todo) : u.job = v.job
    BY <1>2 DEF SInv, WritesInv
  <2>4. w.job \in {"page", "udp", "defaults"}
    BY <1>2 DEF IsWrite
  <2>5. \/ UNCHANGED <<mark, lostBy>>
        \/ w.job # "page" /\ mark' = TRUE /\ lostBy' = "none"
        \/ w.job # "page" /\ mark' = FALSE /\ lostBy' = w.job
    BY <1>3, <2>1
  <2> QED
    BY <2>2, <2>3, <2>4, <2>5 DEF WritesInv, IsWrite
<1>6. TypesInv'
  BY <1>1, <1>2, <1>4 DEF SInv, TypesInv
<1>7. PromiseInv'
  <2>1. ToSet(todo)' = ToSet(todo) /\ todo' = todo
    BY <1>1
  <2>2. ASSUME NEW i \in Items, promised[i] # Unset
        PROVE  /\ HoldsIn(promised[i], i, eeprom[Home(i)]) /\ w.block # Home(i)
               /\ eeprom'[Home(i)] = eeprom[Home(i)]
               /\ \A v \in ToSet(todo) : v.block # Home(i)
    BY <1>2, <1>4, <2>2, BlockKinds DEF SInv, PromiseInv
  <2>3. ASSUME NEW i \in Items, due[i] # Unset
        PROVE  /\ \A v \in ToSet(todo) : v.block = Home(i) => HoldsIn(due[i], i, v.value)
               /\ \/ \E v \in ToSet(todo) : v.block = Home(i)
                  \/ HoldsIn(due[i], i, eeprom'[Home(i)])
    BY <1>2, <1>4, <2>3, BlockKinds DEF SInv, PromiseInv
  <2>4. DOMAIN promised = Items /\ DOMAIN due = Items /\ (todo = <<>> => due = Nothing)
    BY DEF SInv, PromiseInv
  <2> QED
    BY <1>1, <2>1, <2>2, <2>3, <2>4 DEF PromiseInv
<1>8. RamInv'
  <2>1. ASSUME NEW b \in Blocks, Followed(b) PROVE Followed(b)'
    <3>1. ToSet(todo)' = ToSet(todo) /\ ram' = ram /\ leased' = leased
      BY <1>1
    <3>2. eeprom'[b] = eeprom[b] \/ \E v \in ToSet(todo) : v.block = b
      BY <1>2, <1>4
    <3> QED
      BY <2>1, <3>1, <3>2 DEF Followed, Agree, Matches
  <2> QED
    BY <1>1, <2>1 DEF SInv, RamInv, ComesTo
<1> QED
  BY <1>5, <1>6, <1>7, <1>8

\* A block that was written holds what was to be written.
LEMMA EndBlockKeeps == SInv /\ EndBlock => WritesInv' /\ TypesInv' /\ PromiseInv' /\ RamInv'
<1> SUFFICES ASSUME SInv, EndBlock PROVE WritesInv' /\ TypesInv' /\ PromiseInv' /\ RamInv'
  OBVIOUS
<1> DEFINE w == Head(todo)
           Rest == ToSet(Tail(todo))
<1>1. /\ phase = "writing" /\ half' = FALSE /\ todo' = Tail(todo)
      /\ eeprom' = [eeprom EXCEPT ![w.block] = w.value]
      /\ UNCHANGED <<ram, leased>>
  BY DEF EndBlock
<1>2. /\ IInv /\ todo # <<>> /\ w \in ToSet(todo) /\ IsWrite(w)
      /\ ToSet(todo) = {w} \cup Rest /\ Rest = ToSet(todo)'
  BY <1>1, FirstWrite DEF SInv, IInv, WritesInv
<1>3. /\ eeprom' \in [Blocks -> UNION {ValuesOf(b) \cup Holes : b \in Blocks}]
      /\ \A b \in Blocks : b # w.block => eeprom'[b] = eeprom[b]
      /\ eeprom'[w.block] = w.value
  <2>1. eeprom \in [Blocks -> UNION {ValuesOf(b) \cup Holes : b \in Blocks}] /\ w.block \in Blocks
        /\ w.value \in UNION {ValuesOf(b) \cup Holes : b \in Blocks}
    BY <1>2 DEF SInv, TypesInv, IsWrite
  <2> QED
    BY <1>1, <2>1
<1>4. \/ todo' # <<>> /\ UNCHANGED <<phase, after, promised, due>>
      \/ /\ todo' = <<>> /\ phase' = after /\ after' = "off" /\ due' = Nothing
         /\ promised' = [i \in Items |-> IF due[i] = Unset THEN promised[i] ELSE due[i]]
  BY DEF EndBlock
<1> HIDE DEF w, Rest
<1>5. WritesInv'
  <2>1. /\ \A v \in Rest : IsWrite(v) /\ v \in ToSet(todo)
        /\ \A v \in Rest : v.block = "net" /\ v.job = "page" => mark
        /\ \A u, v \in Rest : u.job = v.job
        /\ mark <=> lostBy = "none"
        /\ lostBy \in {"none", "new", "defaults", "udp"}
    BY <1>2 DEF SInv, WritesInv
  <2>2. IF w.block = "net" THEN mark' = TRUE /\ lostBy' = "none" ELSE UNCHANGED <<mark, lostBy>>
    BY DEF EndBlock, w
  <2> QED
    BY <1>1, <1>2, <2>1, <2>2 DEF WritesInv, IsWrite
<1>6. TypesInv'
  <2>1. phase' \in {"off", "config", "password", "up", "restart", "writing"}
        /\ after' \in {"off", "config", "password", "up", "restart"}
        /\ (phase' \in {"lease", "up", "restart"} => todo' = <<>>)
    BY <1>1, <1>4 DEF SInv, TypesInv
  <2>2. \A b \in Blocks : eeprom'[b] \in ValuesOf(b) \cup Holes
    BY <1>2, <1>3 DEF SInv, TypesInv, IsWrite
  <2> QED
    BY <1>1, <1>3, <2>1, <2>2 DEF SInv, TypesInv
<1>7. PromiseInv'
  <2>1. ASSUME NEW i \in Items, promised[i] # Unset
        PROVE  /\ HoldsIn(promised[i], i, eeprom'[Home(i)])
               /\ \A v \in Rest : v.block # Home(i)
    BY <1>2, <1>3, <2>1, BlockKinds DEF SInv, PromiseInv
  <2>2. ASSUME NEW i \in Items, due[i] # Unset
        PROVE  /\ \A v \in Rest : v.block = Home(i) => HoldsIn(due[i], i, v.value)
               /\ \/ \E v \in Rest : v.block = Home(i)
                  \/ HoldsIn(due[i], i, eeprom'[Home(i)])
    BY <1>2, <1>3, <2>2, BlockKinds DEF SInv, PromiseInv
  <2>3. DOMAIN promised = Items /\ DOMAIN due = Items
    BY DEF SInv, PromiseInv
  <2>4. CASE todo' # <<>> /\ UNCHANGED <<phase, after, promised, due>>
    BY <1>2, <2>1, <2>2, <2>3, <2>4 DEF PromiseInv
  <2>5. CASE /\ todo' = <<>> /\ due' = Nothing
             /\ promised' = [i \in Items |-> IF due[i] = Unset THEN promised[i] ELSE due[i]]
    <3>1. Rest = {}
      BY <1>2, <2>5, Elements
    <3>2. DOMAIN promised' = Items /\ DOMAIN due' = Items /\ \A i \in Items : due'[i] = Unset
      BY <2>5 DEF Nothing
    <3>3. ASSUME NEW i \in Items, promised'[i] # Unset
          PROVE  HoldsIn(promised'[i], i, eeprom'[Home(i)])
      BY <2>1, <2>2, <2>5, <3>1, <3>3
    <3>4. \A v \in ToSet(todo)' : FALSE
      BY <1>2, <3>1
    <3> QED
      BY <2>5, <3>2, <3>3, <3>4 DEF PromiseInv
  <2> QED
    BY <1>4, <2>4, <2>5
<1>8. RamInv'
  <2>1. ASSUME NEW b \in Blocks, Followed(b) PROVE Followed(b)'
    <3>1. ToSet(todo)' = Rest /\ ram' = ram /\ leased' = leased
      BY <1>1, <1>2
    <3>2. \A v \in Rest : v.block = b => Matches(b, v.value)'
      <4>1. \A v \in Rest : v.block = b => Matches(b, v.value)
        BY <1>2, <2>1 DEF Followed
      <4> QED
        BY <3>1, <4>1 DEF Matches
    <3>3. CASE w.block = b
      <4>1. Matches(b, eeprom'[b])
        BY <1>2, <1>3, <2>1, <3>3 DEF Followed
      <4>2. Matches(b, eeprom[b])'
        BY <3>1, <4>1 DEF Matches
      <4> QED
        BY <3>1, <3>2, <4>2 DEF Followed, Agree
    <3>4. CASE w.block # b
      <4>1. eeprom'[b] = eeprom[b]
        BY <1>3, <3>4
      <4>2. (\E v \in Rest : v.block = b) \/ Agree(b)
        BY <1>2, <2>1, <3>4 DEF Followed
      <4> QED
        BY <3>1, <3>2, <4>1, <4>2 DEF Followed, Agree, Matches
    <3> QED
      BY <3>3, <3>4
  <2>2. ASSUME NEW p \in {"password", "lease", "up"}, ComesTo(p)' PROVE ComesTo(p)
    BY <1>1, <1>4, <2>2 DEF ComesTo
  <2> QED
    BY <2>1, <2>2 DEF SInv, RamInv
<1> QED
  BY <1>5, <1>6, <1>7, <1>8

Quiet == WritesInv' /\ TypesInv' /\ PromiseInv' /\ RamInv'

LEMMA IdleFacts ==
  ASSUME SInv, phase # "writing"
  PROVE  /\ todo = <<>> /\ ToSet(todo) = {} /\ due = Nothing /\ half = FALSE
         /\ \A i \in Items : due[i] = Unset
BY Elements DEF SInv, IInv, WritesInv, TypesInv, PromiseInv, Nothing

\* The defaults begin to be written, which break no promise.
LEMMA DefaultsKeep ==
  ASSUME SInv, phase # "writing", NEW next \in {"config", "password"},
         default_network(DefNet, next), promised' = Nothing,
         UNCHANGED <<eeprom, mark, leased, half, due, lostBy>>
  PROVE  Quiet
<1>1. /\ ram' = [b \in Blocks |-> CASE b = "pass" -> ram[b] [] b = "net" -> DefNet [] OTHER -> Default(b)]
      /\ todo' = DefaultWrites(DefNet)
      /\ phase' = "writing" /\ after' = next
  BY DEF default_network
<1>2. /\ \A w \in ToSet(todo') :
           /\ w.block \in Blocks /\ w.job = "defaults"
           /\ w.value = IF w.block = "net" THEN DefNet ELSE Default(w.block)
      /\ \A b \in Blocks : \E w \in ToSet(todo') : w.block = b
      /\ todo' # <<>>
  BY <1>1, DefaultWritesAre, DefaultsAreSettings, DefaultsAreOrderly
<1>3. \A b \in Blocks : Default(b) \in ValuesOf(b) /\ (b = "net" => Default(b) = DefNet)
  BY SettingsAssumption DEF Default
<1>4. WritesInv'
  <2>1. \A w \in ToSet(todo') : IsWrite(w) /\ w.job # "page"
    BY <1>2, <1>3 DEF IsWrite
  <2>2. (mark <=> lostBy = "none") /\ lostBy \in {"none", "new", "defaults", "udp"}
    BY DEF SInv, WritesInv
  <2> QED
    BY <1>2, <2>1, <2>2 DEF WritesInv, IsWrite
<1>5. \A b \in Blocks \ {"pass"} : ram'[b] = Default(b)
  BY <1>1, <1>3
<1>6. TypesInv'
  <2>1. \A b \in Blocks : ram'[b] \in ValuesOf(b) \cup Holes \cup {Unset}
    BY <1>1, <1>3 DEF SInv, TypesInv
  <2>2. ram' \in [Blocks -> UNION {ValuesOf(b) \cup Holes \cup {Unset} : b \in Blocks}]
    BY <1>1, <2>1
  <2> QED
    BY <1>1, <2>1, <2>2 DEF SInv, TypesInv
<1>7. PromiseInv'
  <2>1. \A i \in Items : promised'[i] = Unset /\ due'[i] = Unset
    BY IdleFacts DEF Nothing
  <2>2. DOMAIN promised' = Items /\ DOMAIN due' = Items
    BY DEF SInv, PromiseInv, Nothing
  <2> QED
    BY <1>2, <2>1, <2>2 DEF PromiseInv
<1>8. RamInv'
  <2>1. ASSUME NEW b \in Blocks \ {"pass"} PROVE Followed(b)'
    BY <1>2, <1>3, <1>5 DEF Followed, Matches
  <2> QED
    BY <1>1, <2>1 DEF RamInv, ComesTo
<1> QED
  BY <1>4, <1>6, <1>7, <1>8 DEF Quiet

\* A step that neither writes nor begins to.
LEMMA QuietStep ==
  ASSUME SInv, phase # "writing",
         UNCHANGED <<stable, todo, half, after, due>>, leased' \in BOOLEAN,
         phase' \in {"off", "button", "config", "password", "lease", "up", "restart"},
         ram' \in [Blocks -> UNION {ValuesOf(b) \cup Holes \cup {Unset} : b \in Blocks}],
         \A b \in Blocks : ram'[b] \in ValuesOf(b) \cup Holes \cup {Unset},
         RamInv'
  PROVE  Quiet
<1>1. /\ todo' = <<>> /\ todo = <<>> /\ ToSet(todo') = {} /\ half' = FALSE
      /\ UNCHANGED <<eeprom, mark, promised, lostBy, due, after>>
  BY IdleFacts DEF stable
<1>3. WritesInv'
  BY <1>1 DEF SInv, WritesInv
<1>4. TypesInv'
  BY <1>1 DEF SInv, TypesInv
<1>5. PromiseInv'
  BY <1>1 DEF SInv, PromiseInv
<1> QED
  BY <1>3, <1>4, <1>5 DEF Quiet

RamTypes == [Blocks -> UNION {ValuesOf(b) \cup Holes \cup {Unset} : b \in Blocks}]

\* RAM is cleared.
LEMMA Cleared ==
  LET blank == [b \in Blocks |-> Unset] IN
  /\ blank \in RamTypes
  /\ \A b \in Blocks : blank[b] \in ValuesOf(b) \cup Holes \cup {Unset}
BY DEF RamTypes

LEMMA BootKeeps ==
  ASSUME SInv,
         PowerOn \/ (\E held \in BOOLEAN : Button(held)) \/ SetConfig \/ ReadPassword \/ Lease \/ GoApp
  PROVE  Quiet
<1>0. /\ ram \in RamTypes /\ eeprom \in [Blocks -> UNION {ValuesOf(b) \cup Holes : b \in Blocks}]
      /\ \A b \in Blocks : ram[b] \in ValuesOf(b) \cup Holes \cup {Unset}
      /\ \A b \in Blocks : eeprom[b] \in ValuesOf(b) \cup Holes
      /\ leased \in BOOLEAN
  BY DEF SInv, TypesInv, RamTypes
<1>1. CASE PowerOn
  <2>1. phase = "off" /\ phase' = "button" /\ UNCHANGED <<stable, ram, leased, todo, half, after, due>>
    BY <1>1 DEF PowerOn
  <2>2. RamInv'
    BY <2>1 DEF RamInv, ComesTo
  <2> QED
    BY <1>0, <2>1, <2>2, QuietStep DEF RamTypes
<1>2. ASSUME NEW held \in BOOLEAN, Button(held) PROVE Quiet
  <2>1. CASE held
    BY <1>2, <2>1, DefaultsKeep DEF Button
  <2>2. CASE ~held
    <3>1. /\ phase = "button" /\ phase' = "config"
          /\ UNCHANGED <<ram, stable, leased, todo, half, after, due>>
      BY <1>2, <2>2 DEF Button, stable
    <3>2. RamInv'
      BY <3>1 DEF RamInv, ComesTo
    <3> QED
      BY <1>0, <3>1, <3>2, QuietStep DEF RamTypes
  <2> QED
    BY <2>1, <2>2
<1>3. CASE SetConfig
  <2>1. CASE mark
    <3>1. /\ phase = "config" /\ phase' = "password"
          /\ ram' = [b \in Blocks |-> IF b = "pass" THEN ram[b] ELSE eeprom[b]]
          /\ UNCHANGED <<stable, leased, todo, half, after, due>>
      BY <1>3, <2>1 DEF SetConfig, stable
    <3>2. \A b \in Blocks : ram'[b] \in ValuesOf(b) \cup Holes \cup {Unset}
      BY <1>0, <3>1
    <3>3. ram' \in RamTypes
      BY <3>1, <3>2 DEF RamTypes
    <3>4. ToSet(todo') = {} /\ eeprom' = eeprom
      BY <3>1, IdleFacts DEF stable
    <3>5. RamInv'
      BY <3>1, <3>4 DEF RamInv, ComesTo, Followed, Agree, Matches
    <3> QED
      BY <1>0, <3>1, <3>2, <3>3, <3>5, QuietStep DEF RamTypes
  <2>2. CASE ~mark
    <3>1. MayForget
      BY <2>2 DEF MayForget, SInv, WritesInv
    <3> QED
      BY <1>3, <2>2, <3>1, DefaultsKeep DEF SetConfig
  <2> QED
    BY <2>1, <2>2
<1>4. CASE ReadPassword
  <2>1. /\ phase = "password" /\ phase' \in {"lease", "up"}
        /\ ram' = [ram EXCEPT !["pass"] = eeprom["pass"]]
        /\ UNCHANGED <<stable, leased, todo, half, after, due>>
    BY <1>4 DEF ReadPassword
  <2>2. "pass" \in Blocks
    BY BlockKinds
  <2>3. \A b \in Blocks : ram'[b] = IF b = "pass" THEN eeprom[b] ELSE ram[b]
    BY <1>0, <2>1, <2>2 DEF RamTypes
  <2>4. ram' \in RamTypes
    BY <1>0, <2>1, <2>2 DEF RamTypes
  <2>5. ToSet(todo') = {} /\ ToSet(todo) = {} /\ eeprom' = eeprom /\ leased' = leased
    BY <2>1, IdleFacts DEF stable
  <2>6. \A b \in Blocks \ {"pass"} : Agree(b)
    BY <2>1, <2>5 DEF SInv, RamInv, ComesTo, Followed
  <2>7. \A b \in Blocks : Agree(b)'
    BY <2>3, <2>5, <2>6 DEF Agree, Matches
  <2>8. RamInv'
    BY <2>1, <2>5, <2>7 DEF RamInv, Followed
  <2> QED
    BY <1>0, <2>1, <2>3, <2>4, <2>8, QuietStep DEF RamTypes
<1>5. CASE Lease
  <2>1. /\ phase = "lease" /\ phase' = "up" /\ leased' = TRUE
        /\ ram' = [ram EXCEPT !["net"] = IF ram["net"] \in Holes THEN ram["net"]
                                        ELSE [ram["net"] EXCEPT !.addr = LeasedAddresses]]
        /\ UNCHANGED <<stable, todo, half, after, due>>
    BY <1>5 DEF Lease
  <2>2. "net" \in Blocks /\ ValuesOf("net") = Nets
    BY DEF Blocks, ValuesOf, Loggers
  <2>3. ToSet(todo') = {} /\ ToSet(todo) = {} /\ eeprom' = eeprom
    BY <2>1, IdleFacts DEF stable
  <2>4. \A b \in Blocks : Agree(b)
    BY <2>1, <2>3 DEF SInv, RamInv, ComesTo, Followed
  <2>5. ram["net"] \in Nets \cup Holes /\ eeprom["net"] \in Nets \cup Holes
    BY <1>0, <2>2, <2>4, SettingsAreNoTraces DEF Agree, Matches
  <2>6. CASE ram["net"] \in Holes
    <3>1. ram' = ram
      BY <1>0, <2>1, <2>2, <2>6 DEF RamTypes
    <3>2. \A b \in Blocks : Agree(b)'
      BY <2>1, <2>3, <2>4, <3>1 DEF Agree, Matches
    <3>3. RamInv'
      BY <2>1, <2>3, <3>2 DEF RamInv, Followed
    <3> QED
      BY <1>0, <2>1, <3>1, <3>3, QuietStep DEF RamTypes
  <2>7. CASE ram["net"] \notin Holes
    <3> DEFINE net == [ram["net"] EXCEPT !.addr = LeasedAddresses]
    <3>1. ram["net"] \in Nets /\ eeprom["net"] \in Nets
          /\ ram["net"].mac = eeprom["net"].mac
      BY <2>2, <2>4, <2>5, <2>7, SettingsAreNoTraces DEF Agree, Matches
    <3>2. net \in Nets /\ net.mac = ram["net"].mac /\ net.addr = LeasedAddresses
      BY <3>1, SettingsAssumption DEF Nets
    <3>3. ram' = [ram EXCEPT !["net"] = net]
      BY <2>1, <2>7
    <3> HIDE DEF net
    <3>4. ram' \in RamTypes /\ ram'["net"] = net /\ \A b \in Blocks : b # "net" => ram'[b] = ram[b]
      BY <1>0, <2>2, <3>2, <3>3 DEF RamTypes
    <3>5. ASSUME NEW b \in Blocks PROVE Agree(b)'
      BY <2>1, <2>3, <2>4, <3>1, <3>2, <3>4 DEF Agree, Matches
    <3>6. RamInv'
      BY <2>1, <2>3, <3>5 DEF RamInv, Followed
    <3> QED
      BY <1>0, <2>1, <2>2, <3>2, <3>4, <3>6, QuietStep DEF RamTypes
  <2> QED
    BY <2>6, <2>7
<1>6. CASE GoApp
  <2>1. /\ phase = "restart" /\ phase' = "button" /\ leased' = FALSE
        /\ ram' = [b \in Blocks |-> Unset]
        /\ UNCHANGED <<stable, todo, half, after, due>>
    BY <1>6 DEF GoApp
  <2>2. RamInv'
    BY <2>1 DEF RamInv, ComesTo
  <2> QED
    BY <2>1, <2>2, Cleared, QuietStep DEF RamTypes
<1> QED
  BY <1>1, <1>2, <1>3, <1>4, <1>5, <1>6

\* A request under way is lost with the power; what was promised stays.
LEMMA PowerCutKeeps == SInv /\ PowerCut => Quiet
<1> SUFFICES ASSUME SInv, PowerCut PROVE Quiet
  OBVIOUS
<1>1. /\ phase' = "off" /\ ram' = [b \in Blocks |-> Unset] /\ leased' = FALSE
      /\ todo' = <<>> /\ half' = FALSE /\ after' = "off" /\ due' = Nothing
      /\ UNCHANGED <<eeprom, mark, promised, lostBy>>
  BY DEF PowerCut, stable
<1>2. ToSet(todo') = {} /\ DOMAIN due' = Items /\ \A i \in Items : due'[i] = Unset
  BY <1>1, Elements DEF Nothing
<1>3. WritesInv'
  BY <1>1, <1>2 DEF SInv, WritesInv
<1>4. TypesInv'
  BY <1>1, Cleared DEF SInv, TypesInv, RamTypes
<1>5. PromiseInv'
  BY <1>1, <1>2 DEF SInv, PromiseInv
<1>6. RamInv'
  BY <1>1 DEF RamInv, ComesTo
<1> QED
  BY <1>3, <1>4, <1>5, <1>6 DEF Quiet

\* A request writes what it will have promised, and what it changes is not promised.
RequestFits(changed, new, writes) ==
  /\ writes # <<>> /\ DOMAIN new = Items /\ changed \in SUBSET Items
  /\ \A w \in ToSet(writes) : IsWrite(w)
  /\ \A w \in ToSet(writes), i \in Items : Home(i) = w.block => i \in changed
  /\ \A v, w \in ToSet(writes) : v.job = w.job
  /\ \A i \in Items : new[i] # Unset =>
       /\ \A w \in ToSet(writes) : w.block = Home(i) => HoldsIn(new[i], i, w.value)
       /\ \E w \in ToSet(writes) : w.block = Home(i)

LEMMA RequestKeeps ==
  ASSUME SInv, phase = "up",
         NEW changed, NEW new, NEW writes, NEW next \in {"up", "restart"},
         Request(changed, new, writes, next),
         RequestFits(changed, new, writes), RamInv',
         ram' \in RamTypes,
         \A b \in Blocks : ram'[b] \in ValuesOf(b) \cup Holes \cup {Unset}
  PROVE  Quiet
<1>1. /\ promised' = [i \in Items |-> IF i \in changed THEN Unset ELSE promised[i]]
      /\ due' = new /\ todo' = writes /\ phase' = "writing" /\ after' = next
      /\ UNCHANGED <<eeprom, mark, leased, half, lostBy>>
  BY DEF Request
<1>2. mark /\ half = FALSE
  BY MarkedWhenUp, IdleFacts DEF SInv
<1>3. WritesInv'
  BY <1>1, <1>2 DEF SInv, WritesInv, IsWrite, RequestFits
<1>4. TypesInv'
  BY <1>1 DEF SInv, TypesInv, RamTypes
<1>5. PromiseInv'
  <2>1. DOMAIN promised' = Items /\ DOMAIN due' = Items /\ todo' # <<>>
    BY <1>1 DEF RequestFits
  <2>2. ASSUME NEW i \in Items, promised'[i] # Unset
        PROVE  /\ HoldsIn(promised'[i], i, eeprom'[Home(i)])
               /\ \A w \in ToSet(todo') : w.block # Home(i)
    <3>1. i \notin changed /\ promised'[i] = promised[i]
      BY <1>1, <2>2
    <3> QED
      BY <1>1, <2>2, <3>1 DEF SInv, PromiseInv, RequestFits
  <2> QED
    BY <1>1, <2>1, <2>2 DEF PromiseInv, RequestFits
<1> QED
  BY <1>3, <1>4, <1>5 DEF Quiet

\* In the main loop RAM holds a setting or a trace.
LEMMA RamWhenUp ==
  ASSUME SInv, phase = "up"
  PROVE  \A b \in Blocks : Agree(b) /\ ram[b] \in ValuesOf(b) \cup Holes
<1>1. \A b \in Blocks : Agree(b)
  BY IdleFacts DEF SInv, RamInv, ComesTo, Followed
<1>2. ValuesOf("net") = Nets /\ ValuesOf("pass") = Texts
  BY DEF ValuesOf, Loggers
<1> QED
  BY <1>1, <1>2 DEF SInv, TypesInv, Agree, Matches

\* ... and the MAC that is promised.
LEMMA PromisedMac ==
  ASSUME SInv, phase = "up", promised["mac"] # Unset
  PROVE  ram["net"] \in Nets /\ ram["net"].mac = promised["mac"]
<1>1. "net" \in Blocks /\ ValuesOf("net") = Nets /\ "mac" \in Items /\ Home("mac") = "net"
  BY DEF Blocks, ValuesOf, Loggers, Items, Home
<1>2. eeprom["net"] \notin Holes /\ eeprom["net"].mac = promised["mac"]
  <2>1. HoldsIn(promised["mac"], "mac", eeprom["net"])
    BY <1>1 DEF SInv, PromiseInv
  <2> QED
    BY <2>1, HoldsInCases
<1>3. eeprom["net"] \in Nets
  BY <1>1, <1>2 DEF SInv, TypesInv
<1>4. Agree("net")
  BY <1>1, RamWhenUp
<1> QED
  BY <1>2, <1>3, <1>4 DEF Agree, Matches

\* A save of one block, after which the main loop goes on.
LEMMA OneBlockKeeps ==
  ASSUME SInv, phase = "up", NEW b \in Blocks \ {"net"}, NEW value \in ValuesOf(b), NEW w, NEW typed,
         w.block = b, w.value \in ValuesOf(b), w.job = "page",
         w.value = value \/ (b = "pass" /\ value \in Texts /\ w.value = Kept(value)),
         typed # Unset => HoldsIn(typed, b, w.value),
         Request({b}, [Nothing EXCEPT ![b] = typed], <<w>>, "up"),
         ram' = [ram EXCEPT ![b] = value]
  PROVE  Quiet
<1> DEFINE new == [Nothing EXCEPT ![b] = typed]
           writes == <<w>>
<1>1. writes # <<>> /\ ToSet(writes) = {w}
  BY Elements
<1>2. b \in Items /\ b # "mac"
  BY BlockKinds
<1>3. DOMAIN new = Items /\ new[b] = typed /\ \A i \in Items : i # b => new[i] = Unset
  BY <1>2 DEF Nothing
<1> HIDE DEF new, writes
<1>4. IsWrite(w) /\ \A i \in Items : Home(i) = w.block => i = b
  BY <1>2 DEF IsWrite, Home
<1>5. Home(b) = b
  BY <1>2 DEF Home
<1>6. /\ ram \in RamTypes /\ \A a \in Blocks : ram[a] \in ValuesOf(a) \cup Holes \cup {Unset}
  BY DEF SInv, TypesInv, RamTypes
<1>7. /\ \A a \in Blocks : ram'[a] = IF a = b THEN value ELSE ram[a]
      /\ ram' \in RamTypes
      /\ \A a \in Blocks : ram'[a] \in ValuesOf(a) \cup Holes \cup {Unset}
  <2>1. \A a \in Blocks : ram'[a] = IF a = b THEN value ELSE ram[a]
    BY <1>6 DEF RamTypes
  <2>2. \A a \in Blocks : ram'[a] \in ValuesOf(a) \cup Holes \cup {Unset}
    BY <1>6, <2>1
  <2>3. ram' \in RamTypes
    BY <1>6 DEF RamTypes
  <2> QED
    BY <2>1, <2>2, <2>3
<1>8. phase' = "writing" /\ after' = "up" /\ todo' = writes /\ UNCHANGED <<eeprom, leased>>
  BY DEF Request, writes
<1>9. RamInv'
  <2>1. ASSUME NEW a \in Blocks PROVE Followed(a)'
    <3>1. Agree(a)
      BY RamWhenUp
    <3>2. a # b => Agree(a)'
      BY <1>7, <1>8, <3>1 DEF Agree, Matches
    <3>3. a = b => Matches(a, w.value)'
      BY <1>7 DEF Matches
    <3> QED
      BY <1>1, <1>7, <1>8, <3>2, <3>3 DEF Followed
  <2> QED
    BY <1>8, <2>1 DEF RamInv, ComesTo
<1>10. Request({b}, new, writes, "up")
  BY DEF new, writes
<1>11. \A i \in Items : new[i] # Unset =>
         /\ \A v \in ToSet(writes) : v.block = Home(i) => HoldsIn(new[i], i, v.value)
         /\ \E v \in ToSet(writes) : v.block = Home(i)
  BY <1>1, <1>3, <1>5
<1>12. \A v \in ToSet(writes), i \in Items : Home(i) = v.block => i \in {b}
  BY <1>1, <1>4
<1>13. {b} \in SUBSET Items
  BY <1>2
<1>14. /\ \A v \in ToSet(writes) : IsWrite(v)
       /\ \A u, v \in ToSet(writes) : u.job = v.job
  BY <1>1, <1>4
<1>15. RequestFits({b}, new, writes)
  BY <1>1, <1>3, <1>11, <1>12, <1>13, <1>14 DEF RequestFits
<1> QED
  BY <1>7, <1>9, <1>10, <1>15, RequestKeeps

\* A save of the network's block, after which the box restarts.
LEMMA NetKeeps ==
  ASSUME SInv, phase = "up", NEW net \in Nets, NEW asked \in Nets, NEW mac,
         NEW job \in {"page", "udp"},
         net.addr = asked.addr, net.dhcp = asked.dhcp, mac # Unset => net.mac = mac,
         Request({"net", "mac"}, [Nothing EXCEPT !["net"] = asked, !["mac"] = mac],
                 <<Write("net", net, job)>>, "restart"),
         ram' = [ram EXCEPT !["net"] = net]
  PROVE  Quiet
<1> DEFINE first == [Nothing EXCEPT !["net"] = asked]
           new == [Nothing EXCEPT !["net"] = asked, !["mac"] = mac]
           w == Write("net", net, job)
           writes == <<w>>
           changed == {"net", "mac"}
<1>1. writes # <<>> /\ ToSet(writes) = {w}
  BY Elements
<1>2. changed \in SUBSET Items /\ "net" \in Blocks /\ ValuesOf("net") = Nets
  BY DEF Items, Blocks, ValuesOf, Loggers
<1>3. DOMAIN new = Items /\ new["net"] = asked /\ new["mac"] = mac
      /\ \A i \in Items \ changed : new[i] = Unset
  <2>1. new = [first EXCEPT !["mac"] = mac]
    OBVIOUS
  <2>2. DOMAIN first = Items /\ first["net"] = asked /\ \A i \in Items : i # "net" => first[i] = Unset
    BY <1>2 DEF Nothing
  <2> HIDE DEF first, new
  <2> QED
    BY <1>2, <2>1, <2>2
<1>4. w.block = "net" /\ w.value = net /\ w.job = job /\ (job = "page" => w.kind = "update")
  BY DEF Write
<1>5. Request(changed, new, writes, "restart")
  OBVIOUS
<1>6. todo' = writes /\ phase' = "writing" /\ after' = "restart"
  BY DEF Request
<1> HIDE DEF new, writes, w, changed, first
<1>7. IsWrite(w)
  BY <1>2, <1>4 DEF IsWrite
<1>8. \A i \in Items : Home(i) = "net" <=> i \in changed
  BY BlockKinds DEF Home, changed
<1>9. /\ net \notin Holes
      /\ HoldsIn(asked, "net", net) /\ (mac # Unset => HoldsIn(mac, "mac", net))
  BY SettingsAreNoTraces, HoldsInCases
<1>10. \A i \in Items : new[i] # Unset =>
         /\ \A v \in ToSet(writes) : v.block = Home(i) => HoldsIn(new[i], i, v.value)
         /\ \E v \in ToSet(writes) : v.block = Home(i)
  <2> SUFFICES ASSUME NEW i \in Items, new[i] # Unset
               PROVE  Home(i) = "net" /\ HoldsIn(new[i], i, net)
    BY <1>1, <1>4
  <2>1. i = "net" \/ i = "mac"
    BY <1>3 DEF changed
  <2> QED
    BY <1>3, <1>8, <1>9, <2>1 DEF changed
<1>11. /\ ram' \in RamTypes
       /\ \A a \in Blocks : ram'[a] \in ValuesOf(a) \cup Holes \cup {Unset}
  <2>1. /\ ram \in RamTypes /\ \A a \in Blocks : ram[a] \in ValuesOf(a) \cup Holes \cup {Unset}
    BY DEF SInv, TypesInv, RamTypes
  <2> QED
    BY <1>2, <2>1 DEF RamTypes
<1>12. RamInv'
  BY <1>6 DEF RamInv, ComesTo
<1>13. \A v \in ToSet(writes), i \in Items : Home(i) = v.block => i \in changed
  BY <1>1, <1>4, <1>8
<1>14. /\ \A v \in ToSet(writes) : IsWrite(v)
       /\ \A u, v \in ToSet(writes) : u.job = v.job
  BY <1>1, <1>7
<1>15. RequestFits(changed, new, writes)
  BY <1>1, <1>2, <1>3, <1>10, <1>13, <1>14 DEF RequestFits
<1> QED
  BY <1>5, <1>11, <1>12, <1>15, RequestKeeps

\* R**T begins to write the defaults, with the MAC that is promised.
LEMMA ResetKeeps == SInv /\ phase = "up" /\ ResetToDefaults => Quiet
<1> SUFFICES ASSUME SInv, phase = "up", ResetToDefaults PROVE Quiet
  OBVIOUS
<1> DEFINE net == DefaultNet(1, ram["net"])
           new == [Nothing EXCEPT !["mac"] = promised["mac"]]
           writes == DefaultWrites(net)
<1>1. /\ Request(Items, new, writes, "restart")
      /\ ram' = [b \in Blocks |-> CASE b = "pass" -> ram[b] [] b = "net" -> net [] OTHER -> Default(b)]
  BY DEF ResetToDefaults
<1>2. "net" \in Blocks /\ ValuesOf("net") = Nets /\ "mac" \in Items /\ Home("mac") = "net"
  BY DEF Blocks, ValuesOf, Loggers, Items, Home
<1>3. ram["net"] \in Nets \cup Holes
  BY <1>2, RamWhenUp
<1>4. net \in Nets /\ net.mac = MacOf(ram["net"])
  <2>1. MacOf(ram["net"]) \in Seq(Bytes) \cup Holes
    BY <1>3 DEF MacOf, Nets
  <2>2. DefNet \in Nets
    BY DefaultsAreSettings
  <2>3. net = [DefNet EXCEPT !.mac = MacOf(ram["net"])]
    BY DEF DefaultNet
  <2> QED
    BY <2>1, <2>2, <2>3 DEF Nets
<1>5. /\ DOMAIN new = Items /\ new["mac"] = promised["mac"]
      /\ \A i \in Items : i # "mac" => new[i] = Unset
  BY <1>2 DEF Nothing
<1>6. promised["mac"] # Unset => HoldsIn(promised["mac"], "mac", net)
  <2> SUFFICES ASSUME promised["mac"] # Unset PROVE net \notin Holes /\ net.mac = promised["mac"]
    BY HoldsInCases
  <2>1. ram["net"] \in Nets /\ ram["net"].mac = promised["mac"]
    BY PromisedMac
  <2> QED
    BY <1>4, <2>1, SettingsAreNoTraces DEF MacOf
<1> HIDE DEF net, new
<1>7. /\ \A w \in ToSet(writes) :
           /\ w.block \in Blocks /\ w.job = "defaults"
           /\ w.value = IF w.block = "net" THEN net ELSE Default(w.block)
      /\ \A b \in Blocks : \E w \in ToSet(writes) : w.block = b
      /\ writes # <<>>
  BY <1>4, DefaultWritesAre, DefaultsAreOrderly
<1>8. \A b \in Blocks : Default(b) \in ValuesOf(b)
  BY SettingsAssumption
<1> HIDE DEF writes
<1>9. RequestFits(Items, new, writes)
  <2>1. \A w \in ToSet(writes) : IsWrite(w) /\ w.job # "page"
    BY <1>2, <1>4, <1>7, <1>8 DEF IsWrite
  <2>2. \A i \in Items : new[i] # Unset =>
          /\ \A w \in ToSet(writes) : w.block = Home(i) => HoldsIn(new[i], i, w.value)
          /\ \E w \in ToSet(writes) : w.block = Home(i)
    BY <1>2, <1>5, <1>6, <1>7
  <2> QED
    BY <1>5, <1>7, <2>1, <2>2 DEF RequestFits
<1>10. /\ ram' \in RamTypes
       /\ \A b \in Blocks : ram'[b] \in ValuesOf(b) \cup Holes \cup {Unset}
  <2>1. \A b \in Blocks : ram[b] \in ValuesOf(b) \cup Holes \cup {Unset}
    BY DEF SInv, TypesInv
  <2>2. \A b \in Blocks : ram'[b] \in ValuesOf(b) \cup Holes \cup {Unset}
    BY <1>1, <1>2, <1>4, <1>8, <2>1
  <2> QED
    BY <1>1, <2>2 DEF RamTypes
<1>11. RamInv'
  <2>1. phase' = "writing" /\ after' = "restart"
    BY <1>1 DEF Request
  <2> QED
    BY <2>1 DEF RamInv, ComesTo
<1> QED
  BY <1>1, <1>9, <1>10, <1>11, RequestKeeps

LEMMA RequestsKeep == SInv /\ Requests => Quiet
<1> SUFFICES ASSUME SInv, Requests PROVE Quiet
  OBVIOUS
<1>1. phase = "up"
  BY DEF Requests
<1>2. /\ "pass" \in Blocks \ {"net"} /\ Loggers \subseteq Blocks \ {"net"} /\ Rows \subseteq Blocks \ {"net"}
      /\ ValuesOf("pass") = Texts
      /\ \A l \in Loggers : ValuesOf(l) = Servers
      /\ \A r \in Rows : ValuesOf(r) = SensorRows
  BY BlocksAssumption DEF Blocks, ValuesOf, Loggers
<1>3. ASSUME NEW new \in Passwords, SavePassword(new) PROVE Quiet
  <2> DEFINE text == UrlEncoded(new)
             typed == IfItFits(new, new, PasswordSize)
             w == WriteInFull("pass", Kept(text))
  <2>1. w.block = "pass" /\ w.value = Kept(text) /\ w.job = "page"
    BY DEF WriteInFull, Write
  <2>2. /\ Request({"pass"}, [Nothing EXCEPT !["pass"] = typed], <<w>>, "up")
        /\ ram' = [ram EXCEPT !["pass"] = text]
    BY <1>3, PasswordFormIsRead DEF SavePassword
  <2>3. text \in Texts /\ Kept(text) \in Texts
    BY SettingsAssumption, EncodedTexts, FieldTexts
  <2>4. typed # Unset => HoldsIn(typed, "pass", w.value)
    <3> SUFFICES ASSUME typed # Unset PROVE HoldsIn(typed, "pass", w.value)
      OBVIOUS
    <3>1. typed = new /\ Len(text) < PasswordSize
      BY DEF IfItFits
    <3>2. w.value = UrlEncoded(new)
      BY <2>1, <2>3, <3>1, FieldTexts
    <3> QED
      BY <3>1, <3>2, HoldsInCases
  <2> HIDE DEF w, text, typed
  <2> QED
    BY <1>1, <1>2, <2>1, <2>2, <2>3, <2>4, OneBlockKeeps
<1>4. ASSUME NEW l \in Loggers, NEW typed \in ServerSettings, SaveLogger(l, typed) PROVE Quiet
  <2> DEFINE server == AsStored(typed)
             due1 == IfItFits(typed, typed.server_name, NameSize)
             w == Write(BlockOf(l), server, "page")
  <2>1. w.block = l /\ w.value = server /\ w.job = "page"
    BY DEF Write, BlockOf
  <2>2. /\ Request({l}, [Nothing EXCEPT ![l] = due1], <<w>>, "up")
        /\ ram' = [ram EXCEPT ![l] = server]
    BY <1>4, ServerFormIsRead DEF SaveLogger
  <2>3. server \in ValuesOf(l)
    BY <1>2, StoredServers
  <2>4. due1 # Unset => HoldsIn(due1, l, w.value)
    <3> SUFFICES ASSUME due1 # Unset PROVE HoldsIn(due1, l, w.value)
      OBVIOUS
    <3>1. due1 = typed /\ Len(UrlEncoded(typed.server_name)) < NameSize
      BY DEF IfItFits
    <3>2. w.value = [typed EXCEPT !.server_name = UrlEncoded(typed.server_name)]
      BY <2>1, <3>1, StoredServers
    <3> QED
      BY <1>4, <3>1, <3>2, HoldsInCases
  <2> HIDE DEF w, server, due1
  <2> QED
    BY <1>1, <1>2, <2>1, <2>2, <2>3, <2>4, OneBlockKeeps
<1>5. ASSUME NEW r \in Rows, NEW typed \in RowSettings, SaveRow(r, typed) PROVE Quiet
  <2> DEFINE w == WriteInFull(r, typed)
  <2>1. w.block = r /\ w.value = typed /\ w.job = "page"
    BY DEF Write, WriteInFull
  <2>2. /\ Request({r}, [Nothing EXCEPT ![r] = typed], <<w>>, "up")
        /\ ram' = [ram EXCEPT ![r] = typed]
    BY <1>5, RowFormIsRead DEF SaveRow
  <2>3. typed \in ValuesOf(r)
    BY <1>2, SettingsAssumption
  <2>4. HoldsIn(typed, r, w.value)
    <3>1. r \notin {"mac", "net", "pass"} \cup Loggers
      BY BlocksAssumption
    <3> QED
      BY <2>1, <3>1, HoldsInCases
  <2> HIDE DEF w
  <2> QED
    BY <1>1, <1>2, <2>1, <2>2, <2>3, <2>4, OneBlockKeeps
<1>6. ram["net"] \in Nets \cup Holes /\ MacOf(ram["net"]) \in Seq(Bytes) \cup Holes
      /\ (promised["mac"] # Unset => MacOf(ram["net"]) = promised["mac"])
  <2>1. "net" \in Blocks /\ ValuesOf("net") = Nets
    BY DEF Blocks, ValuesOf, Loggers
  <2>2. ram["net"] \in Nets \cup Holes
    BY <1>1, <2>1, RamWhenUp
  <2> QED
    BY <1>1, <2>2, PromisedMac, SettingsAreNoTraces DEF MacOf, Nets
<1>7. ASSUME NEW page \in {"ip", "pi"}, NEW addr \in Addresses, NEW mac \in Macs, NEW dhcp \in BOOLEAN,
             SaveNet(page, [addr |-> addr, mac |-> mac, dhcp |-> dhcp])
      PROVE  Quiet
  <2> DEFINE typed == [addr |-> addr, mac |-> mac, dhcp |-> dhcp]
             net == ReadNet(NetForm(typed), page, ram["net"])
             kept == IF page = "pi" THEN typed.mac ELSE promised["mac"]
  <2>1. addr \in AllAddresses /\ mac \in Seq(Bytes) /\ mac # <<>>
    BY SettingsAssumption
  <2>2. net = [addr |-> addr, mac |-> IF page = "ip" THEN MacOf(ram["net"]) ELSE mac, dhcp |-> dhcp]
    <3>1. /\ ReadNet(NetForm(typed), "ip", ram["net"])
               = [addr |-> addr, mac |-> MacOf(ram["net"]), dhcp |-> dhcp]
          /\ ReadNet(NetForm(typed), "pi", ram["net"]) = [addr |-> addr, mac |-> mac, dhcp |-> dhcp]
      BY <2>1, NetFormIsRead
    <3>2. CASE page = "ip"
      BY <3>1, <3>2
    <3>3. CASE page = "pi"
      BY <3>1, <3>3
    <3> QED
      BY <3>2, <3>3
  <2>3. typed \in Nets /\ net \in Nets
    BY <1>6, <2>1, <2>2 DEF Nets
  <2>4. net.addr = typed.addr /\ net.dhcp = typed.dhcp /\ (kept # Unset => net.mac = kept)
    BY <1>6, <2>2
  <2>5. /\ Request({"net", "mac"}, [Nothing EXCEPT !["net"] = typed, !["mac"] = kept],
                   <<Write("net", net, "page")>>, "restart")
        /\ ram' = [ram EXCEPT !["net"] = net]
    BY <1>7 DEF SaveNet
  <2> HIDE DEF typed, net, kept
  <2> QED
    BY <1>1, <2>3, <2>4, <2>5, NetKeeps
<1>8. ASSUME NEW addr \in Addresses, SETQ(addr) PROVE Quiet
  <2>1. PICK dhcp \in UsesDhcp(ram["net"]) :
          LET net == [addr |-> addr, mac |-> MacOf(ram["net"]), dhcp |-> dhcp] IN
          /\ Request({"net", "mac"}, [Nothing EXCEPT !["net"] = net, !["mac"] = promised["mac"]],
                     <<Write("net", net, "udp")>>, "restart")
          /\ ram' = [ram EXCEPT !["net"] = net]
    BY <1>8 DEF SETQ
  <2> DEFINE net == [addr |-> addr, mac |-> MacOf(ram["net"]), dhcp |-> dhcp]
             kept == promised["mac"]
  <2>2. dhcp \in BOOLEAN
    BY <1>6 DEF UsesDhcp, Nets
  <2>3. net \in Nets
    BY <1>6, <2>2, SettingsAssumption DEF Nets
  <2>4. kept # Unset => net.mac = kept
    BY <1>6
  <2>5. /\ Request({"net", "mac"}, [Nothing EXCEPT !["net"] = net, !["mac"] = kept],
                   <<Write("net", net, "udp")>>, "restart")
        /\ ram' = [ram EXCEPT !["net"] = net]
    BY <2>1
  <2> HIDE DEF net, kept
  <2> QED
    BY <1>1, <2>3, <2>4, <2>5, NetKeeps
<1> QED
  BY <1>1, <1>3, <1>4, <1>5, <1>7, <1>8, ResetKeeps DEF Requests

LEMMA InitSInv == Init => SInv
<1> SUFFICES ASSUME Init PROVE SInv
  OBVIOUS
<1>1. /\ phase = "off" /\ eeprom = [b \in Blocks |-> Erased] /\ mark = FALSE
      /\ ram = [b \in Blocks |-> Unset] /\ leased = FALSE
      /\ todo = <<>> /\ half = FALSE /\ after = "off"
      /\ promised = Nothing /\ due = Nothing /\ lostBy = "new"
  BY DEF Init
<1>2. ToSet(todo) = {}
  BY <1>1, Elements
<1>3. WritesInv
  BY <1>1, <1>2 DEF WritesInv
<1>4. TypesInv
  <2>1. Erased \in Holes
    BY DEF Holes
  <2>2. /\ eeprom \in [Blocks -> UNION {ValuesOf(b) \cup Holes : b \in Blocks}]
        /\ \A b \in Blocks : eeprom[b] \in ValuesOf(b) \cup Holes
    BY <1>1, <2>1
  <2>3. /\ ram \in RamTypes
        /\ \A b \in Blocks : ram[b] \in ValuesOf(b) \cup Holes \cup {Unset}
    BY <1>1, Cleared
  <2> QED
    BY <1>1, <2>2, <2>3 DEF TypesInv, RamTypes
<1>5. PromiseInv
  BY <1>1, <1>2 DEF PromiseInv, Nothing
<1>6. RamInv
  BY <1>1 DEF RamInv, ComesTo
<1> QED
  BY <1>3, <1>4, <1>5, <1>6, InitIInv DEF SInv

LEMMA NextSInv == SInv /\ [Next]_vars => SInv'
<1> SUFFICES ASSUME SInv, [Next]_vars PROVE SInv'
  OBVIOUS
<1>1. CASE UNCHANGED vars
  <2>1. UNCHANGED <<phase, eeprom, mark, promised, lostBy, ram, leased, todo, half, after, due>>
    BY <1>1 DEF vars, stable
  <2>2. WritesInv' /\ TypesInv' /\ PromiseInv'
    BY <2>1 DEF SInv, WritesInv, TypesInv, PromiseInv
  <2>3. RamInv'
    BY <2>1 DEF SInv, RamInv, ComesTo, Followed, Agree, Matches
  <2> QED
    BY <2>2, <2>3, NextIInv DEF SInv
<1>2. CASE Next
  <2>1. Quiet
    BY <1>2, BootKeeps, BeginBlockKeeps, EndBlockKeeps, PowerCutKeeps, RequestsKeep DEF Next, Quiet
  <2> QED
    BY <2>1, NextIInv DEF SInv, Quiet
<1> QED
  BY <1>1, <1>2

\* Whatever is saved besides, and whenever the power goes, what a page has answered as
\* saved is in EEPROM (task_config.c, protocol.c:1960-2180), with the password and the
\* host as the browser sent them and the rest as it was typed: no save touches another
\* block, every one leaves the mark, and no boot writes the defaults over a block that
\* was promised.  A password, or a host, that is too long once encoded is not promised.
THEOREM AnsweredSavesAreDurable == Spec => []AnsweredSaveIsDurable
<1>1. ASSUME SInv PROVE AnsweredSaveIsDurable
  <2> SUFFICES ASSUME NEW i \in Items, promised[i] # Unset PROVE Holds(promised[i], i)
    BY DEF AnsweredSaveIsDurable
  <2> DEFINE value == promised[i]
  <2>1. HoldsIn(value, i, eeprom[Home(i)])
    BY <1>1 DEF SInv, PromiseInv
  <2> HIDE DEF value
  <2>2. CASE i \in {"mac", "net", "pass"} \cup Loggers
    <3>1. "mac" \notin Loggers /\ "net" \notin Loggers /\ "pass" \notin Loggers
      BY DEF Loggers
    <3>2. i = "mac" => Holds(value, i)
      BY <2>1, <3>1, HoldsInCases DEF Holds, Home
    <3>3. i = "net" => Holds(value, i)
      BY <2>1, <3>1, HoldsInCases DEF Holds, Home
    <3>4. i = "pass" => Holds(value, i)
      BY <2>1, <3>1, HoldsInCases DEF Holds, Home
    <3>5. i \in Loggers => Holds(value, i)
      BY <2>1, <3>1, HoldsInCases DEF Holds, Home
    <3>6. Holds(value, i)
      BY <2>2, <3>2, <3>3, <3>4, <3>5
    <3> QED
      BY <3>6 DEF value
  <2>3. CASE i \notin {"mac", "net", "pass"} \cup Loggers
    <3>1. Holds(value, i)
      BY <2>1, <2>3, HoldsInCases DEF Holds, Home
    <3> QED
      BY <3>1 DEF value
  <2> QED
    BY <2>2, <2>3
<1> QED
  BY <1>1, InitSInv, NextSInv, PTL DEF Spec

\* In the main loop RAM is what EEPROM holds, but for the addresses DHCP has brought
\* and the end of a password of more than 15 characters: the boot reads or writes every
\* block, the password too, and every request changes both (main.c:99-245,
\* protocol.c:1960-2180).
THEOREM RamIsAlwaysWhatIsSaved == Spec => []RamIsWhatIsSaved
<1>1. ASSUME SInv PROVE RamIsWhatIsSaved
  <2> SUFFICES ASSUME phase = "up", NEW b \in Blocks
               PROVE  \/ ram[b] = eeprom[b]
                      \/ /\ b = "net" /\ leased /\ ram[b].mac = eeprom[b].mac
                         /\ ram[b].addr = LeasedAddresses
                      \/ /\ b = "pass" /\ ram[b] \notin Holes /\ Len(ram[b]) > PasswordSize
                         /\ eeprom[b] = Kept(ram[b])
    BY DEF RamIsWhatIsSaved
  <2>1. Agree(b)
    BY <1>1, RamWhenUp
  <2>2. CASE b = "pass" /\ ram[b] \in Texts /\ eeprom[b] = Kept(ram[b])
    <3>1. Len(ram[b]) <= PasswordSize => Kept(ram[b]) = ram[b]
      BY DEF Kept
    <3>2. Len(ram[b]) \in Nat
      BY <2>2 DEF Texts
    <3>3. ram[b] \notin Holes
      BY <2>2, SettingsAreNoTraces
    <3> QED
      BY <2>2, <3>1, <3>2, <3>3 DEF PasswordSize
  <2> QED
    BY <2>1, <2>2 DEF Agree, Matches
<1> QED
  BY <1>1, InitSInv, NextSInv, PTL DEF Spec

\* Every block and its copy in RAM hold a setting of their kind or an interruption's
\* trace, and the main loop never works with what no boot has set.
THEOREM SettingsTypesAreKept == Spec => []TypeOK
<1>1. SInv => TypeOK
  <2> SUFFICES ASSUME SInv PROVE TypeOK
    OBVIOUS
  <2>1. phase = "up" => mark /\ \A b \in Blocks : ram[b] # Unset
    BY RamWhenUp, MarkedWhenUp, SettingsAreNoTraces DEF SInv
  <2>2. mark \in BOOLEAN /\ (phase = "writing" <=> todo # <<>>)
    BY DEF SInv, IInv
  <2>3. (half => phase = "writing") /\ (mark <=> lostBy = "none")
    BY <2>2 DEF SInv, WritesInv
  <2> QED
    BY <2>1, <2>2, <2>3 DEF SInv, TypesInv, TypeOK
<1> QED
  BY <1>1, InitSInv, NextSInv, PTL DEF Spec

-------------------------------------------------------------------------------
(* The lengths of pages.                                                       *)

\* What five passes of a loop add.
LEMMA TotalOfFive ==
  ASSUME NEW lengths \in [1..5 -> Nat], Len(lengths) = 5
  PROVE  Total(lengths) = lengths[1] + lengths[2] + lengths[3] + lengths[4] + lengths[5]
<1> DEFINE Is(g) == g = [n \in 0..Len(lengths) |-> IF n = 0 THEN 0 ELSE g[n - 1] + lengths[n]]
           total == CHOOSE g : Is(g)
           h == [n \in 0..5 |->
                   (IF n >= 1 THEN lengths[1] ELSE 0) + (IF n >= 2 THEN lengths[2] ELSE 0)
                   + (IF n >= 3 THEN lengths[3] ELSE 0) + (IF n >= 4 THEN lengths[4] ELSE 0)
                   + (IF n >= 5 THEN lengths[5] ELSE 0)]
<1>1. Total(lengths) = total[Len(lengths)]
  BY DEF Total
<1>2. \A k \in 1..5 : lengths[k] \in Nat
  OBVIOUS
<1>3. /\ h[0] = 0 /\ h[1] = h[0] + lengths[1] /\ h[2] = h[1] + lengths[2] /\ h[3] = h[2] + lengths[3]
      /\ h[4] = h[3] + lengths[4] /\ h[5] = h[4] + lengths[5]
  BY <1>2
<1>4. h = [n \in 0..5 |-> h[n]]
  OBVIOUS
<1> HIDE DEF h
<1>5. \A n \in 0..5 : h[n] = IF n = 0 THEN 0 ELSE h[n - 1] + lengths[n]
  BY <1>3
<1>6. Is(h)
  BY <1>4, <1>5
<1>7. Is(total)
  BY <1>6
<1> HIDE DEF total
<1>8. \A n \in 1..5 : total[n] = total[n - 1] + lengths[n]
  BY <1>7
<1>9. total[0] = 0
  BY <1>7
<1>10. /\ total[1] = lengths[1] /\ total[2] = total[1] + lengths[2] /\ total[3] = total[2] + lengths[3]
       /\ total[4] = total[3] + lengths[4] /\ total[5] = total[4] + lengths[5]
  BY <1>2, <1>8, <1>9
<1> QED
  BY <1>1, <1>2, <1>10

\* Five rows of the same length,
LEMMA FiveRows ==
  ASSUME NEW n \in Nat, NEW lengths, lengths = [a \in 1..5 |-> n]
  PROVE  Total(lengths) = 5 * n
<1>1. lengths \in [1..5 -> Nat] /\ Len(lengths) = 5
  OBVIOUS
<1>2. Total(lengths) = lengths[1] + lengths[2] + lengths[3] + lengths[4] + lengths[5]
  BY <1>1, TotalOfFive
<1> QED
  BY <1>2

\* and a logger's five intervals, one of which is selected.
LEMMA OneOptionIsSelected ==
  ASSUME NEW chosen \in ToSet(RefreshTimes)
  PROVE  Total([a \in 1..Len(update_time) |-> Option(a, chosen)]) = 146
<1> DEFINE options == [a \in 1..Len(update_time) |-> Option(a, chosen)]
           s == [a \in 1..5 |-> IF RefreshTimes[a] = chosen THEN 9 ELSE 0]
<1>1. Len(update_time) = 5
  BY DEF update_time
<1>2. /\ Option(1, chosen) = 27 + s[1] /\ Option(2, chosen) = 28 + s[2] /\ Option(3, chosen) = 27 + s[3]
      /\ Option(4, chosen) = 27 + s[4] /\ Option(5, chosen) = 28 + s[5]
  BY DEF Option, update_time
<1>3. s[1] + s[2] + s[3] + s[4] + s[5] = 9
  <2>1. chosen = 5 \/ chosen = 30 \/ chosen = 60 \/ chosen = 305 \/ chosen = 605
    BY DEF RefreshTimes, ToSet
  <2> QED
    BY <2>1 DEF RefreshTimes
<1>4. s \in [1..5 -> Nat]
  OBVIOUS
<1> HIDE DEF s
<1>5. options = [a \in 1..5 |-> Option(a, chosen)] /\ Len(options) = 5
  BY <1>1
<1>6. /\ Option(1, chosen) \in Nat /\ Option(2, chosen) \in Nat /\ Option(3, chosen) \in Nat
      /\ Option(4, chosen) \in Nat /\ Option(5, chosen) \in Nat
  BY <1>2, <1>4
<1>7. \A a \in 1..5 : Option(a, chosen) \in Nat
  BY <1>6
<1>8. options \in [1..5 -> Nat]
  BY <1>5, <1>7
<1> HIDE DEF options
<1>9. Total(options) = options[1] + options[2] + options[3] + options[4] + options[5]
  BY <1>5, <1>8, TotalOfFive
<1>10. /\ options[1] = 27 + s[1] /\ options[2] = 28 + s[2] /\ options[3] = 27 + s[3]
       /\ options[4] = 27 + s[4] /\ options[5] = 28 + s[5]
  BY <1>2, <1>5
<1>11. /\ s[1] \in Nat /\ s[2] \in Nat /\ s[3] \in Nat /\ s[4] \in Nat /\ s[5] \in Nat
  BY <1>4
<1>12. Total(options) = 146
  BY <1>3, <1>9, <1>10, <1>11
<1> QED
  BY <1>12 DEF options

\* They fit into the buffer of the box.
Short(n) == n \in Nat /\ n <= 647

LEMMA LoggersPageFits ==
  ASSUME NEW server \in Servers, Len(server.server_name) + Len(server.script_path) <= NamesThatFit
  PROVE  Short(print_webpage_logger_settings(server))
<1> DEFINE host == Len(server.server_name)
           path == Len(server.script_path)
           total == Total([a \in 1..Len(update_time) |-> Option(a, server.refresh_time)])
           checked == Checked(server.enable)
<1>1. server.server_name \in Texts /\ server.script_path \in Texts /\ server.refresh_time \in ToSet(RefreshTimes)
  BY DEF Servers
<1>2. host \in Nat /\ path \in Nat /\ host + path <= 55
  <2>1. \A text \in Texts : Len(text) \in Nat
    BY DEF Texts
  <2>2. host \in Nat /\ path \in Nat
    BY <1>1, <2>1
  <2>3. host + path <= 55
    BY DEF NamesThatFit
  <2> QED
    BY <2>2, <2>3
<1>3. total = 146
  <2> DEFINE chosen == server.refresh_time
  <2>1. chosen \in ToSet(RefreshTimes)
    BY <1>1
  <2> HIDE DEF chosen
  <2>2. Total([a \in 1..Len(update_time) |-> Option(a, chosen)]) = 146
    BY <2>1, OneOptionIsSelected
  <2> QED
    BY <2>2 DEF chosen
<1>4. checked = 0 \/ checked = 8
  BY DEF Checked
<1>5. print_webpage_logger_settings(server) =
        62 + 17 + 28 + checked + 32 + (0 + 22 + 4 + 8 + host + 2 + 13) + (12 + 22 + 4 + 8 + 5 + 2 + 0)
        + (12 + 22 + 4 + 8 + path + 2 + 32) + total + 44 + 1 + 54 + 10 + 8
  BY DEF print_webpage_logger_settings, http200ok, input_type_text_name_2, PortLength, SidLength
<1> HIDE DEF host, path, total, checked
<1>6. Short(print_webpage_logger_settings(server))
  <2> DEFINE n == print_webpage_logger_settings(server)
             x == 0 + 22 + 4 + 8 + host + 2 + 13
             y == 12 + 22 + 4 + 8 + path + 2 + 32
             z == 12 + 22 + 4 + 8 + 5 + 2 + 0
             v == 62 + 17 + 28 + checked + 32
  <2>1. n = v + x + z + y + total + 44 + 1 + 54 + 10 + 8
    BY <1>5
  <2>2. x = 49 + host /\ y = 80 + path /\ z = 53
    BY <1>2
  <2>3. v \in Nat /\ v <= 147
    BY <1>4
  <2> HIDE DEF n, v, x, y, z
  <2>4. n \in Nat /\ n <= 647
    BY <1>2, <1>3, <2>1, <2>2, <2>3
  <2> QED
    BY <2>4 DEF n, Short
<1> QED
  BY <1>6

LEMMA RowsPagesFit ==
  ASSUME NEW row \in SensorRows, NEW rows, rows = [a \in 1..MAX_SENSORS |-> row]
  PROVE  /\ \A saved \in BOOLEAN : Short(print_webpage_sensor_config(row, saved))
         /\ Short(print_webpage_sensors_left_menu(rows))
         /\ Short(print_webpage_index(rows))
<1> DEFINE n == Len(row.name)
           checked == Checked(row.enable)
           menu == MenuRow(row)
           index == IndexRow(row)
           menus == [a \in 1..Len(rows) |-> MenuRow(rows[a])]
           indexes == [a \in 1..Len(rows) |-> IndexRow(rows[a])]
<1>1. n \in Nat /\ n <= 14
  BY DEF SensorRows, RowNames, Texts
<1>2. checked = 0 \/ checked = 8
  BY DEF Checked
<1>3. menu = 52 + n
  BY <1>1 DEF MenuRow, SidLength
<1>4. index = 37 \/ index = 0
  BY <1>1 DEF IndexRow, ValueLength, UnitLength
<1>5. Len(rows) = 5 /\ \A a \in 1..5 : rows[a] = row
  BY DEF MAX_SENSORS
<1>6. menus = [a \in 1..5 |-> menu] /\ indexes = [a \in 1..5 |-> index]
  <2>1. \A a \in 1..5 : MenuRow(rows[a]) = menu /\ IndexRow(rows[a]) = index
    BY <1>5
  <2>2. menus = [a \in 1..5 |-> MenuRow(rows[a])] /\ indexes = [a \in 1..5 |-> IndexRow(rows[a])]
    BY <1>5
  <2> HIDE DEF menu, index, menus, indexes
  <2> QED
    BY <2>1, <2>2
<1>7. /\ print_webpage_sensors_left_menu(rows) = 62 + 55 + 40 + Total(menus)
      /\ print_webpage_index(rows) =
           62 + 55 + 123 + Total(indexes) + 62 + 8 + 3 + 6 + 2 + 1 + 2 + 1 + 2 + 14
  BY DEF print_webpage_sensors_left_menu, print_webpage_index, http200ok, page_header, DaysLength
<1>8. ASSUME NEW saved \in BOOLEAN PROVE Short(print_webpage_sensor_config(row, saved))
  <2> DEFINE again == IF saved THEN 77 ELSE 0
  <2>1. again = 0 \/ again = 77
    OBVIOUS
  <2>2. print_webpage_sensor_config(row, saved) =
          62 + 55 + 6 + again + 17 + 7 + 16 + 36 + checked + (34 + 22 + 2 + 8 + n + 2 + 13)
          + (14 + 22 + 2 + 8 + 7 + 2 + 21) + 7 + 6 + 18 + 7 + 6 + 34 + 1 + 35 + 10 + 47
    BY DEF print_webpage_sensor_config, http200ok, page_header, input_type_text_name_2, ValueLength,
           UnitLength, SidLength
  <2> DEFINE length == print_webpage_sensor_config(row, saved)
  <2> HIDE DEF again, n, checked
  <2> DEFINE x == 34 + 22 + 2 + 8 + n + 2 + 13
             y == 14 + 22 + 2 + 8 + 7 + 2 + 21
             z == 62 + 55 + 6 + again + 17 + 7 + 16 + 36 + checked
  <2>3. length = z + x + y + 7 + 6 + 18 + 7 + 6 + 34 + 1 + 35 + 10 + 47
    BY <2>2
  <2>4. x = 81 + n /\ y = 76
    BY <1>1
  <2>5. z \in Nat /\ z <= 284
    BY <1>2, <2>1
  <2> HIDE DEF length, x, y, z
  <2>6. length \in Nat /\ length <= 647
    BY <1>1, <2>3, <2>4, <2>5
  <2> QED
    BY <2>6 DEF length, Short
<1> HIDE DEF n, menu, index, menus, indexes
<1>9. Total(menus) = 5 * menu
  <2>1. menu \in Nat
    BY <1>1, <1>3
  <2> QED
    BY <1>6, <2>1, FiveRows
<1>10. Total(indexes) = 5 * index
  <2>1. index \in Nat
    BY <1>4
  <2> QED
    BY <1>6, <2>1, FiveRows
<1>11. Short(print_webpage_sensors_left_menu(rows))
  <2> DEFINE length == print_webpage_sensors_left_menu(rows)
  <2>1. length = 62 + 55 + 40 + 5 * menu
    BY <1>7, <1>9
  <2>2. menu \in Nat /\ menu <= 66
    BY <1>1, <1>3
  <2> HIDE DEF length
  <2>3. length \in Nat /\ length <= 647
    BY <2>1, <2>2
  <2> QED
    BY <2>3 DEF length, Short
<1>12. Short(print_webpage_index(rows))
  <2> DEFINE length == print_webpage_index(rows)
  <2>1. length = 62 + 55 + 123 + 5 * index + 62 + 8 + 3 + 6 + 2 + 1 + 2 + 1 + 2 + 14
    BY <1>7, <1>10
  <2> DEFINE some == 5 * index
             rest == 62 + 55 + 123 + some
  <2>2. (some = 0 \/ some = 185) /\ length = rest + 62 + 8 + 3 + 6 + 2 + 1 + 2 + 1 + 2 + 14
    BY <1>4, <2>1
  <2>3. rest = 240 \/ rest = 425
    BY <2>2
  <2> HIDE DEF length, rest, some
  <2>4. length \in Nat /\ length <= 647
    BY <2>2, <2>3
  <2> QED
    BY <2>4 DEF length, Short
<1> QED
  BY <1>8, <1>11, <1>12

\* The pages that show no setting, and that of the addresses.
LEMMA OtherPagesFit ==
  /\ \A length \in {print_webpage_mainframe, print_webpage_login, print_webpage_info,
                    print_webpage_reboot, print_webpage_leftmenu, http404,
                    http200ok + TopLocation, http200ok + NewLocation,
                    print_webpage_parol_change(TRUE), print_webpage_parol_change(FALSE)} :
       Short(length)
  /\ \A dhcp : Short(print_webpage_tcpip_settings(dhcp))
<1>1. /\ Short(print_webpage_mainframe) /\ Short(print_webpage_login) /\ Short(print_webpage_info)
      /\ Short(print_webpage_reboot)
  BY DEF print_webpage_mainframe, print_webpage_login, print_webpage_info, print_webpage_reboot,
         http200ok, page_header, SidLength, VersionLength, Short
<1>2. Short(print_webpage_leftmenu)
  BY DEF print_webpage_leftmenu, add_target_and_session, http200ok, page_header, SidLength, Short
<1>3. /\ Short(http404) /\ Short(http200ok + TopLocation) /\ Short(http200ok + NewLocation)
      /\ Short(print_webpage_parol_change(TRUE)) /\ Short(print_webpage_parol_change(FALSE))
  BY DEF http404, http200ok, TopLocation, NewLocation, IpLength, print_webpage_parol_change,
         page_header, SidLength, Short
<1>4. ASSUME NEW dhcp PROVE Short(print_webpage_tcpip_settings(dhcp))
  BY DEF print_webpage_tcpip_settings, http200ok, page_header, input_type_text_name_2, Checked,
         IpLength, MacLength, SidLength, Short
<1> QED
  BY <1>1, <1>2, <1>3, <1>4

\* With a frame buffer of the size that the box has, every page fits into it behind the
\* headers, whatever settings were saved before or were cut short: a sensor's name has
\* at most the 14 characters of its field, and a logger's page fits while its host name
\* and path have no more than NamesThatFit together (protocol.c:1154-1643).
THEOREM PagesAlwaysFit == ASSUME BUFFER_SIZE >= 700 PROVE Spec => []PagesFit
<1>1. \A n : Short(n) => Fits(n)
  BY BufferAssumption DEF Fits, RoomForText, Short
<1>2. SInv => PagesFit
  <2> SUFFICES ASSUME SInv, phase = "up" PROVE PagesFit
    BY DEF PagesFit
  <2>1. \A b \in Blocks : ram[b] \in ValuesOf(b) \cup Holes
    BY RamWhenUp, SettingsAreNoTraces DEF SInv, TypesInv
  <2>2. /\ Loggers \subseteq Blocks /\ Rows \subseteq Blocks
        /\ \A l \in Loggers : ValuesOf(l) = Servers
        /\ \A r \in Rows : ValuesOf(r) = SensorRows
    BY BlocksAssumption DEF Blocks, ValuesOf, Loggers
  <2>3. ASSUME NEW r \in Rows, ram[r] \notin Holes
        PROVE  LET rows == [a \in 1..MAX_SENSORS |-> ram[r]] IN
               /\ \A saved \in BOOLEAN : Fits(print_webpage_sensor_config(ram[r], saved))
               /\ Fits(print_webpage_sensors_left_menu(rows)) /\ Fits(print_webpage_index(rows))
    <3> DEFINE row == ram[r]
               rows == [a \in 1..MAX_SENSORS |-> row]
    <3>1. row \in SensorRows
      BY <2>1, <2>2, <2>3
    <3> HIDE DEF row
    <3>2. /\ \A saved \in BOOLEAN : Short(print_webpage_sensor_config(row, saved))
          /\ Short(print_webpage_sensors_left_menu(rows)) /\ Short(print_webpage_index(rows))
      BY <3>1, RowsPagesFit
    <3> HIDE DEF rows
    <3>3. /\ \A saved \in BOOLEAN : Fits(print_webpage_sensor_config(row, saved))
          /\ Fits(print_webpage_sensors_left_menu(rows)) /\ Fits(print_webpage_index(rows))
      BY <1>1, <3>2
    <3> QED
      BY <3>3 DEF row, rows
  <2>4. ASSUME NEW l \in Loggers, ram[l] \notin Holes,
               Len(ram[l].server_name) + Len(ram[l].script_path) <= NamesThatFit
        PROVE  Fits(print_webpage_logger_settings(ram[l]))
    <3> DEFINE server == ram[l]
    <3>1. server \in Servers /\ Len(server.server_name) + Len(server.script_path) <= NamesThatFit
      BY <2>1, <2>2, <2>4
    <3> HIDE DEF server
    <3>2. Short(print_webpage_logger_settings(server))
      BY <3>1, LoggersPageFits
    <3> QED
      BY <1>1, <3>2 DEF server
  <2> QED
    BY <1>1, <2>3, <2>4, OtherPagesFit DEF PagesFit
<1> QED
  BY <1>2, InitSInv, NextSInv, PTL DEF Spec
===============================================================================
