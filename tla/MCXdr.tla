------------------------------- MODULE MCXdr --------------------------------
(***************************************************************************)
(* An instance of Xdr for TLC: every filter, alone or inside others.       *)
(***************************************************************************)
EXTENDS Xdr

C(t, o) == [type |-> t, object |-> o]

\* Every type of the first sequence with every number of the second.
All(types, numbers) ==
  [k \in 1 .. Len(types) * Len(numbers) |->
     C(<<types[1 + ((k - 1) \div Len(numbers))]>>, numbers[1 + ((k - 1) % Len(numbers))])]

\* All values of the narrow types, the ends of the wide ones, and numbers
\* that do not fit.
Numbers ==
  All(<<"int", "enum", "int32_t">>, <<-8, -1, 0, 7>>)
    \o All(<<"long">>, <<-9, -8, 7, 8>>)
    \o All(<<"u_int", "uint32_t">>, <<0, 7, 8, 15>>)
    \o All(<<"u_long">>, <<0, 15, 16>>)
    \o All(<<"short", "char", "int16_t", "int8_t">>, <<-2, -1, 0, 1>>)
    \o All(<<"u_short", "u_char", "uint16_t", "uint8_t">>, <<0, 1, 2, 3>>)
    \o All(<<"hyper", "int64_t">>, <<-128, -120, -9, -8, -1, 0, 7, 8, 127>>)
    \o All(<<"u_hyper", "uint64_t">>, <<0, 7, 8, 16, 128, 136, 255>>)
    \o All(<<"longlong_t">>, <<-9, 8>>) \o All(<<"u_longlong_t">>, <<8, 136>>)
    \o All(<<"bool">>, <<0, 1>>)

Bts(b) == IF b = <<>> THEN [len |-> 0, data |-> NULL] ELSE [len |-> Len(b), data |-> Pointer(b)]
Str(b) == Pointer(b)

Blobs == <<C(<<"bytes", 3>>, Bts(<<>>)), C(<<"bytes", 3>>, Bts(<<1, 2, 3>>)),
           C(<<"bytes", 3>>, Bts(<<1, 2>>)), C(<<"bytes", 3>>, Bts(<<1, 2, 3, 3>>)),
           C(<<"netobj">>, Bts(<<3>>)), C(<<"netobj">>, Bts(<<3, 3, 3>>)),
           C(<<"string", 2>>, Str(<<>>)), C(<<"string", 2>>, Str(<<1, 3>>)),
           C(<<"string", 2>>, Str(<<1, 2, 3>>)), C(<<"string", 2>>, NULL),
           C(<<"wrapstring">>, Str(<<1, 2, 3>>))>>

Choice == <<"union", (0 :> <<"void">> @@ 1 :> <<"string", 3>> @@ -1 :> <<"bytes", 2>>), NULL>>
ChoiceOrElse == <<"union", (0 :> <<"void">> @@ 1 :> <<"u_short">>), <<"string", 2>> >>
U(d, o) == [disc |-> d, arm |-> o]

Item == <<"struct", <<"string", 2>>, Choice>>
Items(s) == IF s = <<>> THEN [len |-> 0, data |-> NULL] ELSE [len |-> Len(s), data |-> Pointer(s)]

RECURSIVE ListOf(_)
ListOf(s) == <<Head(s), IF Len(s) = 1 THEN NULL ELSE Pointer(ListOf(Tail(s)))>>

Names == <<"array", 3, 2, <<"string", 1>> >>

Compounds ==
  <<C(Choice, U(1, Str(<<2, 1>>))), C(Choice, U(-1, Bts(<<3>>))), C(Choice, U(2, NULL)),
    C(ChoiceOrElse, U(1, 3)), C(ChoiceOrElse, U(-8, Str(<<1>>))), C(ChoiceOrElse, U(7, Str(<<1, 2, 3>>))),
    C(<<"array", 2, 4, Item>>, Items(<< <<Str(<<1>>), U(1, Str(<<2>>))>>,
                                       <<Str(<<>>), U(-1, Bts(<<1>>))>> >>)),
    C(<<"array", 2, 4, Item>>, Items(<<>>)),
    C(<<"array", 2, 4, Choice>>, Items(<<U(1, Str(<<1>>)), U(2, NULL)>>)),
    C(Names, Items(<<Str(<<1>>), Str(<<2>>), Str(<<3>>)>>)),
    C(<<"array", 1, 2, <<"short">> >>, Items(<<1, 1>>)),
    C(<<"array", 9, 8, <<"hyper">> >>, Items(<<1>>)),
    C(<<"array", 9, 8, <<"hyper">> >>, Items(<<1, 2>>)),
    C(<<"vector", 2, <<"reference", <<"u_short">> >> >>, <<Pointer(3), Pointer(1)>>),
    C(<<"vector", 2, <<"reference", <<"u_short">> >> >>, <<Pointer(3), NULL>>),
    C(<<"pointer", Names>>, Pointer(Items(<<Str(<<1>>)>>))),
    C(<<"list">>, ListOf(<<1, 0, -2>>)),
    C(<<"struct", <<"pointer", <<"bytes", 2>> >>, <<"list">>, <<"bool">> >>,
      <<Pointer(Bts(<<1, 1>>)), ListOf(<<1, -1>>), 1>>)>>

AllCases == Numbers \o Blobs \o Compounds

=============================================================================
