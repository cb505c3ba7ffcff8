-------------------------- MODULE MCStartParameters --------------------------
(* A complete command line of an IDE, with some tokens before and any single *)
(* option, with any value, behind it: every option is missing, repeated,     *)
(* legal, illegal or without a value at some time.                           *)
EXTENDS StartParameters

MCValues == {"", "app", "a:b", "file", "rect", "circle", "true", "false", "region",
             "dark", "portrait", "ACE_1_0", "static", "Stage", "phone", "liteWearable",
             "fridge", "5", "1280", "3000", "4000", "60000", "600000", "1280x", "long", "huge"}
MCNumeric == {"1280", "3000", "4000", "60000", "600000", "1280x"}
MCAtoi == [v \in MCValues |->
    CASE v \in {"1280", "1280x"} -> 1280 [] v = "3000" -> 3000 [] v = "4000" -> 4000 [] v = "60000" -> 60000
      [] v = "600000" -> 600000 [] v = "5" -> 5 [] OTHER -> 0]
MCPlain == MCValues \ {"", "a:b"}

Base(device) ==
    <<"-j", "app", "-url", "file", "-or", "1280", "3000", "-cr", "1280", "1280">> \o device
Sized(size) == <<"-j", "app", "-cr", "1280", "1280", "-url", "file", "-or">> \o size
Alone == {<<>>, <<"-d", "-abp", "-card", "true">>, <<"-card", "true", "-l", "file">>}
Before == Alone \cup {<<"-x", "true">>, <<"-d", "-abp", "app", "-p", "1280">>,
                      <<"-hs", "60000", "-hf">>}
Behind == {<<>>} \cup {<<o>> : o \in Options} \cup {<<o, v>> : o \in Options, v \in MCValues}
MCCommandLines ==
    {b \o Base(<<"-device", "phone">>) \o e : b \in Before, e \in Behind}
    \cup {b \o Base(d) \o e : b \in Alone, e \in Behind, d \in {<<>>, <<"-device", "liteWearable">>}}
    \cup {Sized(s) \o e : e \in Behind,
             s \in {<<>>, <<"1280">>, <<"1280", "1280x">>, <<"5", "1280">>}}
=============================================================================
