-------------------------------- MODULE Codec --------------------------------
(***************************************************************************)
(* The MessagePack encoders of staking/types and crosschain/types.  Every   *)
(* generated function is given by the table it implements: what it writes,  *)
(* in order; the key switch with which it reads; the bound it returns.  The *)
(* walks over the tables are the common shape of the generated functions.   *)
(*                                                                         *)
(* A message is a sequence of tokens [t, x, n]: type, content, bytes.  Byte *)
(* arrays are names, their length is part of the type; a string is its      *)
(* length.  A slice is [n, mem]: its length and the cells of its capacity.  *)
(***************************************************************************)
EXTENDS Integers, SequencesExt, TLC

CONSTANTS Values,       \* the objects encoded, per type
          Zero          \* the new object of each type

-----------------------------------------------------------------------------
\* The library's tokens.
IntBytes(i) == IF i \in -32..127 THEN 1 ELSE IF i \in -128..255 THEN 2 ELSE IF i \in -32768..65535 THEN 3 ELSE 5
StrBytes(l) == l + (IF l < 32 THEN 1 ELSE IF l < 256 THEN 2 ELSE IF l < 65536 THEN 3 ELSE 5)
BinLength == [bin20 |-> 20, bin32 |-> 32, bin33 |-> 33, bin36 |-> 36]
Token(t, x) == [t |-> t, x |-> x,
                n |-> IF t \in {"int", "uint"} THEN IntBytes(x) ELSE IF t = "text" THEN StrBytes(x)
                      ELSE IF t \in DOMAIN BinLength THEN 2 + BinLength[t] ELSE 1]
Nil == Token("nil", 0)
Key(k) == [t |-> "key", x |-> k, n |-> 1 + Len(k)]
Header(t, k) == [t |-> t, x |-> k, n |-> IF k < 16 THEN 1 ELSE 3]
RECURSIVE Bytes(_)
Bytes(msg) == IF Len(msg) < 2 THEN (IF msg = <<>> THEN 0 ELSE msg[1].n)
              ELSE LET half == Len(msg) \div 2
                   IN  Bytes(SubSeq(msg, 1, half)) + Bytes(SubSeq(msg, half + 1, Len(msg)))

\* What the library's constants allow for a value of a type.
MaxBytes(t, x) == IF t \in {"int", "uint"} THEN 9 ELSE IF t = "bool" THEN 1 ELSE IF t = "text" THEN 5 + x
                  ELSE 5 + BinLength[t]

\* Skip passes over one value, whatever it holds.
Parts(tok) == IF tok.t = "map" THEN 2 * tok.x ELSE IF tok.t = "arr" THEN tok.x ELSE 0
Ends(msg, k) == FoldLeft(LAMBDA a, tok : a + Parts(tok), 1, SubSeq(msg, 1, k)) = k
Skipped(msg) == IF \E k \in DOMAIN msg : Ends(msg, k)
                THEN CHOOSE k \in DOMAIN msg : Ends(msg, k) /\ \A j \in 1..(k - 1) : ~ Ends(msg, j)
                ELSE 0

-----------------------------------------------------------------------------
Nomination_EncodeMsg == <<<<"Pubkey", "bin32">>, <<"NominatedCount", "int">>>>
Nomination_DecodeMsg == [Pubkey |-> "bin32", NominatedCount |-> "int"]
Nomination_MarshalMsg == <<<<"Pubkey", "bin32">>, <<"NominatedCount", "int">>>>
Nomination_UnmarshalMsg == [Pubkey |-> "bin32", NominatedCount |-> "int"]
Nomination_Msgsize == <<1, <<7, "Pubkey", "bin32">>, <<15, "NominatedCount", "int">>>>

PendingReward_EncodeMsg == <<<<"Address", "bin20">>, <<"EpochNum", "int">>, <<"Amount", "bin32">>>>
PendingReward_DecodeMsg == [Address |-> "bin20", EpochNum |-> "int", Amount |-> "bin32"]
PendingReward_MarshalMsg == <<<<"Address", "bin20">>, <<"EpochNum", "int">>, <<"Amount", "bin32">>>>
PendingReward_UnmarshalMsg == [Address |-> "bin20", EpochNum |-> "int", Amount |-> "bin32"]
PendingReward_Msgsize == <<1, <<8, "Address", "bin20">>, <<9, "EpochNum", "int">>, <<7, "Amount", "bin32">>>>

Validator_EncodeMsg ==
    <<<<"Address", "bin20">>, <<"Pubkey", "bin32">>, <<"RewardTo", "bin20">>, <<"VotingPower", "int">>,
      <<"Introduction", "text">>, <<"StakedCoins", "bin32">>, <<"IsRetiring", "bool">>>>
Validator_DecodeMsg ==
    [Address |-> "bin20", Pubkey |-> "bin32", RewardTo |-> "bin20", VotingPower |-> "int",
     Introduction |-> "text", StakedCoins |-> "bin32", IsRetiring |-> "bool"]
Validator_MarshalMsg ==
    <<<<"Address", "bin20">>, <<"Pubkey", "bin32">>, <<"RewardTo", "bin20">>, <<"VotingPower", "int">>,
      <<"Introduction", "text">>, <<"StakedCoins", "bin32">>, <<"IsRetiring", "bool">>>>
\* A slip: the flag is not among the cases.
Validator_UnmarshalShort ==
    [Address |-> "bin20", Pubkey |-> "bin32", RewardTo |-> "bin20", VotingPower |-> "int",
     Introduction |-> "text", StakedCoins |-> "bin32"]
Validator_UnmarshalMsg ==
    [Address |-> "bin20", Pubkey |-> "bin32", RewardTo |-> "bin20", VotingPower |-> "int",
     Introduction |-> "text", StakedCoins |-> "bin32", IsRetiring |-> "bool"]
Validator_Msgsize ==
    <<1, <<8, "Address", "bin20">>, <<7, "Pubkey", "bin32">>, <<9, "RewardTo", "bin20">>,
      <<12, "VotingPower", "int">>, <<13, "Introduction", "text">>, <<12, "StakedCoins", "bin32">>,
      <<11, "IsRetiring", "bool">>>>

CCTransferInfo_EncodeMsg == <<<<"UTXO", "bin36">>, <<"Amount", "uint">>, <<"SenderPubkey", "bin33">>>>
CCTransferInfo_DecodeMsg == [UTXO |-> "bin36", Amount |-> "uint", SenderPubkey |-> "bin33"]
CCTransferInfo_MarshalMsg == <<<<"UTXO", "bin36">>, <<"Amount", "uint">>, <<"SenderPubkey", "bin33">>>>
CCTransferInfo_UnmarshalMsg == [UTXO |-> "bin36", Amount |-> "uint", SenderPubkey |-> "bin33"]
CCTransferInfo_Msgsize == <<1, <<5, "UTXO", "bin36">>, <<7, "Amount", "uint">>, <<13, "SenderPubkey", "bin33">>>>

CCInfo_EncodeMsg == <<<<"GenesisMainnetBlockHeight", "int">>, <<"CurrEpochNum", "int">>>>
CCInfo_DecodeMsg == [GenesisMainnetBlockHeight |-> "int", CurrEpochNum |-> "int"]
CCInfo_MarshalMsg == <<<<"GenesisMainnetBlockHeight", "int">>, <<"CurrEpochNum", "int">>>>
CCInfo_UnmarshalMsg == [GenesisMainnetBlockHeight |-> "int", CurrEpochNum |-> "int"]
CCInfo_Msgsize == <<1, <<26, "GenesisMainnetBlockHeight", "int">>, <<13, "CurrEpochNum", "int">>>>

Epoch_EncodeMsg ==
    <<<<"Number", "int">>, <<"StartHeight", "int">>, <<"EndTime", "int">>, <<"Nominations", "Nomination">>>>
Epoch_DecodeMsg == [Number |-> "int", StartHeight |-> "int", EndTime |-> "int", Nominations |-> "Nomination"]
Epoch_MarshalMsg ==
    <<<<"Number", "int">>, <<"StartHeight", "int">>, <<"EndTime", "int">>, <<"Nominations", "Nomination">>>>
Epoch_UnmarshalMsg == [Number |-> "int", StartHeight |-> "int", EndTime |-> "int", Nominations |-> "Nomination"]
Epoch_Msgsize ==
    <<1, <<7, "Number", "int">>, <<12, "StartHeight", "int">>, <<8, "EndTime", "int">>,
      <<12, "Nominations", "Nomination">>>>

CCEpoch_EncodeMsg ==
    <<<<"Number", "int">>, <<"StartHeight", "int">>, <<"EndTime", "int">>, <<"TransferInfos", "CCTransferInfo">>>>
CCEpoch_DecodeMsg ==
    [Number |-> "int", StartHeight |-> "int", EndTime |-> "int", TransferInfos |-> "CCTransferInfo"]
CCEpoch_MarshalMsg ==
    <<<<"Number", "int">>, <<"StartHeight", "int">>, <<"EndTime", "int">>, <<"TransferInfos", "CCTransferInfo">>>>
CCEpoch_UnmarshalMsg ==
    [Number |-> "int", StartHeight |-> "int", EndTime |-> "int", TransferInfos |-> "CCTransferInfo"]
CCEpoch_Msgsize ==
    <<1, <<7, "Number", "int">>, <<12, "StartHeight", "int">>, <<8, "EndTime", "int">>,
      <<14, "TransferInfos", "CCTransferInfo">>>>

StakingInfo_EncodeMsg ==
    <<<<"GenesisMainnetBlockHeight", "int">>, <<"CurrEpochNum", "int">>, <<"Validators", "Validator">>,
      <<"ValidatorsUpdate", "Validator">>, <<"PendingRewards", "PendingReward">>>>
StakingInfo_DecodeMsg ==
    [GenesisMainnetBlockHeight |-> "int", CurrEpochNum |-> "int", Validators |-> "Validator",
     ValidatorsUpdate |-> "Validator", PendingRewards |-> "PendingReward"]
StakingInfo_MarshalMsg ==
    <<<<"GenesisMainnetBlockHeight", "int">>, <<"CurrEpochNum", "int">>, <<"Validators", "Validator">>,
      <<"ValidatorsUpdate", "Validator">>, <<"PendingRewards", "PendingReward">>>>
StakingInfo_UnmarshalMsg ==
    [GenesisMainnetBlockHeight |-> "int", CurrEpochNum |-> "int", Validators |-> "Validator",
     ValidatorsUpdate |-> "Validator", PendingRewards |-> "PendingReward"]
StakingInfo_Msgsize ==
    <<1, <<26, "GenesisMainnetBlockHeight", "int">>, <<13, "CurrEpochNum", "int">>, <<11, "Validators", "Validator">>,
      <<17, "ValidatorsUpdate", "Validator">>, <<15, "PendingRewards", "PendingReward">>>>

\* A heap is a slice without a map around it.
NominationHeap_EncodeMsg == <<<<"", "Nomination">>>>
NominationHeap_DecodeMsg == ("" :> "Nomination")
NominationHeap_MarshalMsg == <<<<"", "Nomination">>>>
NominationHeap_UnmarshalMsg == ("" :> "Nomination")
NominationHeap_Msgsize == <<0, <<0, "", "Nomination">>>>

-----------------------------------------------------------------------------
Stream == "stream"      \* EncodeMsg and DecodeMsg, with a writer and a reader
Memory == "memory"      \* MarshalMsg and UnmarshalMsg, with byte slices

Types == {"Nomination", "PendingReward", "Validator", "CCTransferInfo", "CCInfo", "Epoch", "CCEpoch",
          "StakingInfo", "NominationHeap"}

Writes(mode, T) ==
    LET enc == [Nomination |-> Nomination_EncodeMsg, PendingReward |-> PendingReward_EncodeMsg,
                Validator |-> Validator_EncodeMsg, CCTransferInfo |-> CCTransferInfo_EncodeMsg,
                CCInfo |-> CCInfo_EncodeMsg, Epoch |-> Epoch_EncodeMsg, CCEpoch |-> CCEpoch_EncodeMsg,
                StakingInfo |-> StakingInfo_EncodeMsg, NominationHeap |-> NominationHeap_EncodeMsg]
        mar == [Nomination |-> Nomination_MarshalMsg, PendingReward |-> PendingReward_MarshalMsg,
                Validator |-> Validator_MarshalMsg, CCTransferInfo |-> CCTransferInfo_MarshalMsg,
                CCInfo |-> CCInfo_MarshalMsg, Epoch |-> Epoch_MarshalMsg, CCEpoch |-> CCEpoch_MarshalMsg,
                StakingInfo |-> StakingInfo_MarshalMsg, NominationHeap |-> NominationHeap_MarshalMsg]
    IN  IF mode = Stream THEN enc[T] ELSE mar[T]

Reads(mode, T) ==
    LET dec == [Nomination |-> Nomination_DecodeMsg, PendingReward |-> PendingReward_DecodeMsg,
                Validator |-> Validator_DecodeMsg, CCTransferInfo |-> CCTransferInfo_DecodeMsg,
                CCInfo |-> CCInfo_DecodeMsg, Epoch |-> Epoch_DecodeMsg, CCEpoch |-> CCEpoch_DecodeMsg,
                StakingInfo |-> StakingInfo_DecodeMsg, NominationHeap |-> NominationHeap_DecodeMsg]
        unm == [Nomination |-> Nomination_UnmarshalMsg, PendingReward |-> PendingReward_UnmarshalMsg,
                Validator |-> Validator_UnmarshalMsg, CCTransferInfo |-> CCTransferInfo_UnmarshalMsg,
                CCInfo |-> CCInfo_UnmarshalMsg, Epoch |-> Epoch_UnmarshalMsg, CCEpoch |-> CCEpoch_UnmarshalMsg,
                StakingInfo |-> StakingInfo_UnmarshalMsg, NominationHeap |-> NominationHeap_UnmarshalMsg]
    IN  IF mode = Stream THEN dec[T] ELSE unm[T]

Sizes(T) ==
    [Nomination |-> Nomination_Msgsize, PendingReward |-> PendingReward_Msgsize, Validator |-> Validator_Msgsize,
     CCTransferInfo |-> CCTransferInfo_Msgsize, CCInfo |-> CCInfo_Msgsize, Epoch |-> Epoch_Msgsize,
     CCEpoch |-> CCEpoch_Msgsize, StakingInfo |-> StakingInfo_Msgsize,
     NominationHeap |-> NominationHeap_Msgsize][T]

-----------------------------------------------------------------------------
NilCell == [nil |-> TRUE]
Cells(slice) == SubSeq(slice.mem, 1, slice.n)

\* Writing an object without slices, a slice of such objects, any object.
WriteFlat(table, z) ==
    <<Header("map", Len(table))>>
       \o FlattenSeq([i \in DOMAIN table |-> <<Key(table[i][1]), Token(table[i][2], z[table[i][1]])>>])
WriteSlice(mode, T, slice) ==
    LET cells == Cells(slice)
    IN  <<Header("arr", slice.n)>>
           \o FlattenSeq([i \in DOMAIN cells |->
                             IF cells[i] = NilCell THEN <<Nil>> ELSE WriteFlat(Writes(mode, T), cells[i])])
WriteField(mode, t, x) == IF t \in Types THEN WriteSlice(mode, t, x) ELSE <<Token(t, x)>>
Encode(mode, T, z) ==
    LET table == Writes(mode, T)
        field(i) == WriteField(mode, table[i][2], z[table[i][1]])
    IN  IF table[1][1] = "" THEN field(1)
        ELSE <<Header("map", Len(table))>>
                \o FlattenSeq([i \in DOMAIN table |-> <<Key(table[i][1])>> \o field(i)])

\* A reader: the object, what is left of the message, and whether a read has failed.
Failed(s) == [s EXCEPT !.err = TRUE]
Next1(s, t) == Len(s.in) > 0 /\ Head(s.in).t = t
ReadScalar(s, key, t) ==
    IF Next1(s, t) THEN [s EXCEPT !.z[key] = Head(s.in).x, !.in = Tail(s.in)] ELSE Failed(s)
ReadUnknown(s) ==
    LET k == Skipped(s.in) IN IF k = 0 THEN Failed(s) ELSE [s EXCEPT !.in = SubSeq(s.in, k + 1, Len(s.in))]

\* The loop over the keys of a map, with its switch.
ReadMap(s, ReadCase(_, _)) ==
    IF ~ Next1(s, "map") THEN Failed(s)
    ELSE LET step(a, i) == IF a.err THEN a
                           ELSE IF ~ Next1(a, "key") THEN Failed(a)
                           ELSE ReadCase([a EXCEPT !.in = Tail(a.in)], Head(a.in).x)
         IN  FoldLeft(step, [s EXCEPT !.in = Tail(s.in)], [i \in 1..Head(s.in).x |-> i])

ReadFlat(s, table) ==
    ReadMap(s, LAMBDA a, key : IF key \in DOMAIN table THEN ReadScalar(a, key, table[key]) ELSE ReadUnknown(a))

\* One cell of a slice: the object it holds already is read into, a new one only if there is none.
ReadCell(s, mode, key, T, i) ==
    IF s.err THEN s
    ELSE IF Next1(s, "nil") THEN [s EXCEPT !.z[key].mem[i] = NilCell, !.in = Tail(s.in)]
    ELSE LET old == s.z[key].mem[i]
             r == ReadFlat([z |-> IF old = NilCell THEN Zero[T] ELSE old, in |-> s.in, err |-> FALSE],
                           Reads(mode, T))
         IN  [z |-> [s.z EXCEPT ![key].mem[i] = r.z], in |-> r.in, err |-> r.err]

\* A slice is reused if its capacity suffices.
ReadSlice(s, mode, key, T) ==
    IF ~ Next1(s, "arr") THEN Failed(s)
    ELSE LET n == Head(s.in).x
             mem == s.z[key].mem
             fresh == [n |-> n, mem |-> IF Len(mem) >= n THEN mem ELSE [i \in 1..n |-> NilCell]]
         IN  FoldLeft(LAMBDA a, i : ReadCell(a, mode, key, T, i),
                      [s EXCEPT !.z[key] = fresh, !.in = Tail(s.in)], [i \in 1..n |-> i])

\* The reader advances through what it has read; UnmarshalMsg returns nothing when it fails.
Decode(mode, T, z, msg) ==
    LET table == Reads(mode, T)
        s == [z |-> z, in |-> msg, err |-> FALSE]
        case(a, key) == IF key \notin DOMAIN table THEN ReadUnknown(a)
                        ELSE IF table[key] \in Types THEN ReadSlice(a, mode, key, table[key])
                        ELSE ReadScalar(a, key, table[key])
        r == IF "" \in DOMAIN table THEN ReadSlice(s, mode, "", table[""]) ELSE ReadMap(s, case)
    IN  IF mode = Memory /\ r.err THEN [r EXCEPT !.in = <<>>] ELSE r

\* The bound that a Msgsize function adds up.
TermSize(term, z) ==
    IF term[3] \in Types
    THEN 5 + FoldLeft(LAMBDA a, c : a + (IF c = NilCell THEN 1
                          ELSE LET sub == Sizes(term[3])
                               IN  FoldLeft(LAMBDA b, t : b + t[1] + MaxBytes(t[3], c[t[2]]), sub[1], Tail(sub))),
                      0, Cells(z[term[2]]))
    ELSE MaxBytes(term[3], z[term[2]])
Msgsize(T, z) == FoldLeft(LAMBDA a, t : a + t[1] + TermSize(t, z), Sizes(T)[1], Tail(Sizes(T)))

-----------------------------------------------------------------------------
VARIABLES T, mode, obj, val, cut, res, phase

vars == <<T, mode, obj, val, cut, res, phase>>

Init ==
    /\ T \in Types /\ mode \in {Stream, Memory} /\ obj = Zero[T] /\ val \in Values[T]
    /\ cut = 0 /\ res = [z |-> obj, in |-> <<>>, err |-> FALSE] /\ phase = "new"

\* An object was in use before: it has read another message, or failed in the middle of one.
ReadCut ==
    /\ phase = "new" /\ phase' = "cut" /\ UNCHANGED <<T, mode, val>>
    /\ \E w \in Values[T] : LET msg == Encode(mode, T, w)
                            IN  \E k \in 0..Len(msg) :
                                   /\ cut' = Len(msg) - k /\ res' = Decode(mode, T, obj, SubSeq(msg, 1, k))
                                   /\ obj' = res'.z

After == <<Key("after")>>

\* It reads the message of val, after which the stream goes on.
ReadWhole ==
    /\ phase' = "whole" /\ phase # "whole" /\ UNCHANGED <<T, mode, val, cut>>
    /\ res' = Decode(mode, T, obj, Encode(mode, T, val) \o After) /\ obj' = res'.z

\* The message was written by a version whose type has one more field, a list.
ReadNewer ==
    /\ phase' = "whole" /\ phase # "whole" /\ T # "NominationHeap" /\ UNCHANGED <<T, mode, val, cut>>
    /\ LET msg == Encode(mode, T, val)
           newer == <<Header("map", Head(msg).x + 1), Key("New"), Header("arr", 2), Token("int", 1), Nil>> \o Tail(msg)
       IN  res' = Decode(mode, T, obj, newer \o After)
    /\ obj' = res'.z

Next == ReadCut \/ ReadWhole \/ ReadNewer

Spec == Init /\ [][Next]_vars

-----------------------------------------------------------------------------
\* Two objects with the same content: slices are compared up to their length.
Same(z, w) ==
    \A i \in DOMAIN Writes(mode, T) :
       LET key == Writes(mode, T)[i][1]
       IN  IF Writes(mode, T)[i][2] \in Types THEN Cells(z[key]) = Cells(w[key]) ELSE z[key] = w[key]

\* What is loaded is what was saved, whatever the object held before, and the rest of the stream is
\* left where it was; a field of a newer version is passed over (LoadStakingInfo after SaveStakingInfo).
RoundTrip == phase = "whole" => ~ res.err /\ Same(obj, val) /\ res.in = After

\* A message that ends too early is refused: a torn record is never taken for a shorter one.
TruncationRefused == phase = "cut" => (res.err <=> cut > 0)

\* The estimate that MarshalMsg reserves covers the message ("an upper bound estimate of the number of
\* bytes occupied by the serialized message").
MsgsizeBounds == Bytes(Encode(mode, T, val)) <= Msgsize(T, val)

\* A record survives being stored: it is read as it was written, a torn one is refused, and the
\* buffer reserved for it is large enough.
RecordsSafe == RoundTrip /\ TruncationRefused /\ MsgsizeBounds

==============================================================================
