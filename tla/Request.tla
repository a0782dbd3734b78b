------------------------------ MODULE Request ------------------------------
(***************************************************************************)
(* The table of requests of the api crate (request.rs): the command word   *)
(* each kind of request is sent under, the word its reply is recognised    *)
(* by, and whether the client may send it more than once.  Layout adds the *)
(* arguments.                                                              *)
(***************************************************************************)
EXTENDS Naturals

\* Request::command_word.  A Raw request is sent under the first of its own
\* bytes, and under 0 when it has none.
CommandWord ==
  [ Identify              |-> \h00, Bind                 |-> \h18,
    BattgoInfo            |-> \h40, BattgoOem            |-> \h42,
    BattgoRealState       |-> \h44, BattgoWriteParameters |-> \h46,
    BattgoReadParameters  |-> \h48, SmartPowerInfo       |-> \hBA,
    SetSmartPower         |-> \hBC, SmartPowerParameters |-> \hBE,
    SetName               |-> \hC0, SetLimitParameters   |-> \hD0,
    SetOneKeyLaunch       |-> \hD2, OneKeyLaunch         |-> \hD4,
    Calibrate8            |-> \hDC, Calibrate6           |-> \hDE,
    HardwareInfo          |-> \hE0, LimitParameters      |-> \hE2,
    Electrical            |-> \hE4, WorkState            |-> \hE6,
    Temperature           |-> \hE8, SetTask              |-> \hEA,
    EnterBootloader       |-> \hF0, EraseApp             |-> \hF2,
    WriteApp              |-> \hF4, ChecksumApp          |-> \hF6,
    InnerResistance       |-> \hFA, Reboot               |-> \hFC,
    Raw                   |-> \h00 ]

RequestKinds == DOMAIN CommandWord

\* The kinds whose Option<u8> reply word is None: whatever comes answers them.
NoWord == 256
Wildcards == {"Identify", "Raw"}

\* Request::reply_word, the addition wrapping at the width of a u8.
ReplyWord(k) == IF k \in Wildcards THEN NoWord ELSE (CommandWord[k] + 1) % 256

\* Request::is_retryable: the firmware operations, the reboot and Raw are not.
NotRetryable ==
  {"EnterBootloader", "EraseApp", "WriteApp", "ChecksumApp", "Reboot", "Raw"}

\* (mutant: the block writes of a firmware are taken for setters)
IsRetryableOrWrite(k) == k \notin NotRetryable \ {"WriteApp"}

IsRetryable(k) == k \notin NotRetryable
=============================================================================
