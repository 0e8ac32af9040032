---------------------------- MODULE EntropyVerdict ----------------------------
(***************************************************************************)
(* The verdict of rename_entropy_path_rename: the Shannon entropy of the   *)
(* new name, in integer arithmetic with a table of logarithms, against a   *)
(* threshold.  The alert and the kill are StrikeTracker's RenameBlocked.   *)
(*                                                                         *)
(* A name is the frequency of each of its characters and the kind of its   *)
(* extension: "listed" is log, git, tmp or swp, or begins with one and has *)
(* four characters; "other" stands for all the rest.                       *)
(***************************************************************************)
EXTENDS ModuleSwitch, FiniteSetsExt, Functions

CONSTANT MaxLength  \* bound: length of a name; NAME_MAX is 255

ASSUME NameAssumption == MaxLength \in 1 .. 255

VARIABLES
  call,    \* the name: k characters that occur c times each, in which place
  verdict  \* "none" between two calls

renameVars == <<call, verdict>>

(* "floor(log2(x) * 1024)", from x = 0 on.                                 *)
scaled_log2 == <<
     0,    0, 1024, 1623, 2048, 2377, 2647, 2874, 3072, 3246, 3401, 3542,
  3671, 3790, 3900, 4004, 4100, 4191, 4276, 4356, 4432, 4504, 4572, 4638,
  4700, 4760, 4817, 4872, 4925, 4976, 5026, 5074, 5120, 5164, 5208, 5250,
  5291, 5332, 5371, 5410, 5448, 5485, 5521, 5557, 5592, 5626, 5660, 5693,
  5726, 5758, 5789, 5820, 5851, 5881, 5910, 5939, 5968, 5996, 6024, 6052,
  6079, 6106, 6132, 6158, 6184, 6209, 6234, 6259, 6283, 6307, 6331, 6355,
  6378, 6401, 6424, 6446, 6468, 6490, 6512, 6533, 6555, 6576, 6596, 6617,
  6638, 6658, 6678, 6698, 6718, 6737, 6757, 6776, 6795, 6814, 6833, 6851,
  6870, 6888, 6906, 6924, 6942, 6960, 6977, 6995, 7012, 7029, 7046, 7063,
  7080, 7096, 7113, 7129, 7145, 7161, 7177, 7193, 7209, 7224, 7240, 7255,
  7270, 7285, 7300, 7315, 7330, 7345, 7359, 7374, 7388, 7402, 7416, 7430,
  7444, 7458, 7472, 7486, 7499, 7513, 7526, 7540, 7553, 7566, 7579, 7592,
  7605, 7618, 7631, 7643, 7656, 7668, 7681, 7693, 7705, 7718, 7730, 7742,
  7754, 7766, 7778, 7789, 7801, 7813, 7824, 7836, 7847, 7859, 7870, 7881,
  7892, 7903, 7914, 7925, 7936, 7947, 7958, 7969, 7979, 7990, 8000, 8011,
  8021, 8032, 8042, 8052, 8062, 8072, 8083, 8093, 8103, 8113, 8123, 8132,
  8142, 8152, 8162, 8171, 8181, 8191, 8200, 8210, 8219, 8229, 8238, 8247,
  8257, 8266, 8275, 8284, 8294, 8303, 8312, 8321, 8330, 8339, 8348, 8356,
  8365, 8374, 8383, 8392, 8400, 8409, 8418, 8426, 8435, 8443, 8452, 8460,
  8469, 8477, 8485, 8494, 8502, 8510, 8518, 8527, 8535, 8543, 8551, 8559,
  8567, 8575, 8583, 8591, 8599, 8607, 8615, 8622, 8630, 8638, 8646, 8653,
  8661, 8669, 8676, 8684>>

LogShifted(x) == scaled_log2[x]  \* mutant: the table begins with log2(1)

Log(x) == scaled_log2[x + 1]

Length(counts) == SumFunctionOnSet(counts, DOMAIN counts)

(* sum_c_log_c                                                             *)
compute_entropy(counts) ==
  MapThenSumSet(LAMBDA ch : counts[ch] * Log(counts[ch]), DOMAIN counts)

(* h_scaled, which never goes below zero.                                  *)
Entropy(counts) ==
  LET nlen == Length(counts)
      mean == compute_entropy(counts) \div nlen
  IN  IF Log(nlen) > mean THEN Log(nlen) - mean ELSE 0

ENTROPY_THRESHOLD_SCALED == 4300

(* Short names and listed extensions pass, and so does a rename between    *)
(* directories of which neither is protected.                              *)
Denied(watched, extension, counts) ==
  /\ watched
  /\ Length(counts) >= 8
  /\ extension # "listed"
  /\ Entropy(counts) > ENTROPY_THRESHOLD_SCALED

Uniform(k, c) == [ch \in 1 .. k |-> c]
NoCall == [on |-> FALSE, watched |-> FALSE, extension |-> "other", k |-> 1, c |-> 1]

InitRename == call = NoCall /\ verdict = "none"

PathRename(watched, extension, k, c) ==
  /\ verdict = "none"
  /\ call' = [on |-> state, watched |-> watched, extension |-> extension,
              k |-> k, c |-> c]
  /\ verdict' = IF state /\ Denied(watched, extension, Uniform(k, c))
                  THEN "denied" ELSE "allowed"
  /\ UNCHANGED switchVars

Return ==
  /\ verdict # "none"
  /\ call' = NoCall /\ verdict' = "none"
  /\ UNCHANGED switchVars

RenameNext ==
  \/ \E watched \in BOOLEAN, extension \in {"listed", "other"},
        k \in 1 .. MaxLength : \E c \in 1 .. (MaxLength \div k) :
       PathRename(watched, extension, k, c)
  \/ Return
  \/ /\ \/ \E enabled \in BOOLEAN : WriteFlag(enabled)
        \/ InitModule \/ SetModuleState \/ Crash
     /\ UNCHANGED renameVars
-----------------------------------------------------------------------------
(* The entropy of a name of k characters, each c times, is log2(k), above  *)
(* the code's 4.2 from k = 19 on.  Of names that are long enough and not   *)
(* exempt all those are denied, and no others, but for names of 64         *)
(* characters and more, for which the table of logarithms is too large.    *)
VerdictIsRight ==
  LET eligible == /\ call.on /\ call.watched /\ call.extension = "other"
                  /\ call.k * call.c >= 8
  IN
  /\ verdict = "allowed" => ~(eligible /\ call.k >= 19)
  /\ verdict = "denied" => eligible /\ (call.k >= 19 \/ call.k * call.c >= 64)
=============================================================================
