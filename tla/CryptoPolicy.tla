------------------------------ MODULE CryptoPolicy ------------------------------
(***************************************************************************)
(* How strong a session's key exchange is: gateway/crypto_policy.c, the    *)
(* sources of the classification in sctp_gateway.c (read_data_class), and  *)
(* the mapping from a level to an algorithm in pqc_handshake.c.  Pure      *)
(* operators; a token stands for every spelling of it (strcasecmp).        *)
(***************************************************************************)
EXTENDS Integers

ML_KEM_512  == 0
ML_KEM_768  == 1
ML_KEM_1024 == 2
Levels == {ML_KEM_512, ML_KEM_768, ML_KEM_1024}
CRYPTO_FLOOR == ML_KEM_768

\* What a level byte on the wire may be; 3 stands for all values that name no level.
LevelBytes == Levels \cup {3}

DataClasses == {"ROUTINE", "SENSITIVE", "CRITICAL"}

\* A token of the classification file or of the environment; "other" is any word
\* that is not a classification.
Tokens == {"routine", "sensitive", "critical", "other"}
Unset == "unset"   \* getenv returned NULL
Absent == "absent" \* the file cannot be opened
Empty == "empty"   \* it holds no token: fscanf does not return 1

data_class_from_str(s) ==
    CASE s = "critical"  -> "CRITICAL"
      [] s = "sensitive" -> "SENSITIVE"
      [] OTHER           -> "ROUTINE"

\* The file when it holds a token, else the environment.
read_data_class(file, env) ==
    data_class_from_str(IF file \in {Absent, Empty} THEN env ELSE file)

\* Mutated form: routine data is thought not to need the floor.
SelectByClass(class) ==
    CASE class = "CRITICAL"  -> ML_KEM_1024
      [] class = "SENSITIVE" -> ML_KEM_768
      [] OTHER               -> ML_KEM_512

select_kem(class) == IF class = "CRITICAL" THEN ML_KEM_1024 ELSE CRYPTO_FLOOR

\* Which parameter set, hence which key and ciphertext lengths, a level byte means.
level_to_alg(level) == IF level \in Levels THEN level ELSE ML_KEM_512

================================================================================
