----------------------------- MODULE SystemRow -----------------------------
(***************************************************************************)
(* The rows of OVSDB that carry the configuration of LLDP: the maps        *)
(* other_config and status of the System row, the address columns of the   *)
(* management interface, the Bridge and VRF tables as far as they are      *)
(* empty or not, and per interface lldp_enable_dir, lane_split and the     *)
(* neighbour counters. The schema is external; keys and defaults are those *)
(* the command line (src/cli) and the daemon read and write.               *)
(*                                                                         *)
(* A map is a function from its LLDP keys that is None where the key is    *)
(* absent. A decimal string is the number it denotes: the command parser   *)
(* admits only digits inside the range of the command.                     *)
(***************************************************************************)
EXTENDS Integers

CONSTANTS
  None,   \* the value of an absent key
  Ifs,    \* interfaces with a row
  Tlvs    \* optional TLVs; each has a command word, a key and a field of its own

TxDefault == 30
TxMin == 5
TxMax == 32768
HoldDefault == 4
HoldMin == 2
HoldMax == 10
ReinitDefault == 2
EnableDefault == FALSE
TlvDefault == TRUE

ConfigKeys == {"enable", "hold", "reinit", "tx", "mgmt"} \cup Tlvs

\* lldp_num_clear_counters_requested, lldp_last_clear_counters_performed, and
\* the same for the neighbour table.
StatusKeys == {"counters", "table"} \X {"requested", "performed"}

VARIABLE db

SmapGet(map, key, default) == IF map[key] = None THEN default ELSE map[key]

\* smap_get_bool: only the opposite of the default is recognised.
SmapGetBool(map, key, default) ==
  IF default THEN SmapGet(map, key, "true") # "false" ELSE SmapGet(map, key, "false") = "true"

NoStats == [ins |-> 0, del |-> 0]

RowInit ==
  db = [other  |-> [k \in ConfigKeys |-> None],
        status |-> [k \in StatusKeys |-> None],
        ip     |-> None, ip6 |-> None,
        bridge |-> FALSE, vrf |-> FALSE,
        dir    |-> [i \in Ifs |-> None],
        split  |-> [i \in Ifs |-> FALSE],
        stats  |-> [i \in Ifs |-> NoStats]]

\* MIN(UINT16_MAX, tx * hold)
Ttl(tx, hold) == IF tx * hold > 65535 THEN 65535 ELSE tx * hold

Requested(status, what) == SmapGet(status, <<what, "requested">>, 0)

Performed(status, what) == SmapGet(status, <<what, "performed">>, 0)

Pending(status, what) == Requested(status, what) > Performed(status, what)
=============================================================================
