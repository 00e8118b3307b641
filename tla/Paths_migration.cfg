\* Three addresses; connection IDs run out with the limit of two.
CONSTANTS
  Addrs = {a0, a1, a2}
  First = a0
  None = None
  active_conn_id_limit = 2
  retire_dcid_limit = 1
  MAX_PROBING_TIMEOUTS = 2
  MIN_PROBING_SIZE = 1
  min_packet_len = 2
  probe_len = 2
  MIN_CLIENT_INITIAL_LEN = 3
  max_send_udp_payload_size = 3
  max_amplification_factor = 2
  Lengths = {1}
  received_challenges_max_len = 1
  MaxSeq = 3
  MaxRecvs = 3
  MaxCalls = 2
  MaxInputs = 4
SPECIFICATION Spec
SYMMETRY Symmetric
INVARIANTS MigrationProven AmplificationBound  ProbeAlive
CHECK_DEADLOCK FALSE
