--------------------------------- MODULE TasPkt ---------------------------------
(***************************************************************************)
(* tas_pkt.h: sizes in bytes of the packets of level 1 that the clients      *)
(* send and expect, and how many entries or bytes of a message fit into them. A       *)
(* packet is preceded by a word of level 2 with its size.                    *)
(***************************************************************************)
EXTENDS Naturals

Name64 == 64
Name32 == 32
Name16 == 16
Name8  == 8

TAS_MAX_PKT_SIZE_1KB == 1024
TAS_PL2_MAX_PKT_SIZE == 65544
TAS_PL2_MAX_PKT_SIZE_MIN == 128
TAS_PL1_CHL_MAX_MSG_SIZE == 1024
TAS_UNLOCK_MAX_KEY_LEN == 512

PL2 == 4        \* the word with the size
PL1 == 4        \* the first word of a packet: its length, command and error

--------------------------------------------------------------------------------
(* The server and the session.                                                *)

tas_server_info_st == Name64 + 2 + 2 + 3 * 4 + 4 * 4 + 16 + 8

tas_pl1rq_server_connect_st == PL1 + Name32 + Name16 + 4
tas_pl1rsp_server_connect_st == PL1 + 4 + tas_server_info_st + 8

tas_pl1rq_session_start_st == PL1 + 4 + 8 + Name64 + Name16 + Name16

tas_con_info_d2s_st == 2 * 4 + 4 + 4 * 4 + 4 + 2 + 1 + 1 + 2 * 2 + 2 * 2 + 1 + 1 + 2

tas_con_info_st == tas_con_info_d2s_st + Name64 + 4 + Name8

tas_pl1rq_ping_st == PL1
tas_pl1rsp_ping_st == PL1 + 4 + tas_con_info_st

tas_pl1rq_set_device_key_st == PL1 + 4
tas_pl1rsp_set_device_key_st == PL1

tas_pl1rq_device_connect_st == PL1 + 4
tas_pl1rsp_device_connect_st == PL1 + 2 + 2 + 4

--------------------------------------------------------------------------------
(* Lists.                                                                     *)

tas_target_info_st == Name64 + 4 + 4 * 4 + 1 + 1 + 2

tas_pl1rq_get_targets_st == PL1
tas_pl1rsp_get_targets_st == PL1 + 4

tas_target_client_info_st == Name32 + Name16 + 4 + 1 + 3 + 3 * 8

tas_pl1rq_get_clients_st == PL1 + Name64
tas_pl1rsp_get_clients_st == PL1 + 4 + Name16 + 8

--------------------------------------------------------------------------------
(* Channels.                                                                  *)

TAS_CHL_NUM_MAX == 32

tas_pl1rq_chl_subscribe_st == PL1 + 4
tas_pl1rsp_chl_subscribe_st == PL1 + 4

tas_pl1rq_chl_unsubscribe_st == PL1
tas_pl1rsp_chl_unsubscribe_st == PL1

tas_pl1rq_chl_msg_c2d_st == PL1 + 4
tas_pl1rsp_chl_msg_d2c_st == PL1 + 4

--------------------------------------------------------------------------------
(* Read and write: only how a response begins and ends.                       *)

tas_pl1rsp_pl0_start_st == PL1
tas_pl1rsp_pl0_end_st == PL1
================================================================================
