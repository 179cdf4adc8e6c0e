------------------------------ MODULE Startup ------------------------------
(***************************************************************************)
(* How every application of the repository starts: app_main and the        *)
(* functions it calls are programs, sequences of library calls, and what   *)
(* an interrupt, a callback, a task or the console makes of the half       *)
(* started system in between is part of the behaviour. A call under        *)
(* ESP_ERROR_CHECK, or an assertion, that fails aborts, and the chip boots *)
(* again; the result of a plain call is ignored. What a call needs to have *)
(* been called before it is the library's, and external.                   *)
(***************************************************************************)
EXTENDS Naturals, Sequences

CONSTANTS
  Apps,       \* applications that may be on the chip
  MaxFaults,  \* bound: calls that fail by themselves, and uses that abort
  MaxRestarts \* bound: restarts by console command

VARIABLES
  app, chip,  \* what was built, for which chip
  nvs,        \* the NVS partition: "ready", or "full" (no free pages, or of
              \* another version), which its initialisation reports
  pc,         \* the next call of the program; 0 is no power
  done,       \* calls that succeeded since the boot
  early,      \* history: calls and actors that came before what they need
  faults, restarts

vars == <<app, chip, nvs, pc, done, early, faults, restarts>>

-----------------------------------------------------------------------------
(* A program is made of sequences of calls of one kind. *)
Calls(kind, names) == [i \in 1 .. Len(names) |-> [call |-> names[i], kind |-> kind]]
Checked(names) == Calls("checked", names)
Plain(names) == Calls("plain", names)

(* Initialisation of the NVS: seven applications erase a full partition    *)
(* and try again; the variant does not.                                    *)
NvsUnhandled == Checked(<<"nvs_flash_init">>)
NvsInit == Calls("erase", <<"nvs_flash_init">>)

NewRadio == {"C5", "C6"}
Chips(a) ==
  IF a \in {"csi_send", "csi_recv"} THEN {"C5", "C6", "S3", "S2"}
  ELSE IF a \in {"slave_send", "slave_recv", "master_recv"} THEN {"C5"} ELSE {"S3"}

If(condition, program) == IF condition THEN program ELSE <<>>

(* esp_now_init and its peer. *)
EspNow == Checked(<<"esp_now_init", "esp_now_set_pmk", "esp_now_add_peer",
                    "esp_now_set_peer_rate_config">>)

(* Initialisation, mode and storage of the driver. *)
Driver == Checked(<<"esp_event_loop_create_default", "esp_netif_init", "esp_wifi_init",
                    "esp_wifi_set_mode", "esp_wifi_set_storage">>)
Dual == Checked(<<"esp_wifi_start">>) \o Plain(<<"esp_wifi_set_band_mode">>)
        \o Checked(<<"esp_wifi_set_protocols", "esp_wifi_set_bandwidths">>)
Tune == Checked(<<"esp_wifi_set_ps", "esp_wifi_set_channel", "esp_wifi_set_mac">>)
Csi == Checked(<<"esp_wifi_set_csi_config", "esp_wifi_set_csi_rx_cb", "esp_wifi_set_csi">>)

(* get-started: csi_send and csi_recv start their radio alike. *)
SendRadio(c) ==
  Driver \o (IF c \in NewRadio THEN Dual
             ELSE Checked(<<"esp_wifi_set_bandwidth", "esp_wifi_start">>))
  \o If(c = "S3", Checked(<<"esp_wifi_config_espnow_rate">>)) \o Tune
SendEspNow(c) ==
  IF c \in NewRadio THEN EspNow ELSE SubSeq(EspNow, 1, 3)
CsiSend(c) == NvsInit \o SendRadio(c) \o SendEspNow(c) \o Plain(<<"esp_now_send">>)

RecvRadio(c) == SendRadio(c)
RecvEspNow(c) == If(c = "C5", EspNow)
RecvCsi == Checked(<<"esp_wifi_set_promiscuous">>) \o Csi
CsiRecv(c) == NvsInit \o RecvRadio(c) \o RecvEspNow(c) \o RecvCsi

RouterCsi == Checked(<<"esp_wifi_sta_get_ap_info">>) \o Csi
RouterPing == Plain(<<"esp_netif_get_ip_info", "esp_ping_new_session", "esp_ping_start">>)
CsiRecvRouter ==
  Checked(<<"nvs_flash_init", "esp_netif_init", "esp_event_loop_create_default",
            "example_connect">>) \o RouterCsi \o RouterPing

-----------------------------------------------------------------------------
(* esp-crab. The radio is started twice. *)
CrabRadio == Driver \o Dual \o Checked(<<"esp_wifi_start">>) \o Tune
SlaveSendRadio == CrabRadio
SlaveSendEspNow == EspNow
SlaveSend == NvsInit \o SlaveSendRadio \o SlaveSendEspNow \o Plain(<<"esp_now_send">>)

Gpio == Plain(<<"gpio_config", "gpio_install_isr_service", "gpio_isr_handler_add">>)
Uart == Checked(<<"uart_driver_install", "uart_param_config", "uart_set_pin">>)
Led == Plain(<<"calloc led">>) \o Checked(<<"led_strip_new_rmt_device">>)
       \o Plain(<<"led_strip_clear", "led_strip_task">>)

SlaveRadio == CrabRadio
SlaveEspNow == EspNow
SlaveUart == Uart
SlaveGpio == Gpio
SlaveCsi == Checked(<<"esp_wifi_set_promiscuous">>) \o Plain(<<"csi_send_queue">>) \o Csi
SlaveRecv ==
  NvsInit \o SlaveRadio \o SlaveEspNow \o SlaveGpio \o SlaveUart \o Led \o SlaveCsi
  \o Plain(<<"uart_send_task">>)

(* The display of the master, with CONFIG_BSP_ERROR_CHECK, its default. *)
Brightness == Checked(<<"ledc_timer_config", "ledc_channel_config">>)
I2c == Checked(<<"i2c_param_config", "i2c_driver_install">>)
Panel ==
  Brightness \o I2c \o Checked(<<"spi_bus_initialize">>) \o Plain(<<"esp_lcd_new_panel_io_spi">>)
  \o Checked(<<"esp_lcd_new_panel_gc9a01">>)
  \o Plain(<<"esp_lcd_panel_reset", "esp_lcd_panel_init", "esp_lcd_panel_invert_color",
             "esp_lcd_panel_disp_on_off">>)
Screen == Panel \o Plain(<<"esp_lcd_panel_disp_on_off">>) \o Checked(<<"lvgl_port_add_disp">>)
Touch ==  \* I2C is up already
  Checked(<<"esp_lcd_new_panel_io_i2c", "esp_lcd_touch_new_i2c_cst816s", "lvgl_port_add_touch">>)
Display == Checked(<<"lvgl_port_init">>) \o Brightness \o Screen \o Touch

MasterRadio == CrabRadio
MasterEspNow == EspNow
(* Variant: the task is created before the queue that it fills. *)
UartTaskFirst == Uart \o Plain(<<"uart_event_task", "uart_recv_queue">>)
MasterUart == Uart \o Plain(<<"uart_recv_queue", "uart_event_task">>)
MasterGpio == Gpio
MasterCsi ==
  Checked(<<"esp_wifi_set_promiscuous">>) \o Plain(<<"csi_recv_queue", "csi_display_queue">>) \o Csi
MasterRecv ==
  NvsInit \o Plain(<<"bsp_slave_reset">>) \o Display
  \o Plain(<<"lvgl_port_lock", "ui_init", "lvgl_port_unlock", "bsp_display_backlight_on">>)
  \o MasterRadio \o MasterEspNow \o MasterGpio \o MasterCsi \o MasterUart \o Led
  \o Plain(<<"process_csi_data_task", "csi_data_display_task">>)

-----------------------------------------------------------------------------
(* esp-radar *)
ConsoleRadio ==
  NvsInit
  \o Checked(<<"esp_netif_init", "esp_wifi_init", "esp_event_loop_create_default",
               "esp_wifi_set_storage", "esp_wifi_set_mode", "esp_wifi_start">>)
  \o Plain(<<"esp_netif_create_default_wifi_sta">>)
  \o Checked(<<"esp_wifi_set_ps", "esp_wifi_set_protocol", "esp_wifi_set_channel",
               "esp_wifi_set_promiscuous">>)
SystemCommands == Checked(<<"version", "heap", "restart", "reset", "log">>)
ConsoleTest ==
  Plain(<<"ws2812_led_init", "ws2812_led_clear">>) \o Checked(<<"esp_console_new_repl_uart">>)
  \o ConsoleRadio \o Checked(<<"IP_EVENT handler", "WIFI_EVENT handler", "ping">>)
  \o SystemCommands \o Checked(<<"wifi_config", "wifi_scan", "radar", "esp_console_start_repl">>)
  \o Plain(<<"esp_radar_init", "esp_radar_set_config", "esp_radar_start", "g_csi_info_queue",
             "csi_data_print_task">>)

RadarStart == Plain(<<"esp_radar_init", "esp_wifi_sta_get_ap_info", "esp_radar_set_config",
                      "esp_radar_start">>)
PingRouterStart == Plain(<<"esp_netif_get_ip_info", "esp_ping_new_session", "esp_ping_start">>)
ConnectRainmaker ==
  Plain(<<"ws2812_led_init", "ws2812_led_clear", "iot_button_create",
          "app_reset_button_register">>)
  \o NvsInit \o Plain(<<"nvs_open", "nvs_get_blob", "app_wifi_init">>)
  \o Checked(<<"esp_rmaker_node_init">>) \o Plain(<<"esp_rmaker_device_create">>)
  \o Checked(<<"esp_rmaker_device_add_cb", "esp_rmaker_device_add_param",
               "esp_rmaker_node_add_device", "esp_rmaker_ota_enable_default">>)
  \o Plain(<<"esp_rmaker_start">>) \o Checked(<<"app_wifi_start">>)
  \o RadarStart \o PingRouterStart

Program ==
  CASE app = "csi_send" -> CsiSend(chip)
    [] app = "csi_recv" -> CsiRecv(chip)
    [] app = "csi_recv_router" -> CsiRecvRouter
    [] app = "slave_send" -> SlaveSend
    [] app = "slave_recv" -> SlaveRecv
    [] app = "master_recv" -> MasterRecv
    [] app = "console_test" -> ConsoleTest
    [] app = "connect_rainmaker" -> ConnectRainmaker
    [] OTHER -> <<>>

-----------------------------------------------------------------------------
(* What a library function needs to have been called before it, and what *)
(* the two that bring up a whole station stand for.                       *)
Needs(call) ==
  CASE call \in {"esp_wifi_init", "app_wifi_init", "example_connect", "nvs_open"}
         -> {"nvs_flash_init"}
    [] call \in {"esp_wifi_set_mode", "esp_wifi_set_storage", "esp_wifi_set_bandwidth",
                 "esp_wifi_set_csi", "esp_wifi_set_promiscuous",
                 "esp_wifi_set_csi_config", "esp_radar_init"} -> {"esp_wifi_init"}
    [] call = "esp_wifi_start" -> {"esp_wifi_init", "esp_event_loop_create_default"}
    [] call \in {"esp_wifi_set_channel", "esp_wifi_set_band_mode",
                 "esp_wifi_config_espnow_rate", "esp_now_init"} -> {"esp_wifi_start"}
    [] call \in {"esp_wifi_sta_get_ap_info", "esp_netif_get_ip_info"} -> {"connected"}
    [] call \in {"esp_now_set_pmk", "esp_now_add_peer"} -> {"esp_now_init"}
    [] call \in {"esp_now_send", "esp_now_set_peer_rate_config"} -> {"esp_now_add_peer"}
    [] call = "esp_netif_create_default_wifi_sta"
         -> {"esp_netif_init", "esp_event_loop_create_default"}
    [] call = "gpio_isr_handler_add" -> {"gpio_install_isr_service"}
    [] call \in {"uart_param_config", "uart_set_pin"} -> {"uart_driver_install"}
    [] call \in {"led_strip_clear", "led_strip_task"}
         -> {"led_strip_new_rmt_device", "calloc led"}
    [] call = "esp_lcd_new_panel_io_spi" -> {"spi_bus_initialize"}
    [] call = "esp_lcd_new_panel_gc9a01" -> {"esp_lcd_new_panel_io_spi"}
    [] call \in {"lvgl_port_add_disp", "lvgl_port_lock"} -> {"lvgl_port_init"}
    [] call = "esp_lcd_new_panel_io_i2c" -> {"i2c_driver_install"}
    [] call = "ui_init" -> {"lvgl_port_add_disp", "lvgl_port_lock"}
    [] call = "bsp_display_backlight_on" -> {"ledc_channel_config"}
    [] call = "esp_console_start_repl" -> {"esp_console_new_repl_uart"}
    [] call = "esp_rmaker_node_init" -> {"app_wifi_init"}
    [] call = "app_wifi_start" -> {"esp_rmaker_node_init"}
    [] call \in {"esp_radar_set_config", "esp_radar_start"} -> {"esp_radar_init"}
    [] call = "esp_ping_start" -> {"esp_ping_new_session"}
    [] OTHER -> {}
Gives(call) ==
  {call} \union CASE call = "example_connect" -> {"esp_wifi_init", "esp_wifi_start", "connected"}
                  [] call = "app_wifi_init" -> {"esp_wifi_init"}
                  [] call = "app_wifi_start" -> {"esp_wifi_start", "connected"}
                  [] OTHER -> {}

(* Calls that may fail for the hardware's or the network's sake. *)
Fallible == {"esp_lcd_new_panel_io_spi", "esp_lcd_touch_new_i2c_cst816s",
             "led_strip_new_rmt_device", "esp_ping_new_session", "example_connect",
             "app_wifi_start"}

(* The actors beside app_main: the call that sets one loose, and what its  *)
(* first step needs. An interrupt asserts that its queue is not NULL, the  *)
(* library's functions are not known to check.                             *)
Actor(name, from, needs, aborts) == [name |-> name, from |-> from, needs |-> needs, aborts |-> aborts]
gpio_isr_handler(queue) == Actor("gpio_isr_handler", "gpio_isr_handler_add", {queue}, TRUE)
LedTask == Actor("led_strip_task", "led_strip_task", {"calloc led", "led_strip_new_rmt_device"}, FALSE)
SlaveActors ==
  {gpio_isr_handler("csi_send_queue"), LedTask,
   Actor("wifi_csi_rx_cb", "esp_wifi_set_csi", {"csi_send_queue"}, TRUE),
   Actor("uart_send_task", "uart_send_task", {"csi_send_queue", "uart_driver_install"}, TRUE)}
MasterActors ==
  {gpio_isr_handler("csi_recv_queue"), LedTask,
   Actor("wifi_csi_rx_cb", "esp_wifi_set_csi", {"csi_recv_queue"}, TRUE),
   Actor("uart_event_task", "uart_event_task", {"uart_driver_install", "uart_recv_queue"}, TRUE),
   Actor("process_csi_data_task", "process_csi_data_task",
         {"csi_recv_queue", "csi_display_queue"}, TRUE),
   Actor("csi_data_display_task", "csi_data_display_task", {"uart_recv_queue", "ui_init"}, TRUE)}
(* A command, and the handler that the start of the station is for. *)
ConsoleActors ==
  {Actor("wifi_cmd_radar", "esp_console_start_repl", {"esp_radar_init"}, FALSE),
   Actor("wifi_config_func", "esp_console_start_repl", {"esp_wifi_start"}, FALSE),
   Actor("WIFI_EVENT_STA_START", "esp_wifi_start", {"esp_netif_create_default_wifi_sta"}, FALSE),
   Actor("wifi_csi_raw_cb", "esp_radar_start", {"esp_radar_set_config"}, FALSE),
   Actor("csi_data_print_task", "csi_data_print_task", {"g_csi_info_queue"}, TRUE)}
(* Writes of the app arrive once the agent and the station are up. *)
RainmakerActors ==
  {Actor("write_cb", "app_wifi_start", {"nvs_open", "esp_rmaker_start", "esp_radar_init"}, FALSE),
   Actor("radar_cb", "esp_radar_start", {"esp_radar_set_config"}, FALSE)}
Actors ==
  CASE app = "slave_recv" -> SlaveActors
    [] app = "master_recv" -> MasterActors
    [] app = "console_test" -> ConsoleActors
    [] app = "connect_rainmaker" -> RainmakerActors
    [] OTHER -> {}

-----------------------------------------------------------------------------
Off == "none"
Init ==
  /\ app = Off /\ chip = Off /\ nvs = "ready" /\ pc = 0
  /\ done = {} /\ early = {} /\ faults = 0 /\ restarts = 0

PowerOn ==
  /\ pc = 0
  /\ app' \in Apps /\ chip' \in Chips(app') /\ nvs' \in {"ready", "full"}
  /\ pc' = 1
  /\ UNCHANGED <<done, early, faults, restarts>>

Booting == pc \in 1 .. Len(Program)
Running == pc > Len(Program)
Current == Program[pc]
Fails == Current.call = "nvs_flash_init" /\ nvs = "full"
TooEarly == ~(Needs(Current.call) \subseteq done)

Boot == pc' = 1 /\ done' = {}
Pass == pc' = pc + 1 /\ UNCHANGED done

Call ==
  /\ Booting /\ ~TooEarly /\ ~Fails
  /\ pc' = pc + 1 /\ done' = done \union Gives(Current.call)
  /\ UNCHANGED <<app, chip, nvs, early, faults, restarts>>

(* A call whose needs are not met fails. *)
CallTooEarly ==
  /\ Booting /\ TooEarly
  /\ IF Current.kind = "plain" THEN Pass ELSE Boot
  /\ early' = early \union {Current.call}
  /\ UNCHANGED <<app, chip, nvs, faults, restarts>>

(* nvs_flash_init finds the partition full: erased, or the end. *)
Erase ==
  /\ Booting /\ Fails
  /\ IF Current.kind = "erase" THEN nvs' = "ready" /\ UNCHANGED <<pc, done>>
                               ELSE Boot /\ UNCHANGED nvs
  /\ UNCHANGED <<app, chip, early, faults, restarts>>

CallFails ==
  /\ Booting /\ ~TooEarly /\ Current.call \in Fallible
  /\ faults < MaxFaults /\ faults' = faults + 1
  /\ IF Current.kind = "plain" THEN Pass ELSE Boot
  /\ UNCHANGED <<app, chip, nvs, early, restarts>>

(* An actor takes its first step before what that needs is there. *)
ActTooEarly ==
  /\ \E a \in Actors :
       /\ a.from \in done /\ ~(a.needs \subseteq done)
       /\ early' = early \union {a.name}
       /\ \/ a.aborts /\ faults < MaxFaults /\ faults' = faults + 1 /\ Boot
          \/ ~a.aborts /\ UNCHANGED <<pc, done, faults>>
  /\ UNCHANGED <<app, chip, nvs, restarts>>

(* The commands restart and reset; the latter erases the NVS partition. *)
Restart(nvs_after) ==
  /\ "esp_console_start_repl" \in done
  /\ restarts < MaxRestarts /\ restarts' = restarts + 1
  /\ nvs' = nvs_after /\ Boot
  /\ UNCHANGED <<app, chip, early, faults>>
restart_func == Restart(nvs)
reset_func == Restart("ready")

Step == Call \/ CallTooEarly \/ Erase
Next ==
  \/ PowerOn \/ Step \/ CallFails \/ ActTooEarly
  \/ restart_func \/ reset_func

(* app_main goes on. *)
Fairness == WF_vars(Step)
Spec == Init /\ [][Next]_vars /\ Fairness

-----------------------------------------------------------------------------
TypeOK ==
  /\ app \in Apps \union {Off} /\ nvs \in {"ready", "full"}
  /\ pc \in 0 .. Len(Program) + 1 /\ (pc > 0 <=> app # Off)
  /\ faults \in 0 .. MaxFaults /\ restarts \in 0 .. MaxRestarts

(* However calls fail and actors run, the only things that come before     *)
(* what they need are these: the sync interrupt, enabled by init_gpio      *)
(* before the receive queue is made; the start event of the station, whose *)
(* handlers console_test installs after the start; a radar command before  *)
(* esp_radar_init, in both radar applications; and what follows a failure  *)
(* that the code ignores.                                                  *)
KnownEarly ==
  CASE app \in {"slave_recv", "master_recv"} ->
         {"gpio_isr_handler"} \union (IF faults > 0 THEN {"esp_lcd_new_panel_gc9a01"} ELSE {})
    [] app = "console_test" -> {"WIFI_EVENT_STA_START", "wifi_cmd_radar"}
    [] app = "connect_rainmaker" -> {"write_cb"} \union (IF faults > 0 THEN {"esp_ping_start"} ELSE {})
    [] app = "csi_recv_router" -> IF faults > 0 THEN {"esp_ping_start"} ELSE {}
    [] OTHER -> {}
NothingElseEarly == early \subseteq KnownEarly

(* Once calls stop failing, app_main comes to its end, or its loop; except *)
(* in csi_recv_router on a full NVS partition, which boots for ever.       *)
BootEnds == Booting /\ ~(app = "csi_recv_router" /\ nvs = "full") ~> Running
=============================================================================
