CONSTANTS
  HostCpus = {p1, p2, p3}
  Programs = {timer, idle_avg, h2g_msg_timer}
  Resetting = {timer, idle_avg}
  MaxFailures = 3
SPECIFICATION FairSpec
INVARIANT ArmedOnce
PROPERTY EventuallyArmed
CHECK_DEADLOCK FALSE
