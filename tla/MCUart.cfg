CONSTANTS
    Writers = {w1, w2}
    Bytes = {b1, b2}
    UART_TX_BUF_SIZE = 2
    FifoSize = 2
    MaxRx = 2
    MaxWrite = 2
    Echo = Echo
    Irq = Irq
    None = None
SPECIFICATION Spec
INVARIANT NoSleepOnRoom
PROPERTY OutputInOrder
CHECK_DEADLOCK FALSE
